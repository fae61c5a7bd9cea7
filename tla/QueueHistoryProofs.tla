------------------------- MODULE QueueHistoryProofs -------------------------
(***************************************************************************)
(* What the operators of QueueHistory record, for the proofs about the two *)
(* queues that extend it.                                                  *)
(***************************************************************************)
EXTENDS QueueHistory, TLAPS

(* What the operators of the history do to its type. *)
LEMMA HistoryTyped ==
  ASSUME HistoryType
  PROVE  /\ UNCHANGED history => HistoryType'
         /\ \A v \in Items : EnqueueCalled(v) => HistoryType'
         /\ \A v \in Items : EnqueueReturned(v) => HistoryType'
         /\ \A t \in Threads : DequeueCalled(t) => HistoryType'
         /\ \A t \in Threads, v \in Items : DequeueReturned(t, v) => HistoryType'
         /\ \A t \in Threads : DequeueReturnedEmpty(t) => HistoryType'
<1>1. UNCHANGED history => HistoryType'
  BY DEF history, HistoryType
<1>2. ASSUME NEW v \in Items, EnqueueCalled(v)  PROVE HistoryType'
  <2>1. PICK b \in [Items -> SUBSET Items] :
               b = [hist.before EXCEPT ![v] = hist.returned \ hist.delivered]
    BY Zenon DEF HistoryType
  <2>2. hist' = [hist EXCEPT !.sent = @ \cup {v}, !.before = b]
    BY <1>2, <2>1 DEF EnqueueCalled
  <2>3. hist.sent \cup {v} \in SUBSET Items
    BY DEF HistoryType
  <2> QED  BY Zenon, <1>2, <2>2, <2>3 DEF EnqueueCalled, HistoryType
<1>3. \A v \in Items : EnqueueReturned(v) => HistoryType'
  BY DEF EnqueueReturned, HistoryType
<1>4. ASSUME NEW t \in Threads, DequeueCalled(t)  PROVE HistoryType'
  <2>1. Late \in SUBSET Items
    BY DEF Late, HistoryType
  <2> QED  BY SMTT(30), <1>4, <2>1 DEF DequeueCalled, HistoryType
<1>5. ASSUME NEW t \in Threads, NEW v \in Items, DequeueReturned(t, v)
      PROVE  HistoryType'
  <2>1. /\ hist.delivered \cup {v} \in SUBSET Items
        /\ hist.twice \cup (hist.delivered \cap {v}) \in SUBSET Items
        /\ hist.overtaken \cup (call[t].late \cap {v}) \in SUBSET Items
        /\ hist.resurfaced \cup (call[t].gone \cap {v}) \in SUBSET Items
    BY DEF HistoryType
  <2>2. NoCall \in [sent : SUBSET Items, late : SUBSET Items, gone : SUBSET Items]
    BY DEF NoCall
  <2> QED  BY Zenon, <1>5, <2>1, <2>2 DEF DequeueReturned, HistoryType
<1>6. ASSUME NEW t \in Threads, DequeueReturnedEmpty(t)  PROVE HistoryType'
  <2>1. hist.emptied \cup call[t].sent \in SUBSET Items
    BY DEF HistoryType
  <2>2. NoCall \in [sent : SUBSET Items, late : SUBSET Items, gone : SUBSET Items]
    BY DEF NoCall
  <2> QED  BY Zenon, <1>6, <2>1, <2>2 DEF DequeueReturnedEmpty, HistoryType
<1> QED  BY <1>1, <1>2, <1>3, <1>4, <1>5, <1>6
-----------------------------------------------------------------------------
\* The part of the history that says where every item is.
whereabouts == <<hist.sent, hist.returned, hist.delivered, hist.twice>>

(* What the operators of the history record about the items. *)
LEMMA HistoryEffect ==
  ASSUME HistoryType
  PROVE  /\ UNCHANGED history => UNCHANGED whereabouts
         /\ \A v \in Items : EnqueueCalled(v) =>
              /\ hist'.sent = hist.sent \cup {v}
              /\ UNCHANGED <<hist.returned, hist.delivered, hist.twice>>
         /\ \A v \in Items : EnqueueReturned(v) =>
              /\ hist'.returned = hist.returned \cup {v}
              /\ UNCHANGED <<hist.sent, hist.delivered, hist.twice>>
         /\ \A t \in Threads : DequeueCalled(t) => UNCHANGED whereabouts
         /\ \A t \in Threads, v \in Items : DequeueReturned(t, v) =>
              /\ hist'.delivered = hist.delivered \cup {v}
              /\ hist'.twice = hist.twice \cup (hist.delivered \cap {v})
              /\ UNCHANGED <<hist.sent, hist.returned>>
         /\ \A t \in Threads : DequeueReturnedEmpty(t) => UNCHANGED whereabouts
<1> USE DEF HistoryType, whereabouts
<1>1. UNCHANGED history => UNCHANGED whereabouts
  BY DEF history
<1>2. ASSUME NEW v \in Items, EnqueueCalled(v)
      PROVE  /\ hist'.sent = hist.sent \cup {v}
             /\ UNCHANGED <<hist.returned, hist.delivered, hist.twice>>
  BY <1>2 DEF EnqueueCalled
<1>3. ASSUME NEW v \in Items, EnqueueReturned(v)
      PROVE  /\ hist'.returned = hist.returned \cup {v}
             /\ UNCHANGED <<hist.sent, hist.delivered, hist.twice>>
  BY <1>3 DEF EnqueueReturned
<1>4. ASSUME NEW t \in Threads, DequeueCalled(t)  PROVE UNCHANGED whereabouts
  BY <1>4 DEF DequeueCalled
<1>5. ASSUME NEW t \in Threads, NEW v \in Items, DequeueReturned(t, v)
      PROVE  /\ hist'.delivered = hist.delivered \cup {v}
             /\ hist'.twice = hist.twice \cup (hist.delivered \cap {v})
             /\ UNCHANGED <<hist.sent, hist.returned>>
  BY <1>5 DEF DequeueReturned
<1>6. ASSUME NEW t \in Threads, DequeueReturnedEmpty(t)
      PROVE  UNCHANGED whereabouts
  BY <1>6 DEF DequeueReturnedEmpty
<1> QED  BY Zenon, <1>1, <1>2, <1>3, <1>4, <1>5, <1>6
=============================================================================
