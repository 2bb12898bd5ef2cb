-------------------------- MODULE DashboardProofs ---------------------------
(***************************************************************************)
(* Proofs about Dashboard, for any number of agents, handlers, sockets,      *)
(* mounts and faults.                                                       *)
(*                                                                          *)
(* The argument: while connect() has never overtaken an onclose, the field   *)
(* holds the one socket that lives, and a socket whose onclose is still to   *)
(* come lives beside none; so an onclose, which forgets whatever the field   *)
(* holds, never forgets a socket that lives.                                *)
(***************************************************************************)
EXTENDS Dashboard, FiniteSetTheorems, TLAPS

Live(s) == link[s] \in {"connecting", "open"}
Ending(s) == link[s] \in {"closing", "lost"}

SocketInv ==
  /\ link \in [Sockets -> {"unused", "connecting", "open", "closing", "lost", "closed"}]
  /\ overlap \in BOOLEAN
  /\ ~overlap =>
       /\ \A s \in Sockets : Live(s) => socket = s
       /\ \A s, t \in Sockets : Ending(s) => ~Live(t)

LEMMA SocketInit == Init => SocketInv
BY DEF Init, SocketInv, Live, Ending

\* connect() on an empty field: either a socket is still to end, which is the
\* overlap, or the new one is alone.
LEMMA ConnectStep ==
  ASSUME SocketInv, Disconnected, NewSocket, 0 \notin Sockets
  PROVE  SocketInv'
<1>1. PICK n : /\ socket' = n
               /\ link' = [link EXCEPT ![n] = "connecting"]
               /\ overlap' = (overlap \/ \E o \in Sockets : link[o] \in {"closing", "lost"})
  BY DEF NewSocket
<1>2. /\ link' \in [Sockets -> {"unused", "connecting", "open", "closing", "lost", "closed"}]
      /\ overlap' \in BOOLEAN
  BY <1>1 DEF SocketInv
<1>3. ASSUME ~overlap'
      PROVE  /\ \A s \in Sockets : Live(s)' => socket' = s
             /\ \A s, t \in Sockets : Ending(s)' => ~Live(t)'
  <2>1. ~overlap /\ \A s \in Sockets : ~Ending(s)
    BY <1>1, <1>3 DEF SocketInv, Ending
  <2>2. \A s \in Sockets : ~Live(s)
    BY <2>1 DEF SocketInv, Disconnected
  <2>3. \A s \in Sockets : s # n => link'[s] = link[s]
    BY <1>1 DEF SocketInv
  <2>4. \A s \in Sockets : s = n => link'[s] = "connecting"
    BY <1>1 DEF SocketInv
  <2> QED
    BY <1>1, <2>1, <2>2, <2>3, <2>4 DEF Live, Ending
<1> QED
  BY <1>2, <1>3 DEF SocketInv

LEMMA SocketStep == SocketInv /\ [Next]_vars => SocketInv'
<1> SUFFICES ASSUME SocketInv, [Next]_vars PROVE SocketInv'
  OBVIOUS
<1>0. 0 \notin Sockets
  BY DashboardAssumption DEF Sockets
<1>1. CASE UNCHANGED <<link, socket, overlap>>
  BY <1>1 DEF SocketInv, Live, Ending
<1>2. CASE Reconnect \/ Mount
  BY <1>0, <1>1, <1>2, ConnectStep DEF Reconnect, Mount
<1>3. ASSUME NEW s \in Sockets, Accept(s) PROVE SocketInv'
  BY <1>3 DEF Accept, SocketInv, Live, Ending
<1>4. ASSUME NEW s \in Sockets, Lose(s) PROVE SocketInv'
  BY <1>4 DEF Lose, SocketInv, Live, Ending
<1>5. ASSUME NEW s \in Sockets, OnClose(s) PROVE SocketInv'
  BY <1>5 DEF OnClose, SocketInv, Live, Ending
<1>6. CASE Unmount
  BY <1>0, <1>6 DEF Unmount, SocketInv, Live, Ending
<1>7. CASE Telemetry \/ \E h \in Handlers : SetStatus(h) \/ StatusSent(h) \/ Restart(h) \/ Restore(h)
  BY <1>1, <1>7 DEF Telemetry, SetStatus, StatusSent, Restart, Restore, ws
<1>8. ASSUME NEW s \in Sockets, Drop(s) \/ Deliver(s) PROVE SocketInv'
  BY <1>1, <1>8 DEF Drop, Deliver, ws
<1>9. CASE Refresh \/ (\E r \in answers : Answer(r)) \/ (\E a \in Agents : Choose(a))
  BY <1>1, <1>9 DEF Refresh, Answer, Choose, ws
<1>10. ASSUME NEW h \in Handlers,
              \/ AskRestart(h) \/ PostFails(h)
              \/ \E a \in Agents, st \in Statuses : Toggle(h, a, st)
       PROVE  SocketInv'
  BY <1>1, <1>10 DEF AskRestart, PostFails, Toggle, Request, ws
<1>11. CASE UNCHANGED vars
  BY <1>1, <1>11 DEF vars, ws
<1> QED
  BY <1>2, <1>3, <1>4, <1>5, <1>6, <1>7, <1>8, <1>9, <1>10, <1>11 DEF Next, Backend, Browser

\* A console that never connects before the onclose of its socket has one socket
\* at most, whatever is lost, reconnected, unmounted and mounted again
\* (StatusWebSocket of ws.ts).
THEOREM OneSocket == Spec => []OneSocketUnlessOverlap
<1>1. SocketInv => OneSocketUnlessOverlap
  <2> SUFFICES ASSUME SocketInv, ~overlap
               PROVE  Cardinality({s \in Sockets : link[s] \in {"connecting", "open"}}) <= 1
    BY DEF OneSocketUnlessOverlap
  <2> DEFINE L == {s \in Sockets : link[s] \in {"connecting", "open"}}
  <2>1. L \subseteq {socket}
    BY DEF SocketInv, Live
  <2>2. IsFiniteSet({socket}) /\ Cardinality({socket}) = 1
    BY FS_Singleton
  <2> HIDE DEF L
  <2>3. IsFiniteSet(L) /\ Cardinality(L) <= 1
    BY <2>1, <2>2, FS_Subset
  <2> QED
    BY <2>3 DEF L
<1> QED
  BY <1>1, SocketInit, SocketStep, PTL DEF Spec
=============================================================================
