----------------------- MODULE ComputeDisplaysProofs -----------------------
(***************************************************************************)
(* Proofs, for any nodes, servers and workers, of what the advisory locks  *)
(* of the Computer Manager are worth: that no two allocations choose the   *)
(* same display, and when an answered display may be replaced.             *)
(*                                                                         *)
(* The argument: a worker holds the lock of every server whose displays it *)
(* has looked at (CallOK), so what it read there is a superset of what is  *)
(* occupied until it commits (Seen); nodes read before the locks are the   *)
(* ones they were as long as the call is not overtaken (UpToDate).  Locks  *)
(* are taken upwards: who holds the greatest server wanted can go on.      *)
(***************************************************************************)
EXTENDS ComputeDisplays, NumberFacts, TLAPS

\* What a call c may say, whatever the rows are.
CallOK(c) ==
  /\ c.looked \subseteq c.held
  /\ \A n \in c.todo : n \in NodesOf(c.dep) /\ ServerOf[n] \in c.want \cup c.held
  /\ \A n \in Nodes : c.mine[n] # Null =>
       /\ n \in NodesOf(c.dep) \ c.todo /\ ServerOf[n] \in c.looked
       /\ c.mine[n] \in c.occupied[ServerOf[n]]

\* A live node that c does not change has none of the displays c gives, and is among
\* those c found occupied.
Seen(c) ==
  \A m \in Nodes : c.mine[m] = Null /\ nodo[m] # "DELETED" /\ display[m] # Null =>
    /\ server[m] \in c.looked => display[m] \in c.occupied[server[m]]
    /\ \A n \in Nodes : c.mine[n] # Null /\ server[m] = ServerOf[n] => display[m] # c.mine[n]

\* Unless c is overtaken, its nodes are as it read them.
UpToDate(c) ==
  /\ \A n \in Nodes : n \in c.todo \/ c.answer[n] # Null => nodo[n] # "none"
  /\ ~c.overtaken => \A n \in Nodes :
       /\ n \in c.todo \/ c.mine[n] # Null => display[n] = Null
       /\ n \in NodesOf(c.dep) /\ c.answer[n] # Null =>
            \/ c.mine[n] = c.answer[n]
            \/ c.mine[n] = Null /\ (nodo[n] = "PENDING" => display[n] = c.answer[n])

OneHolder == \A w, x \in Workers : w # x => call[w].held \cap call[x].held = {}

DisplayInv ==
  /\ DisplayTypeOK /\ OneHolder
  /\ \A w \in Workers : CallOK(call[w]) /\ UpToDate(call[w]) /\ (revived \/ Seen(call[w]))

-----------------------------------------------------------------------------
\* A worker at rest.
LEMMA RestingIsOK == Resting \in Calls /\ Resting.held = {} /\ CallOK(Resting)
<1>1. Resting \in Calls
  BY DEF Resting, Calls, Nulls, Null
<1>2. /\ Resting.todo = {} /\ Resting.looked = {} /\ Resting.held = {}
      /\ \A n \in Nodes : Resting.mine[n] = Null /\ Resting.answer[n] = Null
  BY DEF Resting, Nulls
<1> QED
  BY <1>1, <1>2 DEF CallOK

\* Steps of one worker that change no row.
LEMMA CallChange ==
  ASSUME DisplayInv, NEW w \in Workers, NEW next \in Calls,
         call' = [call EXCEPT ![w] = next], UNCHANGED rowVars,
         CallOK(next), UpToDate(next), revived \/ Seen(next),
         \A x \in Workers \ {w} : next.held \cap call[x].held = {}
  PROVE  DisplayInv'
<1>1. nodo' = nodo /\ display' = display /\ server' = server /\ revived' = revived
  BY DEF rowVars
<1>2. call \in [Workers -> Calls]
  BY DEF DisplayInv, DisplayTypeOK
<1>3. call'[w] = next /\ \A x \in Workers \ {w} : call'[x] = call[x]
  BY <1>2
<1>4. call' \in [Workers -> Calls]
  BY <1>2
<1>5. DisplayTypeOK'
  BY <1>1, <1>4 DEF DisplayInv, DisplayTypeOK
<1>6. OneHolder'
  BY <1>3 DEF DisplayInv, OneHolder
<1>7. ASSUME NEW x \in Workers
      PROVE  CallOK(call'[x]) /\ UpToDate(call'[x]) /\ (revived \/ Seen(call'[x]))
  BY <1>3 DEF DisplayInv
<1>8. \A x \in Workers : (CallOK(call[x]) /\ UpToDate(call[x]) /\ (revived \/ Seen(call[x])))'
  BY <1>1, <1>7 DEF CallOK, UpToDate, Seen, NodesOf
<1> QED
  BY <1>5, <1>6, <1>8 DEF DisplayInv

LEMMA AbortKeeps ==
  ASSUME DisplayInv, NEW w \in Workers, AbortAllocate(w)
  PROVE  DisplayInv'
<1>1. /\ Resting.todo = {} /\ Resting.looked = {} /\ Resting.held = {}
      /\ \A n \in Nodes : Resting.mine[n] = Null /\ Resting.answer[n] = Null
  BY DEF Resting, Nulls
<1>2. Seen(Resting) /\ UpToDate(Resting)
  BY <1>1 DEF Seen, UpToDate
<1> QED
  BY <1>1, <1>2, RestingIsOK, CallChange DEF AbortAllocate

LEMMA BeginKeeps ==
  ASSUME DisplayInv, NEW w \in Workers, NEW d \in Deployments, BeginAllocate(w, d)
  PROVE  DisplayInv'
<1> DEFINE pending == {n \in NodesOf(d) : nodo[n] = "PENDING"}
           bare == {n \in pending : display[n] = Null}
           found == [n \in Nodes |-> IF n \in pending THEN display[n] ELSE Null]
           servers == {ServerOf[n] : n \in bare}
           next == [Resting EXCEPT !.dep = d, !.todo = bare, !.want = servers,
                                   !.answer = found]
<1>1. call \in [Workers -> Calls] /\ display \in [Nodes -> Displays \cup {Null}]
  BY DEF DisplayInv, DisplayTypeOK
<1>2. call' = [call EXCEPT ![w] = next] /\ UNCHANGED rowVars
  BY DEF BeginAllocate
<1>3. bare \in SUBSET NodesOf(d) /\ NodesOf(d) \in SUBSET Nodes
  BY DEF NodesOf
<1>4. servers \in SUBSET Servers /\ \A n \in bare : ServerOf[n] \in servers
  BY <1>3, DisplayAssumption
<1>5. found \in [Nodes -> Displays \cup {Null}]
  BY <1>1
<1>6. \A n \in Nodes : n \in bare \/ found[n] # Null => nodo[n] = "PENDING"
  BY <1>3
<1>7. \A n \in Nodes : found[n] # Null => found[n] = display[n]
  OBVIOUS
<1>8. \A n \in bare : display[n] = Null
  OBVIOUS
<1> HIDE DEF pending, bare, found, servers
<1>9. /\ next.dep = d /\ next.todo = bare /\ next.want = servers /\ next.answer = found
      /\ next.held = {} /\ next.looked = {} /\ next.overtaken = FALSE
      /\ \A n \in Nodes : next.mine[n] = Null
  BY DEF Resting, Nulls
<1>10. next \in Calls
  BY <1>3, <1>4, <1>5, RestingIsOK DEF Calls
<1> HIDE DEF next
<1>11. CallOK(next)
  BY <1>3, <1>4, <1>9 DEF CallOK
<1>12. Seen(next)
  BY <1>9 DEF Seen
<1>13. UpToDate(next)
  BY <1>6, <1>7, <1>8, <1>9 DEF UpToDate
<1> QED
  BY <1>2, <1>9, <1>10, <1>11, <1>12, <1>13, CallChange

LEMMA LockKeeps ==
  ASSUME DisplayInv, NEW w \in Workers, LockAdvisory(w)
  PROVE  DisplayInv'
<1> DEFINE c == call[w]
           s == Min(c.want)
           next == [c EXCEPT !.want = c.want \ {s}, !.held = c.held \cup {s}]
<1>1. call \in [Workers -> Calls] /\ c \in Calls
  BY DEF DisplayInv, DisplayTypeOK
<1>2. CallOK(c) /\ UpToDate(c) /\ (revived \/ Seen(c))
  BY DEF DisplayInv
<1>3. c.want \in SUBSET Nat /\ c.want # {}
  BY <1>1, DisplayAssumption DEF Calls, LockAdvisory
<1>4. s \in c.want /\ s \in Servers
  BY <1>1, <1>3, LeastNumber DEF Calls
<1>5. \A x \in Workers : s \notin call[x].held
  BY DEF LockAdvisory
<1>6. call' = [call EXCEPT ![w] = next] /\ UNCHANGED rowVars
  BY <1>1 DEF LockAdvisory, Calls
<1>7. \A x \in Workers \ {w} : c.held \cap call[x].held = {}
  BY DEF DisplayInv, OneHolder
<1> HIDE DEF c, s
<1>8. /\ next.dep = c.dep /\ next.todo = c.todo /\ next.want = c.want \ {s}
      /\ next.held = c.held \cup {s} /\ next.looked = c.looked /\ next.mine = c.mine
      /\ next.occupied = c.occupied /\ next.answer = c.answer /\ next.overtaken = c.overtaken
  BY <1>1 DEF Calls
<1>9. next \in Calls
  BY <1>1, <1>4 DEF Calls
<1> HIDE DEF next
<1>10. CallOK(next)
  BY <1>2, <1>8 DEF CallOK
<1>11. UpToDate(next)
  BY <1>2, <1>8 DEF UpToDate
<1>12. revived \/ Seen(next)
  BY <1>2, <1>8 DEF Seen
<1>13. \A x \in Workers \ {w} : next.held \cap call[x].held = {}
  BY <1>5, <1>7, <1>8
<1> QED
  BY <1>6, <1>9, <1>10, <1>11, <1>12, <1>13, CallChange

\* A display is chosen among those free on a server whose lock is held.
LEMMA AssignKeeps ==
  ASSUME DisplayInv, NEW w \in Workers, NEW n \in Nodes, AssignDisplay(w, n)
  PROVE  DisplayInv'
<1> DEFINE c == call[w]
           s == ServerOf[n]
           taken == Occupied(w, s)
           chosen == Min(FreeDisplays(taken))
           given == IF nodo[n] = "PENDING" THEN chosen ELSE c.mine[n]
           next == [c EXCEPT !.todo = c.todo \ {n}, !.looked = c.looked \cup {s},
                             !.occupied = [c.occupied EXCEPT ![s] = taken \cup {chosen}],
                             !.answer = [c.answer EXCEPT ![n] = chosen],
                             !.mine = [c.mine EXCEPT ![n] = given]]
<1>1. call \in [Workers -> Calls] /\ c \in Calls
  BY DEF DisplayInv, DisplayTypeOK
<1>2. CallOK(c) /\ UpToDate(c) /\ (revived \/ Seen(c))
  BY DEF DisplayInv
<1>3. s \in Servers
  BY DisplayAssumption
<1>4. c.want = {} /\ n \in c.todo /\ FreeDisplays(taken) # {}
  BY DEF AssignDisplay, Walking, Current
<1>5. display \in [Nodes -> Displays \cup {Null}]
  BY DEF DisplayInv, DisplayTypeOK
<1>6. taken \in SUBSET Displays
  BY <1>1, <1>3, <1>5 DEF Occupied, OccupiedDisplays, Calls
<1>7. chosen \in Displays /\ chosen \notin taken
  <2>1. FreeDisplays(taken) \in SUBSET Nat
    BY DEF FreeDisplays, Displays
  <2>2. chosen \in FreeDisplays(taken)
    BY <1>4, <2>1, LeastNumber
  <2> HIDE DEF chosen
  <2> QED
    BY <2>2 DEF FreeDisplays
<1>8. chosen # Null
  <2> HIDE DEF chosen
  <2> QED
    BY <1>7 DEF Displays, Null
<1>9. s \in c.held
  BY <1>2, <1>4 DEF CallOK
<1>10. c.mine[n] = Null
  BY <1>2, <1>4 DEF CallOK
<1>11. \A m \in Nodes : c.mine[m] # Null /\ ServerOf[m] = s => c.mine[m] \in taken
  BY <1>2 DEF CallOK, Occupied
<1>12. revived \/ \A m \in Nodes :
         c.mine[m] = Null /\ nodo[m] # "DELETED" /\ display[m] # Null /\ server[m] = s =>
           display[m] \in taken
  BY <1>2 DEF Seen, Occupied, OccupiedDisplays
<1>13. call' = [call EXCEPT ![w] = next] /\ UNCHANGED rowVars
  BY <1>1 DEF AssignDisplay, Calls
<1>14. \A x \in Workers \ {w} : c.held \cap call[x].held = {}
  BY DEF DisplayInv, OneHolder
<1> HIDE DEF c, taken, chosen
<1>15. given \in Displays \cup {Null} /\ (given # Null => given = chosen)
       /\ (nodo[n] = "PENDING" => given = chosen) /\ (nodo[n] # "PENDING" => given = Null)
  BY <1>7, <1>10
<1> HIDE DEF s, given
<1>16. /\ next.dep = c.dep /\ next.todo = c.todo \ {n} /\ next.want = c.want
       /\ next.held = c.held /\ next.looked = c.looked \cup {s}
       /\ next.overtaken = c.overtaken
  BY <1>1 DEF Calls
<1>17. /\ next.mine = [c.mine EXCEPT ![n] = given]
       /\ next.occupied = [c.occupied EXCEPT ![s] = taken \cup {chosen}]
       /\ next.answer = [c.answer EXCEPT ![n] = chosen]
  BY <1>1 DEF Calls
<1>18. /\ c.mine \in [Nodes -> Displays \cup {Null}]
       /\ c.answer \in [Nodes -> Displays \cup {Null}]
       /\ c.occupied \in [Servers -> SUBSET Displays]
  BY <1>1 DEF Calls
<1>19. /\ next.mine \in [Nodes -> Displays \cup {Null}]
       /\ next.answer \in [Nodes -> Displays \cup {Null}]
       /\ next.occupied \in [Servers -> SUBSET Displays]
  BY <1>3, <1>6, <1>7, <1>15, <1>17, <1>18
<1>20. next \in Calls
  <2>1. next.todo \in SUBSET Nodes /\ next.looked \in SUBSET Servers
    BY <1>1, <1>3, <1>16 DEF Calls
  <2>2. next = [c EXCEPT !.todo = next.todo, !.looked = next.looked,
                         !.occupied = next.occupied, !.answer = next.answer,
                         !.mine = next.mine]
    BY <1>16, <1>17
  <2> HIDE DEF next
  <2> QED
    BY <1>1, <1>19, <2>1, <2>2 DEF Calls
<1> HIDE DEF next
<1>21. /\ next.mine[n] = given /\ next.answer[n] = chosen
       /\ next.occupied[s] = taken \cup {chosen}
       /\ \A m \in Nodes \ {n} : next.mine[m] = c.mine[m] /\ next.answer[m] = c.answer[m]
       /\ \A r \in Servers \ {s} : next.occupied[r] = c.occupied[r]
  BY <1>3, <1>17, <1>18
<1>22. CallOK(next)
  <2>1. next.looked \subseteq next.held
    BY <1>2, <1>9, <1>16 DEF CallOK
  <2>2. \A m \in next.todo : m \in NodesOf(next.dep) /\ ServerOf[m] \in next.want \cup next.held
    BY <1>2, <1>16 DEF CallOK
  <2>3. ASSUME NEW m \in Nodes, next.mine[m] # Null
        PROVE  /\ m \in NodesOf(next.dep) \ next.todo /\ ServerOf[m] \in next.looked
               /\ next.mine[m] \in next.occupied[ServerOf[m]]
    <3>1. CASE m = n
      BY <1>2, <1>4, <1>15, <1>16, <1>21, <2>3, <3>1 DEF CallOK, s
    <3>2. CASE m # n
      <4>1. /\ m \in NodesOf(c.dep) \ c.todo /\ ServerOf[m] \in c.looked
            /\ c.mine[m] \in c.occupied[ServerOf[m]]
        BY <1>2, <1>21, <2>3, <3>2 DEF CallOK
      <4>2. next.mine[m] \in next.occupied[ServerOf[m]]
        BY <1>11, <1>21, <2>3, <3>2, <4>1, DisplayAssumption
      <4> QED
        BY <1>16, <4>1, <4>2
    <3> QED
      BY <3>1, <3>2
  <2> QED
    BY <2>1, <2>2, <2>3 DEF CallOK
<1>23. UpToDate(next)
  <2>1. \A m \in Nodes : m \in next.todo \/ next.answer[m] # Null => nodo[m] # "none"
    BY <1>2, <1>4, <1>16, <1>21 DEF UpToDate
  <2>2. ASSUME ~next.overtaken, NEW m \in Nodes
        PROVE  /\ m \in next.todo \/ next.mine[m] # Null => display[m] = Null
               /\ m \in NodesOf(next.dep) /\ next.answer[m] # Null =>
                    \/ next.mine[m] = next.answer[m]
                    \/ /\ next.mine[m] = Null
                       /\ nodo[m] = "PENDING" => display[m] = next.answer[m]
    <3>1. CASE m = n
      BY <1>2, <1>4, <1>15, <1>16, <1>21, <2>2, <3>1 DEF UpToDate
    <3>2. CASE m # n
      BY <1>2, <1>16, <1>21, <2>2, <3>2 DEF UpToDate
    <3> QED
      BY <3>1, <3>2
  <2> QED
    BY <2>1, <2>2 DEF UpToDate
<1>24. revived \/ Seen(next)
  <2> SUFFICES ASSUME ~revived, NEW m \in Nodes, next.mine[m] = Null,
                      nodo[m] # "DELETED", display[m] # Null
               PROVE  /\ server[m] \in next.looked => display[m] \in next.occupied[server[m]]
                      /\ \A k \in Nodes : next.mine[k] # Null /\ server[m] = ServerOf[k] =>
                           display[m] # next.mine[k]
    BY DEF Seen
  <2>1. c.mine[m] = Null
    BY <1>10, <1>21
  <2>2. server[m] = s => display[m] \in taken
    BY <1>12, <2>1
  <2>3. server[m] \in next.looked => display[m] \in next.occupied[server[m]]
    <3>1. CASE server[m] = s
      BY <1>21, <2>2, <3>1
    <3>2. CASE server[m] # s /\ server[m] \in next.looked
      <4>1. server[m] \in c.looked /\ server[m] \in Servers
        BY <1>1, <1>16, <3>2 DEF Calls
      <4>2. display[m] \in c.occupied[server[m]]
        BY <1>2, <2>1, <4>1 DEF Seen
      <4> QED
        BY <1>21, <3>2, <4>1, <4>2
    <3> QED
      BY <3>1, <3>2
  <2>4. ASSUME NEW k \in Nodes, next.mine[k] # Null, server[m] = ServerOf[k]
        PROVE  display[m] # next.mine[k]
    <3>1. CASE k = n
      BY <1>7, <1>15, <1>21, <2>2, <2>4, <3>1 DEF s
    <3>2. CASE k # n
      BY <1>2, <1>21, <2>1, <2>4, <3>2 DEF Seen
    <3> QED
      BY <3>1, <3>2
  <2> QED
    BY <2>3, <2>4
<1>25. \A x \in Workers \ {w} : next.held \cap call[x].held = {}
  BY <1>14, <1>16
<1> QED
  BY <1>13, <1>20, <1>22, <1>23, <1>24, <1>25, CallChange

-----------------------------------------------------------------------------
\* Steps that change rows.

\* The registry never makes a node PENDING again, nor takes its row away.
LEMMA SetNodesKeeps ==
  ASSUME DisplayInv, NEW new \in [Nodes -> NodeStates], SetNodes(new),
         \A n \in Nodes : nodo[n] # "none" =>
           new[n] # "none" /\ (new[n] = "PENDING" => nodo[n] = "PENDING")
  PROVE  DisplayInv'
<1>1. display' = display /\ server' = server /\ call' = call /\ nodo' = new
  BY DEF SetNodes
<1>2. revived' = (revived \/ \E n \in Nodes : nodo[n] = "DELETED" /\ new[n] # "DELETED")
  BY DEF SetNodes
<1>3. revived' \in BOOLEAN
  BY <1>2
<1>4. DisplayTypeOK'
  BY <1>1, <1>3 DEF DisplayInv, DisplayTypeOK
<1>5. OneHolder'
  BY <1>1 DEF DisplayInv, OneHolder
<1>6. ASSUME NEW w \in Workers
      PROVE  (CallOK(call[w]) /\ UpToDate(call[w]) /\ (revived \/ Seen(call[w])))'
  <2> DEFINE c == call[w]
  <2>1. CallOK(c) /\ UpToDate(c) /\ (revived \/ Seen(c)) /\ call'[w] = c
    BY <1>1 DEF DisplayInv
  <2>2. CallOK(call[w])'
    BY <1>1, <2>1 DEF CallOK, NodesOf
  <2>3. UpToDate(call[w])'
    BY <1>1, <2>1 DEF UpToDate, NodesOf
  <2>4. CASE revived
    BY <1>2, <2>2, <2>3, <2>4
  <2>5. CASE ~revived /\ ~revived'
    <3>1. \A n \in Nodes : nodo'[n] # "DELETED" => nodo[n] # "DELETED"
      BY <1>1, <1>2, <2>5
    <3>2. Seen(call[w])'
      BY <1>1, <2>1, <2>5, <3>1 DEF Seen
    <3> QED
      BY <2>2, <2>3, <3>2
  <2>6. CASE revived'
    BY <2>2, <2>3, <2>6
  <2> QED
    BY <2>4, <2>5, <2>6
<1> QED
  BY <1>4, <1>5, <1>6 DEF DisplayInv

LEMMA RegistryKeeps ==
  ASSUME DisplayInv, NEW d \in Deployments, RegistryStep(d)
  PROVE  DisplayInv'
<1>1. nodo \in [Nodes -> NodeStates]
  BY DEF DisplayInv, DisplayTypeOK
<1>2. CASE CreateInventory(d)
  <2> DEFINE new == [n \in Nodes |-> IF n \in NodesOf(d) /\ nodo[n] = "none"
                                     THEN "PENDING" ELSE nodo[n]]
  <2>1. new \in [Nodes -> NodeStates]
    BY <1>1 DEF NodeStates
  <2>2. \A n \in Nodes : nodo[n] # "none" =>
          new[n] # "none" /\ (new[n] = "PENDING" => nodo[n] = "PENDING")
    OBVIOUS
  <2>3. SetNodes(new)
    BY <1>2 DEF CreateInventory
  <2> HIDE DEF new
  <2> QED
    BY <2>1, <2>2, <2>3, SetNodesKeeps
<1>3. ASSUME NEW round \in SUBSET NodesOf(d), RecordRoundFacts(round) PROVE DisplayInv'
  <2> DEFINE new == [n \in Nodes |-> IF n \in round THEN "LIVE" ELSE nodo[n]]
  <2>1. new \in [Nodes -> NodeStates]
    BY <1>1 DEF NodeStates
  <2>2. \A n \in Nodes : nodo[n] # "none" =>
          new[n] # "none" /\ (new[n] = "PENDING" => nodo[n] = "PENDING")
    OBVIOUS
  <2>3. SetNodes(new)
    BY <1>3 DEF RecordRoundFacts
  <2> HIDE DEF new
  <2> QED
    BY <2>1, <2>2, <2>3, SetNodesKeeps
<1>4. ASSUME NEW closed \in {"DELETED", "LIVE"}, FinishDeployment(d, closed) PROVE DisplayInv'
  <2> DEFINE new == [n \in Nodes |-> IF n \in NodesOf(d) /\ nodo[n] \notin {"none", "DELETED"}
                                     THEN closed ELSE nodo[n]]
  <2>1. new \in [Nodes -> NodeStates]
    BY <1>1 DEF NodeStates
  <2>2. \A n \in Nodes : nodo[n] # "none" =>
          new[n] # "none" /\ (new[n] = "PENDING" => nodo[n] = "PENDING")
    OBVIOUS
  <2>3. SetNodes(new)
    BY <1>4 DEF FinishDeployment
  <2> HIDE DEF new
  <2> QED
    BY <2>1, <2>2, <2>3, SetNodesKeeps
<1> QED
  BY <1>2, <1>3, <1>4 DEF RegistryStep

\* The calls after others changed displays of d: those of d are marked, and
\* otherwise as they were.
LEMMA Overtaken ==
  ASSUME NEW calls \in [Workers -> Calls], NEW d
  PROVE  /\ Overtake(calls, d) \in [Workers -> Calls]
         /\ \A x \in Workers :
              LET c == calls[x]
                  e == Overtake(calls, d)[x]
              IN
              /\ e.dep = c.dep /\ e.todo = c.todo /\ e.want = c.want /\ e.held = c.held
              /\ e.looked = c.looked /\ e.occupied = c.occupied
              /\ e.mine = c.mine /\ e.answer = c.answer
              /\ c.dep = d => e.overtaken
              /\ c.dep # d => e = c
<1>1. ASSUME NEW c \in Calls
      PROVE  LET e == [c EXCEPT !.overtaken = TRUE] IN
             /\ e \in Calls
             /\ e.dep = c.dep /\ e.todo = c.todo /\ e.want = c.want /\ e.held = c.held
             /\ e.looked = c.looked /\ e.occupied = c.occupied
             /\ e.mine = c.mine /\ e.answer = c.answer /\ e.overtaken
  BY DEF Calls
<1>2. ASSUME NEW x \in Workers
      PROVE  LET c == calls[x]
                 e == Overtake(calls, d)[x]
             IN
             /\ e \in Calls
             /\ e.dep = c.dep /\ e.todo = c.todo /\ e.want = c.want /\ e.held = c.held
             /\ e.looked = c.looked /\ e.occupied = c.occupied
             /\ e.mine = c.mine /\ e.answer = c.answer
             /\ c.dep = d => e.overtaken
             /\ c.dep # d => e = c
  <2>1. calls[x] \in Calls
    OBVIOUS
  <2>2. Overtake(calls, d)[x] = IF calls[x].dep = d THEN [calls[x] EXCEPT !.overtaken = TRUE]
                                ELSE calls[x]
    BY DEF Overtake
  <2> QED
    BY <1>1, <2>1, <2>2
<1>3. Overtake(calls, d) \in [Workers -> Calls]
  BY <1>2 DEF Overtake
<1> QED
  BY <1>2, <1>3

\* Displays that change on nodes of one deployment, of which every other call on it
\* is told, leave a call e (formerly c) in order: provided that no live node gets a
\* display on a server that c has locked.
LEMMA OthersKept ==
  ASSUME DisplayInv, NEW x \in Workers, NEW d, nodo' = nodo, revived' = revived,
         LET c == call[x]
             e == call'[x]
         IN
         /\ e.dep = c.dep /\ e.todo = c.todo /\ e.want = c.want /\ e.held = c.held
         /\ e.looked = c.looked /\ e.occupied = c.occupied
         /\ e.mine = c.mine /\ e.answer = c.answer
         /\ c.dep = d => e.overtaken
         /\ c.dep # d => e = c,
         \A n \in Nodes \ NodesOf(d) : display'[n] = display[n],
         \A n \in Nodes : display'[n] # Null =>
           \/ display'[n] = display[n] /\ server'[n] = server[n]
           \/ server'[n] \notin call[x].held
  PROVE  (CallOK(call[x]) /\ UpToDate(call[x]) /\ (revived \/ Seen(call[x])))'
<1> DEFINE c == call[x]
           e == call'[x]
<1>1. /\ e.dep = c.dep /\ e.todo = c.todo /\ e.want = c.want /\ e.held = c.held
      /\ e.looked = c.looked /\ e.occupied = c.occupied
      /\ e.mine = c.mine /\ e.answer = c.answer
      /\ c.dep = d => e.overtaken
      /\ c.dep # d => e = c
  OBVIOUS
<1>2. CallOK(c) /\ UpToDate(c) /\ (revived \/ Seen(c))
  BY DEF DisplayInv
<1> HIDE DEF c, e
<1>3. CallOK(e)
  BY <1>1, <1>2 DEF CallOK
<1>4. \A n \in Nodes : n \in e.todo \/ e.answer[n] # Null => nodo'[n] # "none"
  BY <1>1, <1>2 DEF UpToDate
<1>5. ~e.overtaken => \A n \in Nodes :
       /\ n \in e.todo \/ e.mine[n] # Null => display'[n] = Null
       /\ n \in NodesOf(e.dep) /\ e.answer[n] # Null =>
            \/ e.mine[n] = e.answer[n]
            \/ e.mine[n] = Null /\ (nodo'[n] = "PENDING" => display'[n] = e.answer[n])
  <2> SUFFICES ASSUME ~e.overtaken, NEW n \in Nodes
               PROVE  /\ n \in e.todo \/ e.mine[n] # Null => display'[n] = Null
                      /\ n \in NodesOf(e.dep) /\ e.answer[n] # Null =>
                           \/ e.mine[n] = e.answer[n]
                           \/ /\ e.mine[n] = Null
                              /\ nodo'[n] = "PENDING" => display'[n] = e.answer[n]
    OBVIOUS
  <2>1. c.dep # d /\ e = c
    BY <1>1
  <2>2. n \in NodesOf(c.dep) => display'[n] = display[n]
    BY <2>1 DEF NodesOf
  <2>3. n \in c.todo \/ c.mine[n] # Null => n \in NodesOf(c.dep)
    BY <1>2 DEF CallOK
  <2> QED
    BY <1>2, <2>1, <2>2, <2>3 DEF UpToDate
<1>6. revived' \/ \A m \in Nodes :
        e.mine[m] = Null /\ nodo'[m] # "DELETED" /\ display'[m] # Null =>
          /\ server'[m] \in e.looked => display'[m] \in e.occupied[server'[m]]
          /\ \A n \in Nodes : e.mine[n] # Null /\ server'[m] = ServerOf[n] =>
               display'[m] # e.mine[n]
  <2> SUFFICES ASSUME ~revived, NEW m \in Nodes, e.mine[m] = Null,
                      nodo'[m] # "DELETED", display'[m] # Null
               PROVE  /\ server'[m] \in e.looked => display'[m] \in e.occupied[server'[m]]
                      /\ \A n \in Nodes : e.mine[n] # Null /\ server'[m] = ServerOf[n] =>
                           display'[m] # e.mine[n]
    OBVIOUS
  <2>1. CASE display'[m] = display[m] /\ server'[m] = server[m]
    BY <1>1, <1>2, <2>1 DEF Seen
  <2>2. CASE server'[m] \notin call[x].held
    <3>1. server'[m] \notin e.looked
      BY <1>1, <1>2, <2>2 DEF CallOK, c
    <3>2. \A n \in Nodes : e.mine[n] # Null => ServerOf[n] \in e.looked
      BY <1>3 DEF CallOK
    <3> QED
      BY <3>1, <3>2
  <2> QED
    BY <2>1, <2>2
<1>7. CallOK(call[x])'
  BY <1>3 DEF CallOK, NodesOf, e
<1>8. UpToDate(call[x])'
  BY <1>4, <1>5 DEF UpToDate, NodesOf, e
<1>9. (revived \/ Seen(call[x]))'
  BY <1>6 DEF Seen, e
<1> QED
  BY <1>7, <1>8, <1>9

LEMMA RollbackKeeps ==
  ASSUME DisplayInv, NEW d \in Deployments, RollbackCompute(d)
  PROVE  DisplayInv'
<1> DEFINE pending == {n \in NodesOf(d) : nodo[n] = "PENDING"}
<1>1. nodo' = nodo /\ revived' = revived /\ call' = Overtake(call, d)
  BY DEF RollbackCompute
<1>2. call \in [Workers -> Calls]
  BY DEF DisplayInv, DisplayTypeOK
<1>3. /\ display' = [n \in Nodes |-> IF n \in pending THEN Null ELSE display[n]]
      /\ server' = [n \in Nodes |-> IF n \in pending THEN Null ELSE server[n]]
  BY DEF RollbackCompute
<1>4. \A n \in pending : n \in NodesOf(d)
  OBVIOUS
<1> HIDE DEF pending
<1>5. DisplayTypeOK'
  <2>1. /\ display' \in [Nodes -> Displays \cup {Null}]
        /\ server' \in [Nodes -> Servers \cup {Null}]
        /\ \A n \in Nodes : display'[n] = Null <=> server'[n] = Null
    BY <1>3 DEF DisplayInv, DisplayTypeOK
  <2>2. call' \in [Workers -> Calls]
    BY <1>1, <1>2, Overtaken
  <2> QED
    BY <1>1, <2>1, <2>2 DEF DisplayInv, DisplayTypeOK
<1>6. \A x \in Workers : call'[x].held = call[x].held
  BY <1>1, <1>2, Overtaken
<1>7. OneHolder'
  BY <1>6 DEF DisplayInv, OneHolder
<1>8. ASSUME NEW x \in Workers
      PROVE  (CallOK(call[x]) /\ UpToDate(call[x]) /\ (revived \/ Seen(call[x])))'
  <2>1. LET c == call[x]
            e == call'[x]
        IN
        /\ e.dep = c.dep /\ e.todo = c.todo /\ e.want = c.want /\ e.held = c.held
        /\ e.looked = c.looked /\ e.occupied = c.occupied
        /\ e.mine = c.mine /\ e.answer = c.answer
        /\ c.dep = d => e.overtaken
        /\ c.dep # d => e = c
    BY <1>1, <1>2, Overtaken
  <2>2. \A n \in Nodes \ NodesOf(d) : display'[n] = display[n]
    BY <1>3, <1>4
  <2>3. \A n \in Nodes : display'[n] # Null => display'[n] = display[n] /\ server'[n] = server[n]
    BY <1>3
  <2> QED
    BY <1>1, <2>1, <2>2, <2>3, OthersKept
<1> QED
  BY <1>5, <1>7, <1>8 DEF DisplayInv

\* A commit gives displays on servers it holds, which no other call does.
LEMMA CommitKeeps ==
  ASSUME DisplayInv, NEW w \in Workers, CommitAllocate(w)
  PROVE  DisplayInv'
<1> DEFINE c == call[w]
           d == c.dep
           between == [call EXCEPT ![w] = Resting]
<1>1. call \in [Workers -> Calls] /\ c \in Calls /\ CallOK(c)
  BY DEF DisplayInv, DisplayTypeOK
<1>2. d \in Deployments
  BY <1>1 DEF CommitAllocate, Walking, Calls
<1>3. Resting \in Calls /\ Resting.held = {} /\ Resting.dep = NoDeployment
  BY RestingIsOK DEF Resting
<1>4. between \in [Workers -> Calls] /\ call' = Overtake(between, d)
  BY <1>1, <1>3 DEF CommitAllocate
<1>5. between[w] = Resting /\ \A x \in Workers \ {w} : between[x] = call[x]
  BY <1>1
<1>6. nodo' = nodo /\ revived' = revived
  BY DEF CommitAllocate
<1>7. \A n \in Given(w) : n \in Nodes /\ n \in NodesOf(d) /\ ServerOf[n] \in c.held
  BY <1>1 DEF Given, CallOK
<1>8. /\ display' = [n \in Nodes |-> IF n \in Given(w) THEN c.mine[n] ELSE display[n]]
      /\ server' = [n \in Nodes |-> IF n \in Given(w) THEN ServerOf[n] ELSE server[n]]
  BY DEF CommitAllocate
<1> HIDE DEF between
<1>9. call'[w] = Resting
  BY <1>2, <1>3, <1>4, <1>5, Overtaken, DisplayAssumption
<1>10. ASSUME NEW x \in Workers \ {w}
       PROVE  LET b == call[x]
                  e == call'[x]
              IN
              /\ e.dep = b.dep /\ e.todo = b.todo /\ e.want = b.want /\ e.held = b.held
              /\ e.looked = b.looked /\ e.occupied = b.occupied
              /\ e.mine = b.mine /\ e.answer = b.answer
              /\ b.dep = d => e.overtaken
              /\ b.dep # d => e = b
  BY <1>4, <1>5, Overtaken
<1>11. DisplayTypeOK'
  <2>1. c.mine \in [Nodes -> Displays \cup {Null}]
    BY <1>1 DEF Calls
  <2>2. \A n \in Given(w) : c.mine[n] # Null
    BY DEF Given
  <2>3. /\ display' \in [Nodes -> Displays \cup {Null}]
        /\ server' \in [Nodes -> Servers \cup {Null}]
        /\ \A n \in Nodes : display'[n] = Null <=> server'[n] = Null
    BY <1>8, <2>1, <2>2, DisplayAssumption DEF DisplayInv, DisplayTypeOK, Null
  <2>4. call' \in [Workers -> Calls]
    BY <1>4, Overtaken
  <2> QED
    BY <1>6, <2>3, <2>4 DEF DisplayInv, DisplayTypeOK
<1>12. OneHolder'
  BY <1>3, <1>9, <1>10 DEF DisplayInv, OneHolder
<1>13. ASSUME NEW x \in Workers
       PROVE  (CallOK(call[x]) /\ UpToDate(call[x]) /\ (revived \/ Seen(call[x])))'
  <2>1. CASE x = w
    <3>1. /\ Resting.todo = {} /\ Resting.looked = {}
          /\ \A n \in Nodes : Resting.mine[n] = Null /\ Resting.answer[n] = Null
      BY DEF Resting, Nulls
    <3>2. CallOK(call[x])'
      BY <1>9, <2>1, <3>1 DEF CallOK
    <3>3. UpToDate(call[x])'
      BY <1>9, <2>1, <3>1 DEF UpToDate
    <3>4. Seen(call[x])'
      BY <1>9, <2>1, <3>1 DEF Seen
    <3> QED
      BY <3>2, <3>3, <3>4
  <2>2. CASE x # w
    <3>1. \A n \in Nodes \ NodesOf(d) : display'[n] = display[n]
      BY <1>7, <1>8
    <3>2. c.held \cap call[x].held = {}
      BY <2>2 DEF DisplayInv, OneHolder
    <3>3. \A n \in Nodes : display'[n] # Null =>
            \/ display'[n] = display[n] /\ server'[n] = server[n]
            \/ server'[n] \notin call[x].held
      BY <1>7, <1>8, <3>2
    <3> HIDE DEF c, d
    <3> QED
      BY <1>6, <1>10, <2>2, <3>1, <3>3, OthersKept
  <2> QED
    BY <2>1, <2>2
<1> QED
  BY <1>11, <1>12, <1>13 DEF DisplayInv

-----------------------------------------------------------------------------
LEMMA DisplayInitOK == DisplayInit => DisplayInv
<1> SUFFICES ASSUME DisplayInit PROVE DisplayInv
  OBVIOUS
<1>1. \A w \in Workers : call[w] = Resting
  BY DEF DisplayInit
<1>2. Resting \in Calls /\ Resting.held = {} /\ CallOK(Resting)
  BY RestingIsOK
<1>3. DisplayTypeOK
  BY <1>2 DEF DisplayInit, DisplayTypeOK, Nulls, Null, NodeStates
<1>4. OneHolder
  BY <1>1, <1>2 DEF OneHolder
<1>5. /\ Resting.todo = {} /\ Resting.looked = {}
      /\ \A n \in Nodes : Resting.mine[n] = Null /\ Resting.answer[n] = Null
  BY DEF Resting, Nulls
<1>6. UpToDate(Resting) /\ Seen(Resting)
  BY <1>5 DEF UpToDate, Seen
<1> QED
  BY <1>1, <1>2, <1>3, <1>4, <1>6 DEF DisplayInv

LEMMA DisplayStepOK == DisplayInv /\ [DisplayNext]_displayVars => DisplayInv'
<1> SUFFICES ASSUME DisplayInv, [DisplayNext]_displayVars PROVE DisplayInv'
  OBVIOUS
<1>1. CASE UNCHANGED displayVars
  <2>1. /\ nodo' = nodo /\ display' = display /\ server' = server
        /\ call' = call /\ revived' = revived
    BY <1>1 DEF displayVars
  <2>2. DisplayTypeOK' /\ OneHolder'
    BY <2>1 DEF DisplayInv, DisplayTypeOK, OneHolder
  <2>3. \A w \in Workers : (CallOK(call[w]) /\ UpToDate(call[w]) /\ (revived \/ Seen(call[w])))'
    BY <2>1 DEF DisplayInv, CallOK, UpToDate, Seen, NodesOf
  <2> QED
    BY <2>2, <2>3 DEF DisplayInv
<1>2. ASSUME NEW d \in Deployments, RegistryStep(d) \/ RollbackCompute(d) PROVE DisplayInv'
  BY <1>2, RegistryKeeps, RollbackKeeps
<1>3. ASSUME NEW w \in Workers, WorkerStep(w) PROVE DisplayInv'
  BY <1>3, BeginKeeps, LockKeeps, AssignKeeps, CommitKeeps, AbortKeeps DEF WorkerStep
<1> QED
  BY <1>1, <1>2, <1>3 DEF DisplayNext

\* The inductive invariant holds in every behaviour of the service.
THEOREM DisplayInvariant == DisplaySpec => []DisplayInv
<1> QED
  BY DisplayInitOK, DisplayStepOK, PTL DEF DisplaySpec

\* Rows and calls stay within their types: no node has a display without a server.
THEOREM DisplayTypes == DisplaySpec => []DisplayTypeOK
<1>1. DisplayInv => DisplayTypeOK
  BY DEF DisplayInv
<1> QED
  BY <1>1, DisplayInvariant, PTL

\* For any number of workers and servers the unique index never refuses what an
\* allocation chose under its advisory locks, unless a deleted node was revived.
THEOREM LocksSuffice == DisplaySpec => []AdvisoryLocksSuffice
<1>1. DisplayInv => AdvisoryLocksSuffice
  <2> SUFFICES ASSUME DisplayInv, NEW w \in Workers, Collides(w), ~revived PROVE FALSE
    BY DEF AdvisoryLocksSuffice, DisplayInv, DisplayTypeOK
  <2>1. Seen(call[w])
    BY DEF DisplayInv
  <2>2. PICK n \in Given(w), m \in Nodes \ Given(w) :
          nodo[m] # "DELETED" /\ server[m] = ServerOf[n] /\ display[m] = call[w].mine[n]
    BY DEF Collides
  <2>3. call[w].mine[n] # Null /\ call[w].mine[m] = Null /\ n \in Nodes
    BY <2>2 DEF Given
  <2> QED
    BY <2>1, <2>2, <2>3 DEF Seen
<1> QED
  BY <1>1, DisplayInvariant, PTL

\* A display that a node has is replaced, and an answer is not what is stored, only
\* where the allocation was overtaken between its read and its commit.
THEOREM DisplaysKept == DisplaySpec => DisplaysAreKept
<1>1. DisplayInv /\ [DisplayNext]_displayVars => [DisplayKept]_displayVars
  <2> SUFFICES ASSUME DisplayInv, DisplayNext PROVE DisplayKept
    OBVIOUS
  <2>1. ASSUME NEW w \in Workers, CommitAllocate(w)
        PROVE  /\ UpToDate(call[w]) /\ CallOK(call[w])
               /\ \A n \in Nodes : call[w].mine[n] # Null => display'[n] = call[w].mine[n]
               /\ \A n \in Nodes : call[w].mine[n] = Null => display'[n] = display[n]
    BY <2>1 DEF DisplayInv, CommitAllocate, Given
  <2>2. ASSUME NEW n \in Nodes, display[n] \notin {Null, display'[n]}, display'[n] # Null
        PROVE  \E w \in Workers : call[w].overtaken /\ call[w].mine[n] = display'[n]
    <3>1. ASSUME NEW w \in Workers, CommitAllocate(w)
          PROVE  call[w].overtaken /\ call[w].mine[n] = display'[n]
      BY <2>1, <2>2, <3>1 DEF UpToDate
    <3>2. ASSUME NEW d \in Deployments, RegistryStep(d) PROVE FALSE
      BY <2>2, <3>2 DEF RegistryStep, CreateInventory, RecordRoundFacts,
                        FinishDeployment, SetNodes
    <3>3. ASSUME NEW d \in Deployments, RollbackCompute(d) PROVE FALSE
      BY <2>2, <3>3 DEF RollbackCompute
    <3>4. ASSUME NEW w \in Workers, WorkerStep(w), ~CommitAllocate(w) PROVE FALSE
      <4>1. display' = display
        BY <3>4 DEF WorkerStep, BeginAllocate, LockAdvisory, AssignDisplay, AbortAllocate,
                    rowVars
      <4> QED
        BY <2>2, <4>1
    <3> QED
      BY <3>1, <3>2, <3>3, <3>4 DEF DisplayNext
  <2>3. ASSUME NEW w \in Workers, CommitAllocate(w), ~call[w].overtaken,
               NEW n \in NodesOf(call[w].dep), call[w].answer[n] # Null, nodo[n] = "PENDING"
        PROVE  display'[n] = call[w].answer[n]
    <3>1. n \in Nodes
      BY DEF NodesOf
    <3> QED
      BY <2>1, <2>3, <3>1 DEF UpToDate
  <2> QED
    BY <2>2, <2>3 DEF DisplayKept
<1> QED
  BY <1>1, DisplayInvariant, PTL DEF DisplaySpec, DisplaysAreKept

-----------------------------------------------------------------------------
\* ORDER BY id of lock_servers: what a worker still has to lock comes after all it
\* holds, and a worker at rest holds nothing.
LockOrder ==
  \A w \in Workers :
    /\ \A s \in call[w].held, t \in call[w].want : s < t
    /\ call[w].dep = NoDeployment => call[w].held = {} /\ call[w].want = {}

LEMMA LockOrderKept ==
  ASSUME DisplayInv, LockOrder, [DisplayNext]_displayVars
  PROVE  LockOrder'
<1>1. call \in [Workers -> Calls] /\ \A w \in Workers : call[w] \in Calls
  BY DEF DisplayInv, DisplayTypeOK
<1>2. CASE UNCHANGED call
  BY <1>2 DEF LockOrder
<1>3. ASSUME \A w \in Workers : /\ call'[w].want = call[w].want /\ call'[w].held = call[w].held
                                /\ call'[w].dep = call[w].dep
      PROVE  LockOrder'
  BY <1>3 DEF LockOrder
<1>4. ASSUME NEW w \in Workers, NEW d \in Deployments, BeginAllocate(w, d)
      PROVE  LockOrder'
<2> DEFINE pending == {n \in NodesOf(d) : nodo[n] = "PENDING"}
           bare == {n \in pending : display[n] = Null}
           next == [Resting EXCEPT
                      !.dep = d, !.todo = bare, !.want = {ServerOf[n] : n \in bare},
                      !.answer = [n \in Nodes |-> IF n \in pending THEN display[n] ELSE Null]]
<2>1. call' = [call EXCEPT ![w] = next]
  BY <1>4 DEF BeginAllocate
<2>2. next.held = {} /\ next.dep = d
  BY DEF Resting
<2> HIDE DEF next
<2>3. d # NoDeployment
  BY DisplayAssumption
<2> QED
  BY <1>1, <2>1, <2>2, <2>3 DEF LockOrder
<1>5. ASSUME NEW w \in Workers, LockAdvisory(w)
      PROVE  LockOrder'
<2> DEFINE s == Min(call[w].want)
<2>1. call[w].want \in SUBSET Nat /\ call[w].want # {} /\ call[w].held \in SUBSET Nat
  BY <1>1, <1>5, DisplayAssumption DEF LockAdvisory, Calls
<2>2. s \in call[w].want /\ \A t \in call[w].want : s <= t
  BY <2>1, LeastNumber
<2>3. call' = [call EXCEPT ![w].want = @ \ {s}, ![w].held = @ \cup {s}]
  BY <1>5 DEF LockAdvisory
<2> HIDE DEF s
<2>4. /\ call'[w].want = call[w].want \ {s} /\ call'[w].held = call[w].held \cup {s}
      /\ call'[w].dep = call[w].dep /\ \A x \in Workers \ {w} : call'[x] = call[x]
  BY <1>1, <2>3 DEF Calls
<2>5. ASSUME NEW u \in call'[w].held, NEW t \in call'[w].want
      PROVE  u < t
<3>1. t \in call[w].want /\ t # s /\ s <= t /\ s \in Nat /\ t \in Nat
  BY <2>1, <2>2, <2>4, <2>5
<3>2. CASE u = s
  BY <3>1, <3>2
<3>3. CASE u \in call[w].held
  BY <3>1, <3>3 DEF LockOrder
<3> QED
  BY <2>4, <2>5, <3>2, <3>3
<2>6. call[w].dep # NoDeployment
  BY <2>2 DEF LockOrder
<2> QED
  BY <2>4, <2>5, <2>6 DEF LockOrder
<1>6. ASSUME NEW w \in Workers, NEW n \in Nodes, AssignDisplay(w, n)
      PROVE  LockOrder'
<2> DEFINE c == call[w]
           v == ServerOf[n]
           chosen == Min(FreeDisplays(Occupied(w, v)))
           given == IF nodo[n] = "PENDING" THEN chosen ELSE c.mine[n]
           next == [c EXCEPT !.todo = c.todo \ {n}, !.looked = c.looked \cup {v},
                             !.occupied = [c.occupied EXCEPT ![v] = Occupied(w, v) \cup {chosen}],
                             !.answer = [c.answer EXCEPT ![n] = chosen],
                             !.mine = [c.mine EXCEPT ![n] = given]]
<2>0. call \in [Workers -> Calls] /\ c \in Calls
  BY <1>1
<2>1. call' = [call EXCEPT ![w] = next]
  BY <1>6, <2>0 DEF AssignDisplay, Calls
<2>2. next.want = c.want /\ next.held = c.held /\ next.dep = c.dep
  BY <1>1 DEF Calls
<2> HIDE DEF next
<2> QED
  BY <1>1, <1>3, <2>1, <2>2
<1>7. ASSUME NEW w \in Workers, AbortAllocate(w)
      PROVE  LockOrder'
  BY <1>1, <1>7 DEF AbortAllocate, Resting, LockOrder
<1>8. ASSUME NEW calls \in [Workers -> Calls], NEW d, call' = Overtake(calls, d),
             \A w \in Workers : calls[w] \in {call[w], Resting}
      PROVE  LockOrder'
<2>1. ASSUME NEW w \in Workers
      PROVE  /\ call'[w].want = calls[w].want /\ call'[w].held = calls[w].held
             /\ call'[w].dep = calls[w].dep
  BY <1>8, Overtaken
<2> QED
  BY <1>8, <2>1 DEF LockOrder, Resting
<1>9. ASSUME NEW d \in Deployments, RegistryStep(d) \/ RollbackCompute(d)
      PROVE  LockOrder'
  BY <1>1, <1>2, <1>8, <1>9
     DEF RegistryStep, RollbackCompute, CreateInventory, RecordRoundFacts, FinishDeployment, SetNodes
<1>10. ASSUME NEW w \in Workers, CommitAllocate(w)
       PROVE  LockOrder'
<2>1. [call EXCEPT ![w] = Resting] \in [Workers -> Calls]
  BY <1>1, RestingIsOK
<2>2. \A x \in Workers : [call EXCEPT ![w] = Resting][x] \in {call[x], Resting}
  BY <1>1
<2> QED
  BY <1>8, <1>10, <2>1, <2>2 DEF CommitAllocate
<1>11. CASE UNCHANGED displayVars
  BY <1>2, <1>11 DEF displayVars
<1> QED
  BY <1>4, <1>5, <1>6, <1>7, <1>9, <1>10, <1>11 DEF DisplayNext, WorkerStep

\* Allocations that wait for each other's servers leave one that can go on: the one
\* whose next server has the greatest number waits for nobody who waits.
THEOREM SomeAllocatorProceeds == DisplaySpec => []AllocatorsProceed
<1>1. DisplayInit => LockOrder
  BY DEF DisplayInit, LockOrder, Resting
<1>2. DisplayInv /\ LockOrder => AllocatorsProceed
<2> SUFFICES ASSUME DisplayInv, LockOrder, ~AllocatorsProceed
             PROVE  FALSE
  OBVIOUS
<2> DEFINE waiting == {w \in Workers : call[w].dep # NoDeployment}
           awaited == {Min(call[w].want) : w \in waiting}
<2>1. ASSUME NEW w \in waiting
      PROVE  /\ Min(call[w].want) \in Servers
             /\ \E x \in waiting : Min(call[w].want) < Min(call[x].want)
<3>1. PICK x \in Workers \ {w} : call[w].want # {} /\ Min(call[w].want) \in call[x].held
  BY <2>1 DEF AllocatorsProceed, AllocationBlocked
<3>2. x \in waiting
  BY <3>1 DEF LockOrder
<3>3. call[x].want # {}
  BY <3>2 DEF AllocatorsProceed, AllocationBlocked
<3>4. /\ call[w].want \in SUBSET Servers /\ call[x].want \in SUBSET Servers
      /\ Servers \in SUBSET Nat
  BY DisplayAssumption DEF DisplayInv, DisplayTypeOK, Calls
<3>5. Min(call[w].want) \in call[w].want /\ Min(call[x].want) \in call[x].want
  BY <3>1, <3>3, <3>4, LeastNumber
<3>6. Min(call[w].want) < Min(call[x].want)
  BY <3>1, <3>5 DEF LockOrder
<3> QED
  BY <3>2, <3>4, <3>5, <3>6
<2>2. awaited # {} /\ awaited \in SUBSET Servers
  BY <2>1 DEF AllocatorsProceed
<2> HIDE DEF awaited
<2>3. awaited \in SUBSET Nat /\ IsFiniteSet(awaited)
  BY <2>2, FS_Subset, DisplayAssumption
<2>4. PICK m \in awaited : \A k \in awaited : k <= m
  BY <2>2, <2>3, GreatestOfFinite
<2>5. PICK w \in waiting : m = Min(call[w].want)
  BY <2>4 DEF awaited
<2>6. PICK x \in waiting : Min(call[w].want) < Min(call[x].want)
  BY <2>1
<2>7. Min(call[x].want) \in awaited
  BY DEF awaited
<2>8. m \in Nat /\ Min(call[x].want) \in Nat
  BY <2>3, <2>4, <2>7
<2> QED
  BY <2>4, <2>5, <2>6, <2>7, <2>8
<1> QED
  BY <1>1, <1>2, LockOrderKept, DisplayInvariant, PTL DEF DisplaySpec
=============================================================================
