-------------------------- MODULE TtSigchldProofs --------------------------
(***************************************************************************)
(* No exit is lost in failed_procs, whatever its size, as long as fewer    *)
(* children than it has slots are alive or unseen.                         *)
(***************************************************************************)
EXTENDS TtSigchld, FiniteSetTheorems, TLAPS

(* The ring is never full: each child alive or exited has a slot of its own *)
(* to come.                                                                 *)
RoomInRing == Cardinality(Unreaped) + Cardinality(Filled) <= MaxUnseen

(* The main thread is past an entry only if there is one; a launch has a    *)
(* process.                                                                 *)
ConsumedIsFilled == pc = "consumed" => fout # fin
LaunchHasKid == \A t \in Ptypes : launching[t] => start_pid[t] \in Kids /\ kid[start_pid[t]] # "none"

SigchldInv == TypeOK /\ RoomInRing /\ ConsumedIsFilled /\ LaunchHasKid /\ NoExitLost

----------------------------------------------------------------------------
(* Both counted sets are finite.                                            *)
LEMMA FiniteParts ==
    ASSUME TypeOK
    PROVE  /\ IsFiniteSet(Slots) /\ Cardinality(Slots) = MAXPIDS
           /\ IsFiniteSet(Filled) /\ Cardinality(Filled) \in Nat
           /\ IsFiniteSet(Unreaped) /\ Cardinality(Unreaped) \in Nat
<1>1. MAXPIDS \in Nat \ {0}
  BY ConstantsAssumption
<1>2. IsFiniteSet(Slots) /\ Cardinality(Slots) = MAXPIDS
  <2>1. 0 \in Int /\ MAXPIDS - 1 \in Int /\ 0 <= MAXPIDS - 1 + 1
    BY <1>1
  <2>2. IsFiniteSet(0 .. MAXPIDS - 1)
    BY <2>1, FS_Interval
  <2>3. Cardinality(0 .. MAXPIDS - 1) = IF 0 > MAXPIDS - 1 THEN 0 ELSE MAXPIDS - 1 - 0 + 1
    BY <2>1, FS_Interval
  <2> QED
    BY <1>1, <2>2, <2>3 DEF Slots
<1>3. Filled \subseteq Slots
  BY DEF Filled
<1>4. IsFiniteSet(Filled)
  BY <1>2, <1>3, FS_Subset
<1>5. Unreaped \subseteq Kids
  BY DEF Unreaped
<1>6. IsFiniteSet(Unreaped)
  BY <1>5, ConstantsAssumption, FS_Subset
<1> QED
  BY <1>2, <1>4, <1>6, FS_CardinalityType

(* Indices move within the ring.                                            *)
LEMMA FollowingType ==
    ASSUME NEW i \in Slots
    PROVE  Following(i) \in Slots
BY ConstantsAssumption DEF Slots, Following

(* While there is a child to reap, the slot after the next one is free.     *)
LEMMA RoomForOne ==
    ASSUME TypeOK, RoomInRing, NEW k \in Unreaped
    PROVE  Following(fin) # fout
<1> SUFFICES ASSUME Following(fin) = fout
             PROVE  FALSE
  OBVIOUS
<1>1. fin \in Slots /\ fout \in Slots
  BY DEF TypeOK
<1>2. Filled = Slots \ {fin}
  BY <1>1, ConstantsAssumption DEF Filled, Slots, Following
<1>3. Cardinality(Filled) = MAXPIDS - 1
  BY <1>1, <1>2, FiniteParts, FS_RemoveElement
<1>4. Cardinality(Unreaped) # 0
  BY FiniteParts, FS_EmptySet
<1> QED
  BY <1>3, <1>4, FiniteParts, ConstantsAssumption DEF RoomInRing

----------------------------------------------------------------------------
(* Initially no child exists.                                               *)
LEMMA InitSigchld == Init => SigchldInv
<1> SUFFICES ASSUME Init
             PROVE  SigchldInv
  OBVIOUS
<1>1. TypeOK
  <2>1. 0 \in Slots
    BY ConstantsAssumption DEF Slots
  <2> QED
    BY <2>1 DEF Init, TypeOK
<1>2. Unreaped = {} /\ Filled = {}
  BY ConstantsAssumption DEF Init, Unreaped, Filled, Slots
<1>3. RoomInRing
  BY <1>2, FS_EmptySet, ConstantsAssumption DEF RoomInRing
<1> QED
  BY <1>1, <1>3 DEF Init, SigchldInv, ConsumedIsFilled, LaunchHasKid, NoExitLost, Deceased

(* Every step keeps to the types.                                           *)
LEMMA TypeStep ==
    ASSUME TypeOK, [Next]_vars
    PROVE  TypeOK'
<1> USE DEF TypeOK
<1>1. ASSUME NEW k \in Kids, Exit(k) PROVE TypeOK'
  BY <1>1 DEF Exit, ring, ptypes
<1>2. CASE Sigchld
  BY ZenonT(40), <1>2, FollowingType DEF Sigchld, ptypes
<1>3. CASE ClientCalls
  BY <1>3 DEF ClientCalls, children, ring, ptypes
<1>4. CASE Restart
  BY <1>4 DEF Restart, children, ring, ptypes
<1>5. CASE RingEmpty
  BY <1>5 DEF RingEmpty, children, ring, ptypes
<1>6. CASE NotifyStartFailure
  BY <1>6 DEF NotifyStartFailure, children, ring
<1>7. CASE Consumed
  BY <1>7, FollowingType DEF Consumed, children, ptypes
<1>8. CASE MainLoop
  BY <1>8 DEF MainLoop, children, ring, ptypes
<1>9. CASE Poll
  BY <1>9 DEF Poll, children, ring, ptypes
<1>10. CASE Serve
  BY ZenonT(40), <1>10 DEF Serve, ring, ptypes
<1>11. CASE Served
  BY <1>11 DEF Served, children, ring, ptypes
<1>12. CASE UNCHANGED vars
  BY <1>12 DEF vars
<1> QED
  BY <1>1, <1>2, <1>3, <1>4, <1>5, <1>6, <1>7, <1>8, <1>9, <1>10, <1>11, <1>12 DEF Next, Main

(* Every step leaves room: the handler takes a slot for the child it reaps, *)
(* and a launch asks for one.                                               *)
LEMMA RoomStep ==
    ASSUME TypeOK, RoomInRing, ConsumedIsFilled, [Next]_vars
    PROVE  RoomInRing'
<1>1. ASSUME UNCHANGED <<kid, fin, fout>> PROVE RoomInRing'
  BY <1>1 DEF RoomInRing, Unreaped, Filled
<1>2. ASSUME NEW k \in Kids, Exit(k) PROVE RoomInRing'
  <2>1. Unreaped' = Unreaped
    BY <1>2 DEF Exit, Unreaped, TypeOK
  <2>2. Filled' = Filled
    BY <1>2 DEF Exit, Filled, ring
  <2> QED
    BY <2>1, <2>2 DEF RoomInRing
<1>3. CASE Sigchld
  <2>1. PICK k \in Kids : kid[k] = "zombie" /\ kid' = [kid EXCEPT ![k] = "reaped"]
    BY <1>3 DEF Sigchld
  <2>2. k \in Unreaped /\ Unreaped' = Unreaped \ {k}
    BY <2>1 DEF Unreaped, TypeOK
  <2>3. Following(fin) # fout
    BY <2>2, RoomForOne
  <2>4. fin \in Slots /\ fout \in Slots /\ fin' = Following(fin) /\ fout' = fout
    BY <1>3 DEF Sigchld, TypeOK
  <2>5. fin \notin Filled /\ Filled' = Filled \cup {fin}
    BY <2>3, <2>4, ConstantsAssumption DEF Filled, Slots, Following
  <2>6. Cardinality(Unreaped') = Cardinality(Unreaped) - 1
    BY <2>2, FiniteParts, FS_RemoveElement
  <2>7. Cardinality(Filled') = Cardinality(Filled) + 1
    BY <2>5, FiniteParts, FS_AddElement
  <2> QED
    BY <2>6, <2>7, FiniteParts DEF RoomInRing
<1>4. CASE Consumed
  <2>1. fin \in Slots /\ fout \in Slots /\ fin' = fin /\ fout' = Following(fout) /\ fout # fin
    BY <1>4 DEF Consumed, TypeOK, ConsumedIsFilled
  <2>2. fout \in Filled /\ Filled' = Filled \ {fout}
    BY <2>1, ConstantsAssumption DEF Filled, Slots, Following
  <2>3. Cardinality(Filled') = Cardinality(Filled) - 1
    BY <2>2, FiniteParts, FS_RemoveElement
  <2>4. Unreaped' = Unreaped
    BY <1>4 DEF Consumed, children, Unreaped
  <2> QED
    BY <2>3, <2>4, FiniteParts, ConstantsAssumption DEF RoomInRing
<1>5. CASE Serve
  <2>1. Filled' = Filled
    BY <1>5 DEF Serve, ring, Filled
  <2>2. CASE kid' = kid
    BY <2>1, <2>2 DEF RoomInRing, Unreaped
  <2>3. CASE kid' # kid
    <3>1. PICK k \in Kids : /\ kid[k] = "none" /\ kid' = [kid EXCEPT ![k] = "running"]
                            /\ Cardinality(Unreaped) + Cardinality(Filled) < MaxUnseen
      BY <1>5, <2>3 DEF Serve, ptypes
    <3>2. k \notin Unreaped /\ Unreaped' = Unreaped \cup {k}
      BY <3>1 DEF Unreaped, TypeOK
    <3>3. Cardinality(Unreaped') = Cardinality(Unreaped) + 1
      BY <3>2, FiniteParts, FS_AddElement
    <3> QED
      BY <3>1, <3>3, <2>1, FiniteParts, ConstantsAssumption DEF RoomInRing
  <2> QED
    BY <2>2, <2>3
<1>6. CASE Restart \/ RingEmpty \/ NotifyStartFailure \/ MainLoop \/ Poll \/ Served \/ ClientCalls
  BY <1>1, <1>6 DEF Restart, RingEmpty, NotifyStartFailure, MainLoop, Poll, Served, ClientCalls,
                    children, ring
<1>7. CASE UNCHANGED vars
  BY <1>1, <1>7 DEF vars
<1> QED
  BY <1>2, <1>3, <1>4, <1>5, <1>6, <1>7 DEF Next, Main

(* The main thread reaches "consumed" from an entry only; the handler does  *)
(* not catch up with fout.                                                  *)
LEMMA ConsumedStep ==
    ASSUME TypeOK, RoomInRing, ConsumedIsFilled, [Next]_vars
    PROVE  ConsumedIsFilled'
<1>1. ASSUME UNCHANGED <<fin, fout, pc>> PROVE ConsumedIsFilled'
  BY <1>1 DEF ConsumedIsFilled
<1>2. CASE Sigchld
  <2>1. PICK k \in Kids : kid[k] = "zombie"
    BY <1>2 DEF Sigchld
  <2>2. Following(fin) # fout
    BY <2>1, RoomForOne DEF Unreaped
  <2> QED
    BY <1>2, <2>2 DEF Sigchld, ConsumedIsFilled
<1>3. CASE \E k \in Kids : Exit(k)
  BY <1>1, <1>3 DEF Exit, ring
<1>4. CASE ClientCalls
  BY <1>1, <1>4 DEF ClientCalls, ring
<1>5. CASE NotifyStartFailure
  BY <1>5 DEF NotifyStartFailure, ring, ConsumedIsFilled
<1>6. CASE Restart \/ RingEmpty \/ Consumed \/ MainLoop \/ Poll \/ Serve \/ Served
  BY <1>6 DEF Restart, RingEmpty, Consumed, MainLoop, Poll, Serve, Served, ConsumedIsFilled
<1>7. CASE UNCHANGED vars
  BY <1>1, <1>7 DEF vars
<1> QED
  BY <1>2, <1>3, <1>4, <1>5, <1>6, <1>7 DEF Next, Main

(* A launch is under way for a process that was forked.                     *)
LEMMA LaunchStep ==
    ASSUME TypeOK, LaunchHasKid, [Next]_vars
    PROVE  LaunchHasKid'
<1> SUFFICES ASSUME NEW t \in Ptypes, launching'[t]
             PROVE  start_pid'[t] \in Kids /\ kid'[start_pid'[t]] # "none"
  BY DEF LaunchHasKid
<1>1. CASE \E k \in Kids : Exit(k)
  BY <1>1 DEF Exit, ptypes, LaunchHasKid, TypeOK
<1>2. CASE Sigchld
  BY <1>2 DEF Sigchld, ptypes, LaunchHasKid, TypeOK
<1>3. CASE NotifyStartFailure
  BY <1>3 DEF NotifyStartFailure, children, LaunchHasKid
<1>4. CASE Serve
  BY <1>4 DEF Serve, ptypes, LaunchHasKid, TypeOK
<1>5. CASE ClientCalls \/ Restart \/ RingEmpty \/ Consumed \/ MainLoop \/ Poll \/ Served
  BY <1>5 DEF ClientCalls, Restart, RingEmpty, Consumed, MainLoop, Poll, Served,
              children, ptypes, LaunchHasKid
<1>6. CASE UNCHANGED vars
  BY <1>6 DEF vars, LaunchHasKid
<1> QED
  BY <1>1, <1>2, <1>3, <1>4, <1>5, <1>6 DEF Next, Main

(* Every step keeps the pid of a reaped launch in a slot to be consumed.    *)
LEMMA ExitStep ==
    ASSUME SigchldInv, [Next]_vars
    PROVE  NoExitLost'
<1> USE DEF SigchldInv
<1> DEFINE Kept(i, t) == failed_procs[i] = start_pid[t] /\ ~(i = fout /\ pc = "consumed")
<1> SUFFICES ASSUME NEW t \in Ptypes, Deceased(t)'
             PROVE  (\E i \in Filled : Kept(i, t))'
  BY DEF NoExitLost
<1>1. ASSUME UNCHANGED <<ring, start_pid>>, Deceased(t), pc' = "consumed" => pc = "consumed"
      PROVE  (\E i \in Filled : Kept(i, t))'
  BY <1>1 DEF ring, Filled, NoExitLost
<1>2. CASE \E k \in Kids : Exit(k)
  BY <1>1, <1>2 DEF Exit, ptypes, Deceased, TypeOK, LaunchHasKid
<1>3. CASE Sigchld
  <2>1. PICK k \in Kids : /\ kid[k] = "zombie" /\ kid' = [kid EXCEPT ![k] = "reaped"]
                          /\ failed_procs' = [failed_procs EXCEPT ![fin] = k]
    BY <1>3 DEF Sigchld
  <2>2. Following(fin) # fout
    BY <2>1, RoomForOne DEF Unreaped
  <2>3. fin \in Slots /\ fout \in Slots /\ fin' = Following(fin) /\ fout' = fout
    BY <1>3 DEF Sigchld, TypeOK
  <2>4. fin \notin Filled /\ Filled' = Filled \cup {fin}
    BY <2>2, <2>3, ConstantsAssumption DEF Filled, Slots, Following
  <2>5. launching' = launching /\ start_pid' = start_pid /\ (pc' = "consumed" => pc = "consumed")
    BY <1>3 DEF Sigchld, ptypes
  <2>6. CASE start_pid[t] = k
    <3>1. failed_procs'[fin] = k
      BY <2>1, <2>3 DEF TypeOK
    <3>2. ~(fin = fout' /\ pc' = "consumed")
      BY <2>3, <2>5 DEF ConsumedIsFilled
    <3> QED
      BY <2>4, <2>5, <2>6, <3>1, <3>2
  <2>7. CASE start_pid[t] # k
    <3>1. Deceased(t)
      BY <2>1, <2>5, <2>7 DEF Deceased, TypeOK, LaunchHasKid
    <3>2. PICK i \in Filled : Kept(i, t)
      BY <3>1 DEF NoExitLost
    <3>3. failed_procs'[i] = failed_procs[i]
      BY <2>1, <2>4, <3>2 DEF TypeOK, Filled
    <3> QED
      BY <2>3, <2>4, <2>5, <3>2, <3>3
  <2> QED
    BY <2>6, <2>7
<1>4. CASE NotifyStartFailure
  <2>1. Deceased(t) /\ start_pid[t] # failed_procs[fout]
    BY <1>4 DEF NotifyStartFailure, Deceased, children
  <2>2. PICK i \in Filled : Kept(i, t)
    BY <2>1 DEF NoExitLost
  <2>3. i # fout
    BY <2>1, <2>2
  <2> QED
    BY <1>4, <2>2, <2>3 DEF NotifyStartFailure, ring, Filled
<1>5. CASE Consumed
  <2>1. Deceased(t)
    BY <1>5 DEF Consumed, Deceased, children, ptypes
  <2>2. PICK i \in Filled : Kept(i, t)
    BY <2>1 DEF NoExitLost
  <2>3. i # fout /\ fout # fin /\ fin \in Slots /\ fout \in Slots
    BY <1>5, <2>2 DEF Consumed, ConsumedIsFilled, TypeOK
  <2>4. fin' = fin /\ fout' = Following(fout) /\ pc' = "ring"
    BY <1>5 DEF Consumed
  <2>5. i \in Filled'
    BY <2>2, <2>3, <2>4, ConstantsAssumption DEF Filled, Slots, Following
  <2> QED
    BY <1>5, <2>2, <2>4, <2>5 DEF Consumed, ptypes
<1>6. CASE Serve
  <2>1. Deceased(t)
    BY <1>6 DEF Serve, ptypes, Deceased, TypeOK, LaunchHasKid
  <2>2. start_pid'[t] = start_pid[t]
    BY <1>6 DEF Serve, ptypes, Deceased, TypeOK, LaunchHasKid
  <2>3. PICK i \in Filled : Kept(i, t)
    BY <2>1 DEF NoExitLost
  <2> QED
    BY <1>6, <2>2, <2>3 DEF Serve, ring, Filled
<1>7. CASE ClientCalls \/ Restart \/ RingEmpty \/ MainLoop \/ Poll \/ Served
  BY <1>1, <1>7 DEF ClientCalls, Restart, RingEmpty, MainLoop, Poll, Served,
                    children, ptypes, Deceased
<1>8. CASE UNCHANGED vars
  BY <1>1, <1>8 DEF vars, ring, Deceased
<1> QED
  BY <1>2, <1>3, <1>4, <1>5, <1>6, <1>7, <1>8 DEF Next, Main

(* The invariant, for any number of children and any size of the ring.      *)
THEOREM RingKeepsExits == Spec => []SigchldInv
<1>1. SigchldInv /\ [Next]_vars => SigchldInv'
  BY TypeStep, RoomStep, ConsumedStep, LaunchStep, ExitStep DEF SigchldInv
<1> QED
  BY <1>1, InitSigchld, PTL DEF Spec

(* No exit is lost between the SIGCHLD handler and notify_start_failure:    *)
(* the pid of a reaped launch waits in a slot still to be consumed.         *)
THEOREM ExitsAreKept == Spec => []NoExitLost
<1>1. SigchldInv => NoExitLost
  BY DEF SigchldInv
<1> QED
  BY <1>1, RingKeepsExits, PTL

(* Children, launches and the ring keep to their types: the indices of      *)
(* failed_procs never leave it.                                             *)
THEOREM TypeCorrect == Spec => []TypeOK
<1>1. SigchldInv => TypeOK
  BY DEF SigchldInv
<1> QED
  BY <1>1, RingKeepsExits, PTL
=============================================================================
