----------------------------- MODULE HordesProofs -----------------------------
(***************************************************************************)
(* For hordes of any size: the end of a cycle finds at most one request;   *)
(* the Gremlin that runs is the right one; no event is lost; the Gremlins  *)
(* take turns; a horde ends when all are done.                             *)
(*                                                                         *)
(* Three invariants, each on top of the one before: HordeInv (requests and *)
(* the Gremlin that runs), EventInv (the recording), TurnInv (the depths). *)
(***************************************************************************)
EXTENDS Hordes, SequenceFoldsProofs, FiniteSetTheorems

Nexts == {"NextGremlinFromRootState", "NextGremlinFromSuspendState"}

AtMostOne == \E r : requests \subseteq {r}

\* The horde's range is the domain of what is kept for each Gremlin.
RangeOK ==
  /\ gGremlinStartNumber \in Nat /\ gGremlinStopNumber \in Nat
  /\ gCurrentGremlin \in gGremlinStartNumber .. gGremlinStopNumber
  /\ DOMAIN halted = gGremlinStartNumber .. gGremlinStopNumber
  /\ DOMAIN suspended = gGremlinStartNumber .. gGremlinStopNumber

GremlinOK == {"number", "counter", "until", "finalUntil", "inited"} \subseteq DOMAIN gremlin

\* A state is saved only for the Gremlin that runs, and under its number; a
\* Gremlin is asked to go on only if it has not halted.
SavedWhileOn == "SaveSuspendedState" \in requests => gIsOn
FilesAreOwn == \A n \in DOMAIN suspended : suspended[n] # none => suspended[n].number = n
NextIsAlive == requests \cap Nexts # {} => ~halted[gCurrentGremlin] /\ ~gIsOn
RunnerIsCurrent == gIsOn => gremlin.number = gCurrentGremlin /\ ~halted[gCurrentGremlin]

Orderly == RangeOK /\ GremlinOK /\ SavedWhileOn /\ FilesAreOwn /\ NextIsAlive /\ RunnerIsCurrent

HordeInv == byUser \in Nat /\ AtMostOne /\ (Undisturbed => Orderly)

-----------------------------------------------------------------------------

(* The Gremlins proposed are those of the range. *)
LEMMA ProposedInRange ==
  ASSUME RangeOK, NEW k \in 1 .. Count
  PROVE  Proposed(k) \in gGremlinStartNumber .. gGremlinStopNumber
<1>1. /\ gGremlinStartNumber \in Int /\ gGremlinStopNumber \in Int
      /\ Count \in Int /\ Count > 0 /\ Place(k) \in Int
      /\ Count = gGremlinStopNumber - gGremlinStartNumber + 1
  BY DEF RangeOK, Count, Place
<1>2. Place(k) % Count \in 0 .. Count - 1
  BY <1>1
<1> HIDE DEF Count, Place
<1> QED BY <1>1, <1>2 DEF Proposed

(* NextGremlin asks for one thing: to go on with a Gremlin that is not out, *)
(* or to go back to the root state.                                        *)
LEMMA NextGremlinAsks ==
  ASSUME requests = {}, NEW out, NEW recording, NextGremlin(out, recording)
  PROVE  /\ ~gIsOn' /\ AtMostOne' /\ "SaveSuspendedState" \notin requests'
         /\ requests' \cap Nexts # {} =>
              \E k \in 1 .. Count : gCurrentGremlin' = Proposed(k) /\ ~out[Proposed(k)]
         /\ gCurrentGremlin' = gCurrentGremlin
              \/ \E k \in 1 .. Count : gCurrentGremlin' = Proposed(k)
<1>1. ~gIsOn'
  BY DEF NextGremlin
<1>2. EndHordes => requests' \subseteq {"LoadRootState"}
  BY DEF EndHordes
<1>3. ASSUME NEW k \in Alive(out),
             gCurrentGremlin' = Proposed(k),
             EndHordes \/ requests' = requests \cup
                            {IF gCurrentDepth' = 0 THEN "NextGremlinFromRootState"
                                                   ELSE "NextGremlinFromSuspendState"}
      PROVE  /\ AtMostOne' /\ "SaveSuspendedState" \notin requests'
             /\ \E j \in 1 .. Count : gCurrentGremlin' = Proposed(j) /\ ~out[Proposed(j)]
  <2>1. k \in 1 .. Count /\ ~out[Proposed(k)]
    BY DEF Alive
  <2>2. \/ requests' \subseteq {"LoadRootState"}
        \/ requests' = {"NextGremlinFromRootState"}
        \/ requests' = {"NextGremlinFromSuspendState"}
    BY <1>2, <1>3
  <2>3. AtMostOne' /\ "SaveSuspendedState" \notin requests'
    BY <2>2 DEF AtMostOne
  <2> QED BY <1>3, <2>1, <2>3
<1>4. ASSUME UNCHANGED place, EndHordes \/ UNCHANGED requests
      PROVE  /\ AtMostOne' /\ "SaveSuspendedState" \notin requests' /\ requests' \cap Nexts = {}
             /\ gCurrentGremlin' = gCurrentGremlin
  BY <1>2, <1>4 DEF AtMostOne, Nexts, place
<1>5. CASE \E k \in Alive(out) :
             /\ gCurrentGremlin' = Proposed(k)
             /\ EndHordes \/ requests' = requests \cup
                               {IF gCurrentDepth' = 0 THEN "NextGremlinFromRootState"
                                                      ELSE "NextGremlinFromSuspendState"}
  <2>1. PICK k \in Alive(out) :
             /\ gCurrentGremlin' = Proposed(k)
             /\ EndHordes \/ requests' = requests \cup
                               {IF gCurrentDepth' = 0 THEN "NextGremlinFromRootState"
                                                      ELSE "NextGremlinFromSuspendState"}
    BY <1>5
  <2>2. /\ AtMostOne' /\ "SaveSuspendedState" \notin requests'
        /\ \E j \in 1 .. Count : gCurrentGremlin' = Proposed(j) /\ ~out[Proposed(j)]
    BY <1>3, <2>1
  <2> QED BY <1>1, <2>2
<1>6. CASE UNCHANGED place /\ (EndHordes \/ UNCHANGED requests)
  BY <1>1, <1>4, <1>6
<1>7. \/ \E k \in Alive(out) :
           /\ gCurrentGremlin' = Proposed(k)
           /\ EndHordes \/ requests' = requests \cup
                             {IF gCurrentDepth' = 0 THEN "NextGremlinFromRootState"
                                                    ELSE "NextGremlinFromSuspendState"}
      \/ UNCHANGED place /\ (EndHordes \/ UNCHANGED requests)
  BY DEF NextGremlin
<1> QED BY <1>5, <1>6, <1>7

(* StopEventReached and ErrorEncountered. *)
LEMMA MovesOn ==
  ASSUME HordeInv, Running, NEW recording, NextGremlin(halted', recording),
         \/ UNCHANGED halted
         \/ halted' = [halted EXCEPT ![gCurrentGremlin] = TRUE],
         UNCHANGED <<range, gremlin, suspended, byUser>>
  PROVE  HordeInv'
<1>1. requests = {} /\ UNCHANGED <<gGremlinStartNumber, gGremlinStopNumber>>
  BY DEF Running, range
<1>2. /\ ~gIsOn' /\ AtMostOne' /\ "SaveSuspendedState" \notin requests'
      /\ requests' \cap Nexts # {} =>
           \E k \in 1 .. Count : gCurrentGremlin' = Proposed(k) /\ ~halted'[Proposed(k)]
      /\ gCurrentGremlin' = gCurrentGremlin
           \/ \E k \in 1 .. Count : gCurrentGremlin' = Proposed(k)
  BY <1>1, NextGremlinAsks
<1>3. SUFFICES ASSUME Undisturbed' PROVE Orderly'
  BY <1>2 DEF HordeInv
<1>4. Orderly
  BY <1>3 DEF HordeInv, Undisturbed
<1>5. gCurrentGremlin' \in gGremlinStartNumber .. gGremlinStopNumber
  BY <1>2, <1>4, ProposedInRange DEF Orderly, RangeOK
<1>6. RangeOK'
  BY <1>1, <1>4, <1>5 DEF Orderly, RangeOK
<1>7. NextIsAlive'
  BY <1>2 DEF NextIsAlive, Nexts
<1> QED
  BY <1>2, <1>4, <1>6, <1>7 DEF Orderly, GremlinOK, SavedWhileOn, FilesAreOwn, RunnerIsCurrent

LEMMA HordeStep == HordeInv /\ [Next]_vars => HordeInv'
<1> SUFFICES ASSUME HordeInv, [Next]_vars PROVE HordeInv'
  OBVIOUS
<1> USE DEF HordeInv, Undisturbed
<1>a. AtMostOne
  OBVIOUS
<1>1. CASE StopEventReached
  BY <1>1, MovesOn DEF StopEventReached, device
<1>2. CASE ErrorEncountered
  BY <1>2, MovesOn DEF ErrorEncountered, device
<1>3. CASE PostFakeEvent \/ PostFakePenEvent
  <2>1. /\ requests = {} /\ gIsOn /\ requests' \subseteq {"SaveSuspendedState"}
        /\ UNCHANGED <<gGremlinStartNumber, gGremlinStopNumber, gCurrentGremlin, halted, gIsOn,
                       suspended, byUser>>
    BY <1>3 DEF PostFakeEvent, PostFakePenEvent, Running, BumpCounter, range, place, files
  <2>2. \/ gremlin' = [gremlin EXCEPT !.counter = @ + 1]
    BY <1>3 DEF PostFakeEvent, PostFakePenEvent, Post
  <2>3. ASSUME Orderly PROVE Orderly'
    <3>1. gremlin'.number = gremlin.number /\ GremlinOK'
      BY <2>2, <2>3 DEF Orderly, GremlinOK
    <3> QED
      BY <2>1, <2>3, <3>1
         DEF Orderly, RangeOK, SavedWhileOn, FilesAreOwn, NextIsAlive, Nexts, RunnerIsCurrent
  <2> QED BY <2>1, <2>3 DEF AtMostOne
<1>4. ASSUME NEW reset \in BOOLEAN, DebugOrReset(reset) PROVE HordeInv'
  <2>1. /\ requests = {} /\ requests' = {} /\ ~gIsOn'
        /\ gremlin' = [gremlin EXCEPT !.inited = ~reset]
        /\ UNCHANGED <<gGremlinStartNumber, gGremlinStopNumber, gCurrentGremlin, halted,
                       suspended, byUser>>
    BY <1>4 DEF DebugOrReset, Running, range, place
  <2> QED
    BY <2>1 DEF AtMostOne, Orderly, RangeOK, GremlinOK, SavedWhileOn, FilesAreOwn, NextIsAlive,
                Nexts, RunnerIsCurrent
<1>5. CASE SaveSuspendedState
  <2>1. /\ "SaveSuspendedState" \in requests /\ requests' = {}
        /\ suspended' = [suspended EXCEPT ![gCurrentGremlin] = Snapshot]
        /\ UNCHANGED <<gGremlinStartNumber, gGremlinStopNumber, gCurrentGremlin, halted, gIsOn,
                       gremlin, byUser>>
    BY <1>5, <1>a DEF SaveSuspendedState, Handle, AtMostOne, range, place, device
  <2>2. Snapshot.number = gremlin.number
    BY DEF Snapshot
  <2>3. ASSUME Orderly PROVE Orderly'
    <3>1. gIsOn /\ gremlin.number = gCurrentGremlin
      BY <2>1, <2>3 DEF Orderly, SavedWhileOn, RunnerIsCurrent
    <3>2. FilesAreOwn'
      BY <2>1, <2>2, <2>3, <3>1 DEF Orderly, FilesAreOwn
    <3> QED
      BY <2>1, <2>3, <3>2
         DEF Orderly, RangeOK, GremlinOK, SavedWhileOn, NextIsAlive, Nexts, RunnerIsCurrent
  <2> QED BY <2>1, <2>3 DEF AtMostOne
<1>6. CASE LoadRootState
  <2>1. /\ requests' = {} /\ ~gIsOn' /\ gremlin' = Loaded(root)
        /\ UNCHANGED <<gGremlinStartNumber, gGremlinStopNumber, gCurrentGremlin, halted,
                       suspended, byUser>>
    BY <1>6, <1>a DEF LoadRootState, Handle, AtMostOne, range, place, files
  <2> QED
    BY <2>1 DEF AtMostOne, Loaded, Orderly, RangeOK, GremlinOK, SavedWhileOn, FilesAreOwn,
                NextIsAlive, Nexts, RunnerIsCurrent
<1>7. CASE NextGremlinFromRootState
  <2>1. /\ requests \cap Nexts # {} /\ requests' = {} /\ gIsOn'
        /\ gremlin' = NewGremlin(gCurrentGremlin)
        /\ UNCHANGED <<gGremlinStartNumber, gGremlinStopNumber, gCurrentGremlin, halted,
                       suspended, byUser>>
    BY <1>7, <1>a DEF NextGremlinFromRootState, Handle, AtMostOne, Nexts, range, place, files
  <2>2. gremlin'.number = gCurrentGremlin /\ GremlinOK'
    BY <2>1 DEF NewGremlin, GremlinOK
  <2> QED
    BY <2>1, <2>2 DEF AtMostOne, Orderly, RangeOK, SavedWhileOn, FilesAreOwn, NextIsAlive,
                      Nexts, RunnerIsCurrent
<1>8. CASE NextGremlinFromSuspendState
  <2>1. /\ requests \cap Nexts # {} /\ requests' = {} /\ gIsOn'
        /\ suspended[gCurrentGremlin] # none
        /\ gremlin' = [Loaded(suspended[gCurrentGremlin]) EXCEPT !.until = NextUntil]
        /\ UNCHANGED <<gGremlinStartNumber, gGremlinStopNumber, gCurrentGremlin, halted,
                       suspended, byUser>>
    BY <1>8, <1>a DEF NextGremlinFromSuspendState, Handle, AtMostOne, Nexts, range, place, files
  <2>2. gremlin'.number = suspended[gCurrentGremlin].number /\ GremlinOK'
    BY <2>1 DEF Loaded, GremlinOK
  <2> QED
    BY <2>1, <2>2 DEF AtMostOne, Orderly, RangeOK, SavedWhileOn, FilesAreOwn, NextIsAlive,
                      Nexts, RunnerIsCurrent
<1>9. CASE LoadFails
  <2>1. /\ requests' = {} /\ ~gIsOn'
        /\ UNCHANGED <<gGremlinStartNumber, gGremlinStopNumber, gCurrentGremlin, halted,
                       gremlin, suspended, byUser>>
    BY <1>9, <1>a DEF LoadFails, Handle, AtMostOne, range, place, device, files
  <2> QED
    BY <2>1 DEF AtMostOne, Orderly, RangeOK, GremlinOK, SavedWhileOn, FilesAreOwn,
                NextIsAlive, Nexts, RunnerIsCurrent
<1>10. CASE Stop
  <2>1. /\ requests = {} /\ requests' = {} /\ ~gIsOn'
        /\ UNCHANGED <<gGremlinStartNumber, gGremlinStopNumber, gCurrentGremlin, halted,
                       gremlin, suspended, byUser>>
    BY <1>10 DEF Stop, Running, range, place, device, files
  <2> QED
    BY <2>1 DEF AtMostOne, Orderly, RangeOK, GremlinOK, SavedWhileOn, FilesAreOwn,
                NextIsAlive, Nexts, RunnerIsCurrent
<1>11. CASE Step \/ Resume
  <2>1. byUser' = byUser + 1 /\ UNCHANGED requests
    BY <1>11 DEF Step, Resume, GoOn
  <2> QED BY <2>1 DEF AtMostOne
<1>12. CASE UNCHANGED vars
  BY <1>12 DEF vars, range, place, device, files, AtMostOne, Orderly, RangeOK, GremlinOK,
               SavedWhileOn, FilesAreOwn, NextIsAlive, RunnerIsCurrent
<1> QED
  BY <1>1, <1>2, <1>3, <1>4, <1>5, <1>6, <1>7, <1>8, <1>9, <1>10, <1>11, <1>12
     DEF Next, EndOfCycle

LEMMA HordeInit == Init => HordeInv
<1> SUFFICES ASSUME Init PROVE HordeInv
  OBVIOUS
<1>1. info.start \in Nat /\ info.stop \in Nat /\ info.start <= info.stop
  BY InfosAssumption DEF Init
<1>2. RangeOK
  BY <1>1 DEF Init, RangeOK
<1>3. GremlinOK /\ gremlin.number = gCurrentGremlin
  BY DEF Init, GremlinOK, NewGremlin
<1>4. ~halted[gCurrentGremlin] /\ \A n \in DOMAIN suspended : suspended[n] = none
  BY <1>1 DEF Init
<1>5. requests = {} /\ byUser = 0
  BY DEF Init
<1> QED
  BY <1>2, <1>3, <1>4, <1>5
     DEF HordeInv, AtMostOne, Orderly, SavedWhileOn, FilesAreOwn, NextIsAlive, RunnerIsCurrent

LEMMA HordeInvariant == Spec => []HordeInv
BY HordeInit, HordeStep, PTL DEF Spec

(* At the end of a cycle at most one request is set: the assertions of     *)
(* EmSession::ExecuteSpecial (:1403-1466) hold for every horde.             *)
THEOREM RequestsExclude == Spec => []OneRequest
<1>1. HordeInv => OneRequest
  <2> SUFFICES ASSUME AtMostOne PROVE Cardinality(requests) <= 1
    BY DEF HordeInv, OneRequest
  <2>1. PICK r : requests \subseteq {r}
    BY DEF AtMostOne
  <2>2. CASE requests = {}
    BY <2>2, FS_EmptySet
  <2>3. CASE requests = {r}
    BY <2>3, FS_Singleton
  <2> QED BY <2>1, <2>2, <2>3
<1> QED BY <1>1, HordeInvariant, PTL

(* Undisturbed by the user, the Gremlin that makes events is the current   *)
(* one of the horde, and it has not halted.                                *)
THEOREM RunnerIsRight == Spec => []RightGremlinRuns
<1>1. HordeInv => RightGremlinRuns
  BY DEF HordeInv, Orderly, RunnerIsCurrent, RightGremlinRuns
<1> QED BY <1>1, HordeInvariant, PTL

-----------------------------------------------------------------------------
(* The turn of the next Gremlin                                            *)

(* The Gremlins are proposed in the order of their numbers, and round.     *)
LEMMA ProposedInOrder ==
  ASSUME RangeOK, gCurrentDepth \in Nat, NEW k \in 1 .. Count
  PROVE  IF gCurrentGremlin + k <= gGremlinStopNumber
         THEN Proposed(k) = gCurrentGremlin + k /\ ProposedDepth(k) = gCurrentDepth
         ELSE Proposed(k) = gCurrentGremlin + k - Count /\ ProposedDepth(k) = gCurrentDepth + 1
<1> DEFINE p == Place(k)
           n == Count
<1>1. /\ gGremlinStartNumber \in Int /\ gGremlinStopNumber \in Int /\ gCurrentGremlin \in Int
      /\ n \in Nat /\ n = gGremlinStopNumber - gGremlinStartNumber + 1
      /\ p \in Nat /\ p = gCurrentGremlin - gGremlinStartNumber + k
      /\ n > 0 /\ p < 2 * n
  BY DEF RangeOK, Count, Place
<1>2. Proposed(k) = gGremlinStartNumber + (p % n)
  BY DEF Proposed
<1>3. ProposedDepth(k) = IF p >= n THEN gCurrentDepth + 1 ELSE gCurrentDepth
  BY DEF ProposedDepth
<1> HIDE DEF p, n
<1>4. p < n => p % n = p
  BY <1>1
<1>5. p >= n => p % n = p - n
  BY <1>1
<1>6. CASE gCurrentGremlin + k <= gGremlinStopNumber
  <2>1. p < n
    BY <1>1, <1>6
  <2>2. QED
    BY <1>1, <1>2, <1>3, <1>4, <1>6, <2>1
<1>7. CASE ~ gCurrentGremlin + k <= gGremlinStopNumber
  <2>1. p >= n
    BY <1>1, <1>7
  <2>2. gGremlinStartNumber + (p - n) = gCurrentGremlin + k - n
    BY <1>1
  <2>3. QED
    BY <1>1, <1>2, <1>3, <1>5, <1>7, <2>1, <2>2 DEF n
<1>8. QED
  BY <1>6, <1>7

(* A Gremlin that is out has no turn.  The turn goes to one after the      *)
(* current one, in the same round, or to one up to it, in the next round;  *)
(* or nobody is left.                                                      *)
SameRound(out) ==
  /\ gCurrentGremlin' \in gCurrentGremlin + 1 .. gGremlinStopNumber
  /\ gCurrentDepth' = gCurrentDepth
  /\ \A n \in gCurrentGremlin + 1 .. gCurrentGremlin' - 1 : out[n]

NextRound(out) ==
  /\ gCurrentGremlin' \in gGremlinStartNumber .. gCurrentGremlin
  /\ gCurrentDepth' = gCurrentDepth + 1
  /\ \A n \in gCurrentGremlin + 1 .. gGremlinStopNumber : out[n]
  /\ \A n \in gGremlinStartNumber .. gCurrentGremlin' - 1 : out[n]

Turn(out, events) ==
  /\ SameRound(out) \/ NextRound(out)
  /\ ~out[gCurrentGremlin']
  /\ IF IsEndOf(gCurrentDepth') THEN EndHordes
     ELSE /\ requests' = requests \cup
                {IF gCurrentDepth' = 0 THEN "NextGremlinFromRootState"
                                       ELSE "NextGremlinFromSuspendState"}
          /\ recorded' = events /\ UNCHANGED ended

NobodyLeft(out) ==
  /\ UNCHANGED place
  /\ \A n \in gGremlinStartNumber .. gGremlinStopNumber : out[n]
  /\ EndHordes

LEMMA TurnTaken ==
  ASSUME RangeOK, gCurrentDepth \in Nat, NEW out, NEW recording, NextGremlin(out, recording)
  PROVE  Turn(out, recording) \/ NobodyLeft(out)
<1> DEFINE cur == gCurrentGremlin
           first == gGremlinStartNumber
           last == gGremlinStopNumber
<1>1. /\ first \in Int /\ last \in Int /\ cur \in first .. last
      /\ Count = last - first + 1
  BY DEF RangeOK, Count
<1>2. \A k \in 1 .. Count :
        IF cur + k <= last
        THEN Proposed(k) = cur + k /\ ProposedDepth(k) = gCurrentDepth
        ELSE Proposed(k) = cur + k - Count /\ ProposedDepth(k) = gCurrentDepth + 1
  BY ProposedInOrder
<1>3. \A k \in 1 .. Count : k \notin Alive(out) => out[Proposed(k)]
  BY DEF Alive
<1>4. ASSUME NEW n \in cur + 1 .. last, NEW k \in 1 .. Count, k = n - cur, k \notin Alive(out)
      PROVE  out[n]
  BY <1>1, <1>2, <1>3, <1>4
<1>5. ASSUME NEW n \in first .. cur, NEW k \in 1 .. Count, k = n - cur + Count, k \notin Alive(out)
      PROVE  out[n]
  <2>1. ~ cur + k <= last /\ cur + k - Count = n
    BY <1>1, <1>5
  <2>2. QED
    BY <1>2, <1>3, <1>5, <2>1
<1>6. ASSUME NEW k \in Alive(out), \A j \in Alive(out) : k <= j,
             gCurrentGremlin' = Proposed(k), gCurrentDepth' = ProposedDepth(k)
      PROVE  (SameRound(out) \/ NextRound(out)) /\ ~out[gCurrentGremlin']
  <2>1. k \in 1 .. Count /\ ~out[gCurrentGremlin']
    BY <1>6 DEF Alive
  <2>2. \A j \in 1 .. k - 1 : j \in 1 .. Count /\ j \notin Alive(out)
    BY <1>1, <1>6, <2>1
  <2>3. CASE cur + k <= last
    <3>1. gCurrentGremlin' = cur + k /\ gCurrentDepth' = gCurrentDepth
      BY <1>2, <1>6, <2>1, <2>3
    <3>2. ASSUME NEW n \in cur + 1 .. gCurrentGremlin' - 1 PROVE out[n]
      <4>1. n \in cur + 1 .. last /\ n - cur \in 1 .. k - 1
        BY <1>1, <2>1, <2>3, <3>1
      <4>2. QED
        BY <1>4, <2>2, <4>1
    <3>3. gCurrentGremlin' \in cur + 1 .. last
      BY <1>1, <2>1, <2>3, <3>1
    <3>4. QED
      BY <2>1, <3>1, <3>2, <3>3 DEF SameRound
  <2>4. CASE ~ cur + k <= last
    <3>1. gCurrentGremlin' = cur + k - Count /\ gCurrentDepth' = gCurrentDepth + 1
      BY <1>2, <1>6, <2>1, <2>4
    <3>2. ASSUME NEW n \in cur + 1 .. last PROVE out[n]
      <4>1. n - cur \in 1 .. k - 1
        BY <1>1, <2>1, <2>4
      <4>2. QED
        BY <1>4, <2>2, <4>1
    <3>3. ASSUME NEW n \in first .. gCurrentGremlin' - 1 PROVE out[n]
      <4>1. n \in first .. cur /\ n - cur + Count \in 1 .. k - 1
        BY <1>1, <2>1, <3>1
      <4>2. QED
        BY <1>5, <2>2, <4>1
    <3>4. gCurrentGremlin' \in first .. cur
      BY <1>1, <2>1, <2>4, <3>1
    <3>5. QED
      BY <2>1, <3>1, <3>2, <3>3, <3>4 DEF NextRound
  <2>5. QED
    BY <2>3, <2>4
<1>7. ASSUME Alive(out) = {}
      PROVE  ~ ProposedDepth(Count) <= gCurrentDepth /\ \A n \in first .. last : out[n]
  <2>1. Count \in 1 .. Count /\ ~ cur + Count <= last
    BY <1>1
  <2>2. ProposedDepth(Count) = gCurrentDepth + 1
    BY <1>2, <2>1
  <2>3. ASSUME NEW n \in first .. last PROVE out[n]
    <3>1. CASE n > cur
      <4>1. n \in cur + 1 .. last /\ n - cur \in 1 .. Count
        BY <1>1, <3>1
      <4>2. QED
        BY <1>4, <1>7, <4>1
    <3>2. CASE ~ n > cur
      <4>1. n \in first .. cur /\ n - cur + Count \in 1 .. Count
        BY <1>1, <3>2
      <4>2. QED
        BY <1>5, <1>7, <4>1
    <3>3. QED
      BY <3>1, <3>2
  <2>4. QED
    BY <2>2, <2>3
<1>8. CASE \E k \in Alive(out) :
             /\ \A j \in Alive(out) : k <= j
             /\ gCurrentGremlin' = Proposed(k) /\ gCurrentDepth' = ProposedDepth(k)
             /\ IF IsEndOf(gCurrentDepth') THEN EndHordes
                ELSE /\ requests' = requests \cup
                          {IF gCurrentDepth' = 0 THEN "NextGremlinFromRootState"
                                                 ELSE "NextGremlinFromSuspendState"}
                     /\ recorded' = recording /\ UNCHANGED ended
  BY <1>6, <1>8 DEF Turn
<1>9. CASE /\ Alive(out) = {} /\ UNCHANGED place
           /\ hung' = (ProposedDepth(Count) <= gCurrentDepth)
           /\ IF hung' THEN recorded' = recording /\ UNCHANGED <<requests, ended>> ELSE EndHordes
  <2>1. ~hung'
    BY <1>7, <1>9, Zenon
  <2>2. QED
    BY <1>7, <1>9, <2>1 DEF NobodyLeft
<1>10. QED
  BY <1>8, <1>9 DEF NextGremlin

-----------------------------------------------------------------------------
(* The recording                                                           *)

Events == (Nat \X Nat) \cup {error}

RangeIsInfo ==
  /\ info \in Infos
  /\ gGremlinStartNumber = info.start /\ gGremlinStopNumber = info.stop

CountsOK ==
  /\ gCurrentDepth \in Nat /\ gremlin.counter \in Nat
  /\ \A n \in DOMAIN suspended : suspended[n] # none => suspended[n].counter \in Nat

EventsOK ==
  /\ recorded \in Seq(Events) /\ ran \in Seq(Events)
  /\ DOMAIN eventFile = DOMAIN suspended
  /\ \A n \in DOMAIN suspended :
       /\ eventFile[n] \in Seq(Events)
       /\ suspended[n] # none => suspended[n].ran \in Seq(Events)

\* In the first round nobody has a file who has not had a turn; only then does
\* a Gremlin start from the root state.
FirstRound ==
  gCurrentDepth = 0 =>
    \A n \in DOMAIN suspended : n > gCurrentGremlin => suspended[n] = none
StartsAnew == "NextGremlinFromRootState" \in requests => suspended[gCurrentGremlin] = none

\* What is recorded goes back to the root state for the Gremlin's file as well
\* as for its run: the file's events are what is recorded, from NextGremlin on.
RunKept ==
  gIsOn => /\ RunIsIn(recorded, ran)
           /\ suspended[gCurrentGremlin] # none =>
                RunIsIn(recorded, suspended[gCurrentGremlin].ran)
FilesKept ==
  \A n \in DOMAIN suspended : suspended[n] # none => RunIsIn(eventFile[n], suspended[n].ran)

Recorded ==
  RangeIsInfo /\ CountsOK /\ EventsOK /\ FirstRound /\ StartsAnew /\ RunKept /\ FilesKept

EventInv == Undisturbed => Recorded

(* An error more in the recording loses nothing.                           *)
LEMMA KeptWithError ==
  ASSUME NEW s \in Seq(Events), NEW r \in Seq(Events), RunIsIn(s, r)
  PROVE  RunIsIn(Append(s, error), r)
<1>1. error \in Events
  BY DEF Events
<1>2. QED
  BY <1>1, MatchedLonger DEF RunIsIn

(* Undisturbed now, undisturbed before.                                    *)
LEMMA UndisturbedBefore ==
  ASSUME HordeInv, [Next]_vars, Undisturbed'
  PROVE  Undisturbed /\ UNCHANGED <<byUser, range>>
<1>1. byUser \in Nat
  BY DEF HordeInv
<1>2. ~(Step \/ Resume)
  BY <1>1 DEF Step, Resume, GoOn, Undisturbed
<1>3. CASE StopEventReached \/ PostFakeEvent \/ PostFakePenEvent \/ ErrorEncountered
  BY <1>3 DEF StopEventReached, PostFakeEvent, PostFakePenEvent, ErrorEncountered, Undisturbed
<1>4. CASE \E reset \in BOOLEAN : DebugOrReset(reset)
  BY <1>4 DEF DebugOrReset, Undisturbed
<1>5. CASE EndOfCycle
  BY <1>5 DEF EndOfCycle, SaveSuspendedState, LoadRootState, NextGremlinFromRootState,
              NextGremlinFromSuspendState, LoadFails, Undisturbed
<1>6. CASE Stop \/ UNCHANGED vars
  BY <1>6 DEF Stop, vars, Undisturbed
<1>7. QED
  BY <1>2, <1>3, <1>4, <1>5, <1>6 DEF Next

(* StopEventReached and ErrorEncountered: the events go to the file.       *)
LEMMA EventsAreSaved ==
  ASSUME Orderly, Recorded, Running, NEW out, NEW events \in {recorded, Append(recorded, error)},
         NextGremlin(out, events), eventFile' = [eventFile EXCEPT ![gCurrentGremlin] = events],
         UNCHANGED <<range, device, suspended>>
  PROVE  Recorded'
<1> USE DEF Recorded
<1>1. /\ requests = {} /\ gIsOn /\ ~gIsOn' /\ RangeOK /\ gCurrentDepth \in Nat
      /\ gCurrentGremlin \in DOMAIN suspended
  BY DEF Running, NextGremlin, Orderly, CountsOK, RangeOK
<1>2. events \in Seq(Events)
  <2>1. error \in Events
    BY DEF Events
  <2>2. QED
    BY <2>1, AppendProperties DEF EventsOK
<1>3. Turn(out, events) \/ NobodyLeft(out)
  BY <1>1, TurnTaken
<1>4. RangeIsInfo' /\ gremlin.counter' \in Nat
  BY DEF RangeIsInfo, CountsOK, range, device
<1>5. recorded' \in {<<>>, events}
  BY <1>3 DEF Turn, NobodyLeft, EndHordes
<1>6. EventsOK'
  BY <1>1, <1>2, <1>5, EmptySeq DEF EventsOK, device
<1>7. RunKept'
  BY <1>1 DEF RunKept
<1>8. FilesKept'
  <2>1. ASSUME NEW n \in DOMAIN suspended, suspended[n] # none
        PROVE  RunIsIn(eventFile'[n], suspended[n].ran)
    <3>1. CASE n # gCurrentGremlin
      BY <1>1, <2>1, <3>1 DEF FilesKept, EventsOK
    <3>2. CASE n = gCurrentGremlin
      <4>1. eventFile'[n] = events
        BY <1>1, <3>2 DEF EventsOK
      <4>2. RunIsIn(recorded, suspended[n].ran) /\ suspended[n].ran \in Seq(Events)
        BY <1>1, <2>1, <3>2 DEF RunKept, EventsOK
      <4>3. RunIsIn(events, suspended[n].ran)
        BY <4>2, KeptWithError DEF EventsOK
      <4>4. QED
        BY <4>1, <4>3
    <3>3. QED
      BY <3>1, <3>2
  <2>2. QED
    BY <2>1 DEF FilesKept
<1>9. CASE NobodyLeft(out)
  <2>1. "NextGremlinFromRootState" \notin requests' /\ UNCHANGED place
    BY <1>1, <1>9 DEF NobodyLeft, EndHordes
  <2>2. FirstRound' /\ StartsAnew' /\ CountsOK'
    BY <1>4, <2>1 DEF FirstRound, StartsAnew, CountsOK, place
  <2>3. QED
    BY <1>4, <1>6, <1>7, <1>8, <2>2
<1>10. CASE Turn(out, events)
  <2>1. "NextGremlinFromRootState" \in requests' => gCurrentDepth' = 0
    BY <1>1, <1>10 DEF Turn, EndHordes
  <2>2. CASE SameRound(out)
    <3>1. gCurrentDepth' = gCurrentDepth /\ gCurrentGremlin' > gCurrentGremlin
          /\ gCurrentGremlin' \in DOMAIN suspended /\ \A n \in DOMAIN suspended : n \in Nat
      BY <1>1, <2>2 DEF SameRound, RangeOK
    <3>2. CountsOK' /\ FirstRound'
      BY <1>1, <1>4, <3>1 DEF CountsOK, FirstRound, RangeOK
    <3>3. StartsAnew'
      BY <2>1, <3>1 DEF StartsAnew, FirstRound
    <3>4. QED
      BY <1>4, <1>6, <1>7, <1>8, <3>2, <3>3
  <2>3. CASE NextRound(out)
    <3>1. gCurrentDepth' \in Nat /\ gCurrentDepth' # 0
      BY <1>1, <2>3 DEF NextRound
    <3>2. CountsOK' /\ FirstRound' /\ StartsAnew'
      BY <1>4, <2>1, <3>1 DEF CountsOK, FirstRound, StartsAnew
    <3>3. QED
      BY <1>4, <1>6, <1>7, <1>8, <3>2
  <2>4. QED
    BY <1>10, <2>2, <2>3 DEF Turn
<1>11. QED
  BY <1>3, <1>9, <1>10

(* The Gremlin's events.                                                   *)
LEMMA EventsArePosted ==
  ASSUME Orderly, Recorded, Running, PostFakeEvent \/ PostFakePenEvent
  PROVE  Recorded'
<1> USE DEF Recorded
<1> DEFINE e == <<gremlin.number, gremlin.counter + 1>>
<1>1. /\ gIsOn /\ gCurrentGremlin \in DOMAIN suspended /\ requests = {}
      /\ UNCHANGED <<range, place, halted, gIsOn, files>>
      /\ requests' \subseteq {"SaveSuspendedState"}
      /\ gremlin' = [gremlin EXCEPT !.counter = @ + 1]
      /\ \/ ran' = Append(ran, e) /\ recorded' = Append(recorded, e)
         \/ UNCHANGED <<ran, recorded>>
  BY DEF PostFakeEvent, PostFakePenEvent, Post, BumpCounter, Running, Orderly, RangeOK
<1>2. e \in Events
  BY <1>1 DEF Events, CountsOK, Orderly, RunnerIsCurrent, RangeOK
<1> HIDE DEF e
<1>3. RangeIsInfo' /\ FirstRound' /\ StartsAnew' /\ FilesKept'
  BY <1>1 DEF RangeIsInfo, FirstRound, StartsAnew, FilesKept, range, place, files
<1>4. CountsOK'
  <2>1. gremlin'.counter = gremlin.counter + 1
    BY <1>1 DEF Orderly, GremlinOK
  <2>2. QED
    BY <1>1, <2>1 DEF CountsOK, place, files
<1>5. EventsOK'
  <2>1. Append(recorded, e) \in Seq(Events) /\ Append(ran, e) \in Seq(Events)
    BY <1>2, AppendProperties DEF EventsOK
  <2>2. recorded' \in Seq(Events) /\ ran' \in Seq(Events)
    BY <1>1, <2>1 DEF EventsOK
  <2>3. QED
    BY <1>1, <2>2 DEF EventsOK, files
<1>6. RunKept'
  <2>1. CASE UNCHANGED <<ran, recorded>>
    BY <1>1, <2>1 DEF RunKept, place, files
  <2>2. CASE ran' = Append(ran, e) /\ recorded' = Append(recorded, e)
    <3>1. RunIsIn(recorded', ran')
      <4>1. recorded \in Seq(Events) /\ ran \in Seq(Events) /\ Matched(recorded, ran) = Len(ran)
        BY <1>1 DEF RunKept, RunIsIn, EventsOK
      <4>2. Matched(Append(recorded, e), Append(ran, e)) = Len(Append(ran, e))
        BY <1>2, <4>1, MatchedBoth
      <4>3. QED
        BY <2>2, <4>2 DEF RunIsIn
    <3>2. ASSUME suspended[gCurrentGremlin] # none
          PROVE  RunIsIn(recorded', suspended[gCurrentGremlin].ran)
      <4> DEFINE r == suspended[gCurrentGremlin].ran
      <4>1. recorded \in Seq(Events) /\ r \in Seq(Events) /\ Matched(recorded, r) = Len(r)
        BY <1>1, <3>2 DEF RunKept, RunIsIn, EventsOK
      <4> HIDE DEF r
      <4>2. Matched(Append(recorded, e), r) = Len(r)
        BY <1>2, <4>1, MatchedLonger
      <4>3. QED
        BY <2>2, <4>2 DEF RunIsIn, r
    <3>3. QED
      BY <1>1, <3>1, <3>2 DEF RunKept, place, files
  <2>3. QED
    BY <1>1, <2>1, <2>2
<1>7. QED
  BY <1>3, <1>4, <1>5, <1>6

LEMMA EventStep == HordeInv /\ EventInv /\ [Next]_vars => EventInv'
<1> SUFFICES ASSUME HordeInv, EventInv, [Next]_vars, Undisturbed' PROVE Recorded'
  BY DEF EventInv
<1>1. /\ Undisturbed /\ Orderly /\ Recorded /\ AtMostOne
      /\ RangeIsInfo' /\ UNCHANGED range /\ gCurrentGremlin \in DOMAIN suspended
  BY UndisturbedBefore DEF HordeInv, EventInv, Recorded, RangeIsInfo, range, Orderly, RangeOK
<1> USE DEF Recorded
<1>2. CASE StopEventReached
  BY <1>1, <1>2, EventsAreSaved DEF StopEventReached
<1>3. CASE ErrorEncountered
  BY <1>1, <1>3, EventsAreSaved DEF ErrorEncountered
<1>4. CASE PostFakeEvent \/ PostFakePenEvent
  <2>1. Running
    BY <1>4 DEF PostFakeEvent, PostFakePenEvent
  <2>2. QED
    BY <1>1, <1>4, <2>1, EventsArePosted
<1>5. ASSUME NEW reset \in BOOLEAN, DebugOrReset(reset) PROVE Recorded'
  <2> DEFINE events == Append(recorded, error)
  <2>1. /\ requests = {} /\ requests' = {} /\ gIsOn /\ ~gIsOn'
        /\ eventFile' = [eventFile EXCEPT ![gCurrentGremlin] = events] /\ recorded' = events
        /\ gremlin' = [gremlin EXCEPT !.inited = ~reset] /\ ran' \in {<<>>, ran}
        /\ UNCHANGED <<place, suspended>>
    BY <1>5 DEF DebugOrReset, Running
  <2>2. events \in Seq(Events)
    <3>1. error \in Events
      BY DEF Events
    <3>2. QED
      BY <1>1, <3>1, AppendProperties DEF EventsOK
  <2>3. suspended[gCurrentGremlin] # none => RunIsIn(events, suspended[gCurrentGremlin].ran)
    BY <1>1, <2>1, KeptWithError DEF RunKept, EventsOK
  <2> HIDE DEF events
  <2>4. gremlin'.counter = gremlin.counter
    BY <2>1
  <2>5. EventsOK'
    BY <1>1, <2>1, <2>2, EmptySeq DEF EventsOK
  <2>6. FilesKept'
    BY <1>1, <2>1, <2>3 DEF FilesKept, EventsOK
  <2>7. QED
    BY <1>1, <2>1, <2>4, <2>5, <2>6 DEF CountsOK, FirstRound, StartsAnew, RunKept, place
<1>6. CASE SaveSuspendedState
  <2>1. /\ requests' = {} /\ gIsOn /\ UNCHANGED <<place, gIsOn, device, recorded>>
        /\ suspended' = [suspended EXCEPT ![gCurrentGremlin] = Snapshot]
        /\ eventFile' = [eventFile EXCEPT ![gCurrentGremlin] = recorded]
    BY <1>1, <1>6 DEF SaveSuspendedState, Handle, AtMostOne, Orderly, SavedWhileOn
  <2>2. /\ Snapshot.counter = gremlin.counter /\ Snapshot.ran = ran
        /\ gCurrentGremlin \in Nat /\ \A n \in DOMAIN suspended : n \in Nat
    BY <1>1 DEF Snapshot, Orderly, RangeOK
  <2>3. /\ DOMAIN suspended' = DOMAIN suspended /\ suspended'[gCurrentGremlin] = Snapshot
        /\ \A n \in DOMAIN suspended : n # gCurrentGremlin => suspended'[n] = suspended[n]
        /\ DOMAIN eventFile' = DOMAIN suspended /\ eventFile'[gCurrentGremlin] = recorded
        /\ \A n \in DOMAIN suspended : n # gCurrentGremlin => eventFile'[n] = eventFile[n]
    BY <1>1, <2>1 DEF EventsOK
  <2> HIDE DEF Recorded
  <2>4. CountsOK'
    BY <1>1, <2>1, <2>2, <2>3 DEF Recorded, CountsOK, place, device
  <2>5. EventsOK'
    BY <1>1, <2>1, <2>2, <2>3 DEF Recorded, EventsOK, device
  <2>6. FirstRound' /\ StartsAnew'
    BY <1>1, <2>1, <2>2, <2>3 DEF Recorded, FirstRound, StartsAnew, place
  <2>7. RunIsIn(recorded, ran)
    BY <1>1, <2>1 DEF Recorded, RunKept
  <2>8. RunKept'
    BY <1>1, <2>1, <2>2, <2>3, <2>7 DEF RunKept, place, device
  <2>9. FilesKept'
    BY <1>1, <2>1, <2>2, <2>3, <2>7 DEF Recorded, FilesKept
  <2>10. QED
    BY <1>1, <2>4, <2>5, <2>6, <2>8, <2>9 DEF Recorded
<1>7. CASE LoadRootState
  <2>1. /\ requests' = {} /\ ~gIsOn' /\ gremlin' = Loaded(root) /\ ran' = <<>>
        /\ UNCHANGED <<place, recorded, files>>
    BY <1>1, <1>7 DEF LoadRootState, Handle, AtMostOne, root
  <2>2. gremlin'.counter = 0
    BY <2>1 DEF Loaded, root
  <2>3. QED
    BY <1>1, <2>1, <2>2, EmptySeq
       DEF CountsOK, EventsOK, FirstRound, StartsAnew, RunKept, FilesKept, place, files
<1>8. CASE NextGremlinFromRootState
  <2>1. /\ requests' = {} /\ gremlin' = NewGremlin(gCurrentGremlin) /\ ran' = <<>>
        /\ UNCHANGED <<place, recorded, files>> /\ suspended[gCurrentGremlin] = none
    BY <1>1, <1>8 DEF NextGremlinFromRootState, Handle, AtMostOne, root, StartsAnew
  <2>2. gremlin'.counter = 0
    BY <2>1 DEF NewGremlin
  <2>3. RunIsIn(recorded, <<>>)
    BY <1>1, MatchedNone DEF RunIsIn, EventsOK
  <2>4. QED
    BY <1>1, <2>1, <2>2, <2>3, EmptySeq
       DEF CountsOK, EventsOK, FirstRound, StartsAnew, RunKept, FilesKept, place, files
<1>9. CASE NextGremlinFromSuspendState
  <2>1. /\ requests' = {} /\ suspended[gCurrentGremlin] # none
        /\ gremlin' = [Loaded(suspended[gCurrentGremlin]) EXCEPT !.until = NextUntil]
        /\ ran' = suspended[gCurrentGremlin].ran /\ recorded' = eventFile[gCurrentGremlin]
        /\ UNCHANGED <<place, files>>
    BY <1>1, <1>9 DEF NextGremlinFromSuspendState, Handle, AtMostOne, LoadedEvents
  <2>2. gremlin'.counter = suspended[gCurrentGremlin].counter
    BY <2>1 DEF Loaded
  <2>3. RunIsIn(eventFile[gCurrentGremlin], suspended[gCurrentGremlin].ran)
    BY <1>1, <2>1 DEF FilesKept
  <2>4. QED
    BY <1>1, <2>1, <2>2, <2>3
       DEF CountsOK, EventsOK, FirstRound, StartsAnew, RunKept, FilesKept, place, files
<1>10. CASE LoadFails \/ Stop
  <2>1. requests' = {} /\ ~gIsOn' /\ UNCHANGED <<place, device, recorded, files>>
    BY <1>1, <1>10 DEF LoadFails, Stop, Running, Handle, AtMostOne
  <2>2. QED
    BY <1>1, <2>1
       DEF CountsOK, EventsOK, FirstRound, StartsAnew, RunKept, FilesKept, place, device, files
<1>11. CASE UNCHANGED vars
  BY <1>1, <1>11
     DEF vars, CountsOK, EventsOK, FirstRound, StartsAnew, RunKept, FilesKept, place, device, files
<1>12. ~(Step \/ Resume)
  BY <1>1 DEF Step, Resume, GoOn, HordeInv, Undisturbed
<1> QED
  BY <1>2, <1>3, <1>4, <1>5, <1>6, <1>7, <1>8, <1>9, <1>10, <1>11, <1>12 DEF Next, EndOfCycle

LEMMA EventInit == Init => EventInv
<1> SUFFICES ASSUME Init PROVE Recorded
  BY DEF EventInv
<1>1. <<>> \in Seq(Events) /\ RunIsIn(<<>>, <<>>)
  BY EmptySeq, MatchedNone DEF RunIsIn
<1>2. gremlin.counter = 0
  BY DEF Init, NewGremlin
<1>3. \A n \in DOMAIN suspended : suspended[n] = none
  BY DEF Init
<1>4. EventsOK
  BY <1>1, <1>3 DEF Init, EventsOK
<1>5. gCurrentGremlin \in DOMAIN suspended
  BY InfosAssumption DEF Init
<1>6. QED
  BY <1>1, <1>2, <1>3, <1>4, <1>5
     DEF Init, Recorded, RangeIsInfo, CountsOK, FirstRound, StartsAnew, RunKept, FilesKept

LEMMA EventInvariant == Spec => []EventInv
BY HordeInvariant, EventInit, EventStep, PTL DEF Spec

(* While the user lets the horde run, no event is lost: what the guest     *)
(* went through, from the root state to where it is, is in the recording,  *)
(* and to where a Gremlin was suspended, in that Gremlin's event file.     *)
THEOREM NothingIsLost == Spec => []NoEventLost
<1>1. HordeInv /\ EventInv => NoEventLost
  <2> SUFFICES ASSUME HordeInv, EventInv, Undisturbed PROVE NoEventLost
    BY DEF NoEventLost
  <2>1. Recorded /\ Gremlins = DOMAIN suspended
    BY DEF EventInv, HordeInv, Recorded, RangeIsInfo, Orderly, RangeOK, Gremlins
  <2>2. QED
    BY <2>1 DEF Recorded, RunKept, FilesKept, NoEventLost
<1> QED BY <1>1, HordeInvariant, EventInvariant, PTL

-----------------------------------------------------------------------------
(* The depths                                                              *)

\* What the dialog and the start-up options give: a number of events, or none.
DepthsAreMeant ==
  \A i \in Infos : i.switchDepth \in Nat \cup {Forever} /\ i.maxDepth \in Nat \cup {Forever}

LEMMA Multiples ==
  ASSUME NEW a \in Nat, NEW b \in Nat, NEW c \in Nat, b <= c
  PROVE  a * b <= a * c
<1>1. a * c = a * b + a * (c - b) /\ a * (c - b) \in Nat
  BY SMT
<1>2. a * b \in Nat
  BY SMT
<1>3. QED
  BY <1>1, <1>2, SMT

LEMMA MinOfTwo ==
  ASSUME NEW a \in Int, NEW b \in Int
  PROVE  Min({a, b}) = IF a <= b THEN a ELSE b
BY DEF Min

\* A depth of zero means none.
DepthsOK ==
  /\ gSwitchDepth \in (Nat \ {0}) \cup {Forever}
  /\ gMaxDepth \in (Nat \ {0}) \cup {Forever}

LEMMA DepthsAreNumbers ==
  ASSUME DepthsAreMeant, info \in Infos
  PROVE  DepthsOK
<1>1. info.switchDepth \in Nat \cup {Forever} /\ info.maxDepth \in Nat \cup {Forever}
  BY DEF DepthsAreMeant
<1>2. \A n \in Nat \cup {Forever} : Positive(n) \in (Nat \ {0}) \cup {Forever}
  BY DEF Positive, Forever
<1>3. QED
  BY <1>1, <1>2 DEF DepthsOK, gSwitchDepth, gMaxDepth

(* The limit of a depth, as a number.                                      *)
LEMMA LimitIs ==
  ASSUME DepthsOK, HasDepth, NEW d \in Nat
  PROVE  /\ gSwitchDepth * d \in Nat
         /\ Limit(d) = IF gMaxDepth = Forever \/ gSwitchDepth * d <= gMaxDepth
                       THEN gSwitchDepth * d ELSE gMaxDepth
<1>1. gSwitchDepth \in Nat /\ gMaxDepth \in Int
  BY DEF DepthsOK, HasDepth, Forever
<1>2. gSwitchDepth * d \in Nat
  BY <1>1, SMT
<1> DEFINE p == gSwitchDepth * d
<1> HIDE DEF p
<1>3. p \in Int
  BY <1>2 DEF p
<1>4. Min({p, gMaxDepth}) = IF p <= gMaxDepth THEN p ELSE gMaxDepth
  BY <1>1, <1>3, MinOfTwo
<1>5. QED
  BY <1>2, <1>4 DEF Limit, p

(* Where a horde has not come to its end, the next limit is a later one... *)
LEMMA LimitGrows ==
  ASSUME DepthsOK, HasDepth, NEW d \in Nat, ~IsEndOf(d)
  PROVE  Limit(d) \in Nat /\ Limit(d + 1) \in Nat /\ Limit(d) < Limit(d + 1)
<1> DEFINE p == gSwitchDepth * d
           q == gMaxDepth \div gSwitchDepth
           r == gMaxDepth % gSwitchDepth
<1>1. gSwitchDepth \in Nat /\ gSwitchDepth > 0 /\ p \in Nat /\ gSwitchDepth * (d + 1) = p + gSwitchDepth
  <2>1. gSwitchDepth \in Nat /\ gSwitchDepth > 0
    BY DEF DepthsOK, HasDepth, Forever
  <2>2. p \in Nat /\ gSwitchDepth * (d + 1) = p + gSwitchDepth
    BY <2>1, SMT
  <2>3. QED
    BY <2>1, <2>2
<1>2. gMaxDepth = Forever \/ p < gMaxDepth
  <2>1. SUFFICES ASSUME gMaxDepth # Forever PROVE p < gMaxDepth
    OBVIOUS
  <2>2. gMaxDepth \in Nat
    BY <2>1 DEF DepthsOK
  <2>3. q \in Nat /\ r \in Nat /\ gMaxDepth = gSwitchDepth * q + r
    BY <1>1, <2>2, SMT
  <2>4. d <= q /\ (d = q => r # 0)
    BY <2>1, <2>3 DEF IsEndOf, HasDepth
  <2>5. CASE d = q
    BY <1>1, <2>2, <2>3, <2>4, <2>5
  <2>6. CASE d + 1 <= q
    <3>1. gSwitchDepth * (d + 1) <= gSwitchDepth * q
      BY <1>1, <2>3, <2>6, Multiples
    <3>2. gSwitchDepth * q \in Int
      BY <1>1, <2>3, SMT
    <3> HIDE DEF p, q, r
    <3>3. QED
      BY <1>1, <2>2, <2>3, <3>1, <3>2
  <2>7. QED
    BY <2>3, <2>4, <2>5, <2>6
<1>3. Limit(d) = IF gMaxDepth = Forever \/ p <= gMaxDepth THEN p ELSE gMaxDepth
  BY LimitIs
<1>4. Limit(d + 1) = IF gMaxDepth = Forever \/ gSwitchDepth * (d + 1) <= gMaxDepth
                     THEN gSwitchDepth * (d + 1) ELSE gMaxDepth
  <2>1. d + 1 \in Nat
    OBVIOUS
  <2>2. QED
    BY <2>1, LimitIs
<1> HIDE DEF p
<1>5. CASE gMaxDepth = Forever
  BY <1>1, <1>3, <1>4, <1>5
<1>6. CASE gMaxDepth # Forever
  <2>1. gMaxDepth \in Nat
    BY <1>6 DEF DepthsOK
  <2>2. QED
    BY <1>1, <1>2, <1>3, <1>4, <1>6, <2>1
<1>7. QED
  BY <1>5, <1>6

(* ... it has not come to it at the beginning...                           *)
LEMMA NoEndAtFirst ==
  ASSUME DepthsOK, HasDepth
  PROVE  ~IsEndOf(0) /\ Limit(0) = 0
<1>1. gSwitchDepth \in Nat /\ gSwitchDepth > 0 /\ gSwitchDepth * 0 = 0
  BY DEF DepthsOK, HasDepth, Forever
<1>2. gMaxDepth # Forever => gMaxDepth \in Nat /\ gMaxDepth > 0
  BY DEF DepthsOK
<1>3. gMaxDepth # Forever => ~ 0 > gMaxDepth \div gSwitchDepth
  BY <1>1, <1>2
<1>4. gMaxDepth # Forever => ~ (0 = gMaxDepth \div gSwitchDepth /\ gMaxDepth % gSwitchDepth = 0)
  BY <1>1, <1>2
<1>5. ~IsEndOf(0)
  BY <1>3, <1>4 DEF IsEndOf, HasDepth
<1>6. Limit(0) = 0
  BY <1>1, <1>2, LimitIs
<1>7. QED
  BY <1>5, <1>6

(* ... and where it has, the limit is the last one.                        *)
LEMMA LimitAtEnd ==
  ASSUME DepthsOK, HasDepth, NEW d \in Nat, IsEndOf(d)
  PROVE  Limit(d) = gMaxDepth
<1> DEFINE p == gSwitchDepth * d
           q == gMaxDepth \div gSwitchDepth
           r == gMaxDepth % gSwitchDepth
<1>1. gSwitchDepth \in Nat /\ gSwitchDepth > 0 /\ gMaxDepth \in Nat /\ gMaxDepth # Forever
  BY DEF DepthsOK, HasDepth, Forever, IsEndOf
<1>2. p \in Nat
  BY <1>1, SMT
<1>3. q \in Nat /\ r \in Nat /\ r < gSwitchDepth /\ gMaxDepth = gSwitchDepth * q + r
  BY <1>1, SMT
<1>4. d > q \/ (d = q /\ r = 0)
  BY DEF IsEndOf, HasDepth
<1>5. p >= gMaxDepth
  <2>1. CASE d = q /\ r = 0
    BY <1>1, <1>2, <1>3, <2>1
  <2>2. CASE d > q
    <3>1. gSwitchDepth * (q + 1) <= p
      BY <1>1, <1>3, <2>2, Multiples
    <3>2. gSwitchDepth * (q + 1) = gSwitchDepth * q + gSwitchDepth /\ gSwitchDepth * q \in Nat
      BY <1>1, <1>3, SMT
    <3> HIDE DEF p, q, r
    <3>3. QED
      BY <1>1, <1>2, <1>3, <3>1, <3>2
  <2>3. QED
    BY <1>4, <2>1, <2>2
<1>6. Limit(d) = IF gMaxDepth = Forever \/ p <= gMaxDepth THEN p ELSE gMaxDepth
  BY LimitIs
<1> HIDE DEF p
<1>7. QED
  BY <1>1, <1>2, <1>5, <1>6

-----------------------------------------------------------------------------
(* The turns                                                               *)

\* A horde that has ended asks for no Gremlin; each has halted or is done.
EndedQuiet == ended => ~gIsOn /\ requests \cap Nexts = {}
AllAreDone ==
  ended /\ (HasDepth \/ gMaxDepth = Forever) =>
    \A n \in DOMAIN suspended :
      halted[n] \/ (suspended[n] # none /\ suspended[n].counter = gMaxDepth)

\* Those who had their turn in this round are at its end, the others at the
\* end of the last one.
EarlierAt(depth) ==
  \A n \in DOMAIN suspended : n < gCurrentGremlin /\ ~halted[n] => SuspendedAt(n, depth + 1)
LaterAt(depth) ==
  depth > 0 =>
    \A n \in DOMAIN suspended : n > gCurrentGremlin /\ ~halted[n] => SuspendedAt(n, depth)
CurrentAt(depth) ==
  ~halted[gCurrentGremlin] /\ depth > 0 =>
    SuspendedAt(gCurrentGremlin, depth) \/ SuspendedAt(gCurrentGremlin, depth + 1)

\* The Gremlin that is asked for goes on from the end of the last round; the
\* one that runs goes on to the end of this round, and when its counter has
\* met this limit, it has been suspended or is about to be.
AskedAt(depth) ==
  /\ "NextGremlinFromRootState" \in requests => depth = 0
  /\ "NextGremlinFromSuspendState" \in requests =>
       depth > 0 /\ SuspendedAt(gCurrentGremlin, depth)
RunsTo(depth) ==
  /\ gremlin.until = Limit(depth + 1)
  /\ gremlin.counter < gremlin.until =>
       /\ "SaveSuspendedState" \notin requests
       /\ depth > 0 => SuspendedAt(gCurrentGremlin, depth)
  /\ gremlin.counter = gremlin.until =>
       "SaveSuspendedState" \in requests \/ SuspendedAt(gCurrentGremlin, depth + 1)
  /\ gremlin.counter > gremlin.until =>
       "SaveSuspendedState" \notin requests /\ SuspendedAt(gCurrentGremlin, depth + 1)

RoundAt(depth) ==
  /\ ~IsEndOf(depth)
  /\ EarlierAt(depth) /\ LaterAt(depth) /\ CurrentAt(depth) /\ AskedAt(depth)
  /\ gIsOn => RunsTo(depth)

InTurn ==
  /\ EndedQuiet /\ AllAreDone
  /\ HasDepth /\ ~ended => RoundAt(gCurrentDepth)

TurnInv == Undisturbed => InTurn

(* What is as it was.                                                      *)
LEMMA SameDepths ==
  ASSUME UNCHANGED range
  PROVE  UNCHANGED <<gMaxDepth, gSwitchDepth, HasDepth, DepthsOK, Steps>>
BY DEF range, gMaxDepth, gSwitchDepth, HasDepth, DepthsOK, Positive, Steps

(* The turn passes on: who had the turn is out or at the end of the round. *)
LEMMA TurnPasses ==
  ASSUME Orderly, Recorded, InTurn, DepthsOK, Running, NEW out, NEW events,
         NextGremlin(out, events), halted' = out,
         out \in {halted, [halted EXCEPT ![gCurrentGremlin] = TRUE]},
         out[gCurrentGremlin] \/ AtLimit,
         UNCHANGED <<range, gremlin, suspended>>
  PROVE  InTurn'
<1> DEFINE cur == gCurrentGremlin
           d == gCurrentDepth
<1>1. /\ requests = {} /\ gIsOn /\ ~gIsOn' /\ ~ended /\ RangeOK
      /\ d \in Nat /\ cur \in DOMAIN suspended /\ \A n \in DOMAIN suspended : n \in Nat
      /\ DOMAIN suspended = gGremlinStartNumber .. gGremlinStopNumber
      /\ DOMAIN halted = DOMAIN suspended
  BY DEF Running, NextGremlin, Orderly, RangeOK, Recorded, CountsOK, InTurn, EndedQuiet
<1>2. Turn(out, events) \/ NobodyLeft(out)
  BY <1>1, TurnTaken
<1>3. UNCHANGED <<suspended, gMaxDepth, gSwitchDepth, HasDepth>>
  BY SameDepths
<1>4. EndedQuiet'
  BY <1>1, <1>2 DEF EndedQuiet, Turn, NobodyLeft, EndHordes, Nexts
<1>5. HasDepth => RoundAt(d) /\ RunsTo(d)
  BY <1>1 DEF InTurn, RoundAt
<1>6. \A n \in DOMAIN suspended : ~out[n] => ~halted[n] \/ n = cur
  BY <1>1
<1>7. ASSUME HasDepth, NEW n \in DOMAIN suspended, n <= cur, ~out[n]
      PROVE  SuspendedAt(n, d + 1)
  <2>1. CASE n < cur
    BY <1>1, <1>5, <1>6, <1>7, <2>1 DEF RoundAt, EarlierAt
  <2>2. CASE n = cur
    <3>1. gremlin.counter > gremlin.until
      BY <1>7, <2>2 DEF AtLimit
    <3>2. QED
      BY <1>5, <1>7, <2>2, <3>1 DEF RunsTo
  <2>3. QED
    BY <1>1, <1>7, <2>1, <2>2
<1>8. ASSUME HasDepth, NEW n \in DOMAIN suspended, n > cur, ~out[n], d > 0
      PROVE  SuspendedAt(n, d)
  BY <1>1, <1>5, <1>6, <1>8 DEF RoundAt, LaterAt
<1>9. ASSUME HasDepth, NEW n \in DOMAIN suspended, IsEndOf(d + 1), SuspendedAt(n, d + 1)
      PROVE  suspended[n] # none /\ suspended[n].counter = gMaxDepth
  <2>1. d + 1 \in Nat
    BY <1>1
  <2>2. Limit(d + 1) = gMaxDepth
    BY <1>9, <2>1, LimitAtEnd
  <2>3. QED
    BY <1>9, <2>2 DEF SuspendedAt
<1>10. AllAreDone'
  <2>1. SUFFICES ASSUME ended', HasDepth \/ gMaxDepth = Forever, NEW n \in DOMAIN suspended
                 PROVE  out[n] \/ (suspended[n] # none /\ suspended[n].counter = gMaxDepth)
    BY <1>3 DEF AllAreDone
  <2>2. CASE NobodyLeft(out)
    BY <1>1, <2>2 DEF NobodyLeft
  <2>3. CASE Turn(out, events)
    <3>1. IsEndOf(gCurrentDepth')
      BY <1>1, <2>1, <2>3 DEF Turn
    <3>2. HasDepth
      BY <2>1, <3>1 DEF IsEndOf
    <3>3. ~SameRound(out)
      BY <1>5, <3>1, <3>2 DEF SameRound, RoundAt
    <3>4. NextRound(out)
      BY <2>3, <3>3 DEF Turn
    <3>5. IsEndOf(d + 1) /\ (n > cur => out[n])
      BY <1>1, <3>1, <3>4 DEF NextRound
    <3>6. QED
      BY <1>1, <1>7, <1>9, <3>2, <3>5
  <2>4. QED
    BY <1>2, <2>2, <2>3
<1>11. ASSUME HasDepth, ~ended' PROVE RoundAt(gCurrentDepth)'
  <2> DEFINE c2 == gCurrentGremlin'
             d2 == gCurrentDepth'
  <2>1. /\ Turn(out, events) /\ ~IsEndOf(d2) /\ ~out[c2]
        /\ requests' = {IF d2 = 0 THEN "NextGremlinFromRootState"
                                  ELSE "NextGremlinFromSuspendState"}
    BY <1>1, <1>2, <1>11 DEF Turn, NobodyLeft, EndHordes
  <2>2. /\ c2 \in DOMAIN suspended /\ d2 \in Nat
        /\ \A n \in DOMAIN suspended : n < c2 /\ ~out[n] => SuspendedAt(n, d2 + 1)
        /\ d2 > 0 => \A n \in DOMAIN suspended : n >= c2 /\ ~out[n] => SuspendedAt(n, d2)
    <3>1. CASE SameRound(out)
      <4>1. /\ d2 = d /\ c2 \in cur + 1 .. gGremlinStopNumber
            /\ \A n \in DOMAIN suspended : n > cur /\ n < c2 => out[n]
        <5>1. d2 = d /\ c2 \in cur + 1 .. gGremlinStopNumber /\ cur \in Nat
          BY <1>1, <3>1 DEF SameRound
        <5>2. ASSUME NEW n \in DOMAIN suspended, n > cur, n < c2 PROVE out[n]
          <6>1. n \in cur + 1 .. c2 - 1
            BY <1>1, <5>1, <5>2
          <6>2. QED
            BY <3>1, <6>1 DEF SameRound
        <5>3. QED
          BY <5>1, <5>2
      <4> HIDE DEF c2, d2, cur, d
      <4>2. c2 \in DOMAIN suspended /\ c2 > cur /\ c2 \in Nat
        BY <1>1, <4>1 DEF RangeOK, cur
      <4>3. ASSUME NEW n \in DOMAIN suspended, ~out[n]
            PROVE  /\ n < c2 => SuspendedAt(n, d + 1)
                   /\ d > 0 /\ n >= c2 => SuspendedAt(n, d)
        <5>1. n \in Nat /\ cur \in Nat /\ (n < c2 => n <= cur) /\ (n >= c2 => n > cur)
          BY <1>1, <4>1, <4>2, <4>3 DEF cur
        <5>2. n < c2 => SuspendedAt(n, d + 1)
          BY <1>7, <1>11, <4>3, <5>1 DEF cur, d
        <5>3. d > 0 /\ n >= c2 => SuspendedAt(n, d)
          BY <1>8, <1>11, <4>3, <5>1 DEF cur, d
        <5>4. QED
          BY <5>2, <5>3
      <4>4. d \in Nat
        BY <1>1 DEF d
      <4>5. QED
        BY <4>1, <4>2, <4>3, <4>4
    <3>2. CASE NextRound(out)
      <4>1. /\ d2 = d + 1 /\ c2 \in gGremlinStartNumber .. cur
            /\ \A n \in DOMAIN suspended : n > cur \/ n < c2 => out[n]
        <5>1. d2 = d + 1 /\ c2 \in gGremlinStartNumber .. cur /\ cur \in Nat
          BY <1>1, <3>2 DEF NextRound
        <5>2. ASSUME NEW n \in DOMAIN suspended, n > cur PROVE out[n]
          <6>1. n \in cur + 1 .. gGremlinStopNumber
            BY <1>1, <5>1, <5>2 DEF RangeOK
          <6>2. QED
            BY <3>2, <6>1 DEF NextRound
        <5>3. ASSUME NEW n \in DOMAIN suspended, n < c2 PROVE out[n]
          <6>1. n \in gGremlinStartNumber .. c2 - 1
            BY <1>1, <5>1, <5>3 DEF RangeOK
          <6>2. QED
            BY <3>2, <6>1 DEF NextRound
        <5>4. QED
          BY <5>1, <5>2, <5>3
      <4> HIDE DEF c2, d2, cur, d
      <4>2. c2 \in DOMAIN suspended /\ c2 <= cur /\ c2 \in Nat
        BY <1>1, <4>1 DEF RangeOK, cur
      <4>3. ASSUME NEW n \in DOMAIN suspended, ~out[n]
            PROVE  ~ n < c2 /\ SuspendedAt(n, d + 1)
        <5>1. n \in Nat /\ cur \in Nat /\ ~ n < c2 /\ n <= cur
          BY <1>1, <4>1, <4>2, <4>3 DEF cur
        <5>2. QED
          BY <1>7, <1>11, <4>3, <5>1 DEF cur, d
      <4>4. d \in Nat
        BY <1>1 DEF d
      <4>5. QED
        BY <4>1, <4>2, <4>3, <4>4
    <3>3. QED
      BY <2>1, <3>1, <3>2 DEF Turn
  <2>3. \A n \in DOMAIN suspended : (SuspendedAt(n, gCurrentDepth))' = SuspendedAt(n, d2)
    BY <1>3 DEF SuspendedAt, Limit
  <2>4. \A n \in DOMAIN suspended : (SuspendedAt(n, gCurrentDepth + 1))' = SuspendedAt(n, d2 + 1)
    BY <1>3 DEF SuspendedAt, Limit
  <2>5. EarlierAt(gCurrentDepth)'
    BY <1>3, <2>2, <2>4 DEF EarlierAt
  <2>6. LaterAt(gCurrentDepth)'
    BY <1>1, <1>3, <2>2, <2>3 DEF LaterAt
  <2>7. d2 > 0 => (SuspendedAt(gCurrentGremlin, gCurrentDepth))'
    <3>1. d2 > 0 => SuspendedAt(c2, d2)
      BY <1>1, <2>1, <2>2
    <3>2. QED
      BY <1>3, <3>1 DEF SuspendedAt, Limit
  <2>8. CurrentAt(gCurrentDepth)'
    BY <2>7 DEF CurrentAt
  <2>9. AskedAt(gCurrentDepth)'
    BY <2>1, <2>2, <2>7 DEF AskedAt
  <2>10. ~IsEndOf(gCurrentDepth)'
    BY <1>3, <2>1 DEF IsEndOf
  <2>11. QED
    BY <1>1, <2>5, <2>6, <2>8, <2>9, <2>10 DEF RoundAt
<1>12. QED
  BY <1>3, <1>4, <1>10, <1>11 DEF InTurn

(* The events bring the Gremlin to its limit, and past it.                 *)
LEMMA EventsCount ==
  ASSUME Orderly, Recorded, InTurn, DepthsOK, Running,
         PostFakeEvent \/ PostFakePenEvent
  PROVE  InTurn'
<1> DEFINE d == gCurrentDepth
           cur == gCurrentGremlin
           n == gremlin.counter
           u == gremlin.until
<1>1. /\ gIsOn /\ requests = {} /\ ~ended /\ d \in Nat /\ n \in Nat
      /\ UNCHANGED <<range, place, halted, gIsOn, suspended, ended>>
      /\ gremlin' = [gremlin EXCEPT !.counter = @ + 1] /\ BumpCounter
  BY DEF PostFakeEvent, PostFakePenEvent, Post, Running, InTurn, EndedQuiet, files,
         Recorded, CountsOK
<1>2. gremlin'.counter = n + 1 /\ gremlin'.until = u
  BY <1>1 DEF Orderly, GremlinOK
<1>3. requests' = IF u > 0 /\ n + 1 = u THEN {"SaveSuspendedState"} ELSE {}
  BY <1>1, <1>2 DEF BumpCounter
<1>4. /\ UNCHANGED <<suspended, halted, gCurrentGremlin, gCurrentDepth, gMaxDepth, gSwitchDepth,
                     HasDepth, ended, gIsOn>>
  BY <1>1, SameDepths DEF place
<1>5. requests' \cap Nexts = {}
  BY <1>3 DEF Nexts
<1>6. EndedQuiet' /\ AllAreDone'
  BY <1>1, <1>4 DEF EndedQuiet, AllAreDone
<1>7. ASSUME HasDepth PROVE RoundAt(gCurrentDepth)'
  <2>1. RoundAt(d) /\ RunsTo(d)
    BY <1>1, <1>7 DEF InTurn, RoundAt
  <2>2. u \in Nat /\ u > 0 /\ u = Limit(d + 1)
    <3>1. Limit(d) \in Nat /\ Limit(d + 1) \in Nat /\ Limit(d) < Limit(d + 1)
      BY <1>1, <1>7, <2>1, LimitGrows DEF RoundAt
    <3>2. QED
      BY <2>1, <3>1 DEF RunsTo
  <2>3. EarlierAt(gCurrentDepth)' /\ LaterAt(gCurrentDepth)' /\ CurrentAt(gCurrentDepth)'
        /\ ~IsEndOf(gCurrentDepth)'
    BY <1>4, <2>1 DEF RoundAt, EarlierAt, LaterAt, CurrentAt, IsEndOf, SuspendedAt, Limit
  <2>4. AskedAt(gCurrentDepth)'
    BY <1>3 DEF AskedAt
  <2>5. /\ (SuspendedAt(gCurrentGremlin, gCurrentDepth))' = SuspendedAt(cur, d)
        /\ (SuspendedAt(gCurrentGremlin, gCurrentDepth + 1))' = SuspendedAt(cur, d + 1)
        /\ (Limit(gCurrentDepth + 1))' = Limit(d + 1)
    BY <1>4 DEF SuspendedAt, Limit
  <2>6. /\ n < u /\ d > 0 => SuspendedAt(cur, d)
        /\ n >= u => SuspendedAt(cur, d + 1)
    BY <1>1, <2>1, <2>2 DEF RunsTo
  <2> HIDE DEF d, cur, n, u
  <2>7. RunsTo(gCurrentDepth)'
    <3>1. CASE n + 1 < u
      <4>1. requests' = {} /\ n < u /\ ~ n + 1 = u /\ ~ n + 1 > u
        BY <1>1, <1>3, <2>2, <3>1
      <4>2. QED
        BY <1>2, <1>4, <2>2, <2>5, <2>6, <4>1 DEF RunsTo, d
    <3>2. CASE n + 1 = u
      <4>1. "SaveSuspendedState" \in requests' /\ ~ n + 1 < u /\ ~ n + 1 > u
        BY <1>1, <1>3, <2>2, <3>2
      <4>2. QED
        BY <1>2, <2>2, <2>5, <4>1 DEF RunsTo
    <3>3. CASE n >= u
      <4>1. requests' = {} /\ ~ n + 1 < u /\ ~ n + 1 = u
        BY <1>1, <1>3, <2>2, <3>3
      <4>2. QED
        BY <1>2, <2>2, <2>5, <2>6, <3>3, <4>1 DEF RunsTo
    <3>4. QED
      BY <1>1, <2>2, <3>1, <3>2, <3>3
  <2>8. QED
    BY <2>3, <2>4, <2>7 DEF RoundAt
<1>8. QED
  BY <1>1, <1>4, <1>6, <1>7 DEF InTurn

(* What changes nothing of this, or stops the horde, keeps it.             *)
LEMMA TurnStands ==
  ASSUME InTurn, UNCHANGED <<range, place, halted, suspended, ended>>,
         requests' \in {{}, requests},
         ~gIsOn' \/ UNCHANGED <<gIsOn, gremlin, requests>>
  PROVE  InTurn'
<1>1. UNCHANGED <<gCurrentGremlin, gCurrentDepth, gMaxDepth, gSwitchDepth, HasDepth>>
  BY SameDepths DEF place
<1>2. EndedQuiet' /\ AllAreDone'
  BY <1>1 DEF InTurn, EndedQuiet, AllAreDone
<1>3. ASSUME HasDepth, ~ended PROVE RoundAt(gCurrentDepth)'
  <2>1. RoundAt(gCurrentDepth)
    BY <1>3 DEF InTurn
  <2>2. EarlierAt(gCurrentDepth)' /\ LaterAt(gCurrentDepth)' /\ CurrentAt(gCurrentDepth)'
        /\ ~IsEndOf(gCurrentDepth)'
    BY <1>1, <2>1 DEF RoundAt, EarlierAt, LaterAt, CurrentAt, IsEndOf, SuspendedAt, Limit
  <2>3. AskedAt(gCurrentDepth)'
    BY <1>1, <2>1 DEF RoundAt, AskedAt, SuspendedAt, Limit
  <2>4. gIsOn' => RunsTo(gCurrentDepth)'
    BY <1>1, <2>1 DEF RoundAt, RunsTo, SuspendedAt, Limit
  <2>5. QED
    BY <2>2, <2>3, <2>4 DEF RoundAt
<1>4. QED
  BY <1>1, <1>2, <1>3 DEF InTurn

(* A Gremlin that starts, or goes on, runs to the end of the round.        *)
LEMMA GremlinGoesOn ==
  ASSUME InTurn, DepthsOK, gCurrentDepth \in Nat, ~ended,
         UNCHANGED <<range, place, halted, suspended, ended>>, requests' = {},
         HasDepth =>
           /\ gremlin'.counter = Limit(gCurrentDepth)
           /\ gremlin'.until = Limit(gCurrentDepth + 1)
           /\ gCurrentDepth > 0 => SuspendedAt(gCurrentGremlin, gCurrentDepth)
  PROVE  InTurn'
<1> DEFINE d == gCurrentDepth
           cur == gCurrentGremlin
<1>1. UNCHANGED <<gCurrentGremlin, gCurrentDepth, gMaxDepth, gSwitchDepth, HasDepth>>
  BY SameDepths DEF place
<1>2. EndedQuiet' /\ AllAreDone'
  BY DEF EndedQuiet, AllAreDone
<1>3. ASSUME HasDepth PROVE RoundAt(gCurrentDepth)'
  <2>1. RoundAt(d)
    BY <1>3 DEF InTurn
  <2>2. EarlierAt(gCurrentDepth)' /\ LaterAt(gCurrentDepth)' /\ CurrentAt(gCurrentDepth)'
        /\ ~IsEndOf(gCurrentDepth)'
    BY <1>1, <2>1 DEF RoundAt, EarlierAt, LaterAt, CurrentAt, IsEndOf, SuspendedAt, Limit
  <2>3. Limit(d) \in Nat /\ Limit(d + 1) \in Nat /\ Limit(d) < Limit(d + 1)
    BY <1>3, <2>1, LimitGrows DEF RoundAt
  <2>4. /\ (SuspendedAt(gCurrentGremlin, gCurrentDepth))' = SuspendedAt(cur, d)
        /\ (Limit(gCurrentDepth + 1))' = Limit(d + 1)
    BY <1>1 DEF SuspendedAt, Limit
  <2>5. RunsTo(gCurrentDepth)'
    BY <1>1, <1>3, <2>3, <2>4 DEF RunsTo
  <2>6. QED
    BY <2>2, <2>5 DEF RoundAt, AskedAt
<1>4. QED
  BY <1>1, <1>2, <1>3 DEF InTurn

(* The state that is saved is the one at the end of the round.             *)
LEMMA StateIsSaved ==
  ASSUME Orderly, Recorded, InTurn, DepthsOK, AtMostOne, SaveSuspendedState, UNCHANGED range
  PROVE  InTurn'
<1> DEFINE d == gCurrentDepth
           cur == gCurrentGremlin
<1>1. /\ gIsOn /\ ~ended /\ "SaveSuspendedState" \in requests /\ requests' = {}
      /\ cur \in DOMAIN suspended /\ cur \in Nat /\ d \in Nat
      /\ \A n \in DOMAIN suspended : n \in Nat
      /\ gremlin.number = cur /\ gremlin.counter \in Nat
      /\ suspended' = [suspended EXCEPT ![gCurrentGremlin] = Snapshot]
      /\ UNCHANGED <<place, halted, gIsOn, gremlin, ended>>
  BY DEF SaveSuspendedState, Handle, AtMostOne, Orderly, SavedWhileOn, RunnerIsCurrent, RangeOK,
         InTurn, EndedQuiet, Recorded, CountsOK, device
<1>2. UNCHANGED <<gCurrentGremlin, gCurrentDepth, gMaxDepth, gSwitchDepth, HasDepth>>
  BY <1>1, SameDepths DEF place
<1>3. /\ DOMAIN suspended' = DOMAIN suspended
      /\ \A n \in DOMAIN suspended : n # cur => suspended'[n] = suspended[n]
      /\ suspended'[cur] = Snapshot
  BY <1>1
<1>4. Snapshot # none /\ Snapshot.number = cur /\ Snapshot.counter = gremlin.counter
  <2>1. Snapshot.number = cur /\ Snapshot.counter = gremlin.counter
    BY <1>1 DEF Snapshot
  <2>2. none.number = -1
    BY DEF none
  <2>3. QED
    BY <1>1, <2>1, <2>2
<1>5. EndedQuiet' /\ AllAreDone'
  BY <1>1 DEF EndedQuiet, AllAreDone
<1>6. ASSUME HasDepth PROVE RoundAt(gCurrentDepth)'
  <2>1. RoundAt(d) /\ RunsTo(d)
    BY <1>1, <1>6 DEF InTurn, RoundAt
  <2>2. Limit(d) \in Nat /\ Limit(d + 1) \in Nat
    BY <1>1, <1>6, <2>1, LimitGrows DEF RoundAt
  <2>3. gremlin.counter = gremlin.until /\ gremlin.until = Limit(d + 1)
    BY <1>1, <2>1, <2>2 DEF RunsTo
  <2>4. (SuspendedAt(gCurrentGremlin, gCurrentDepth + 1))'
    BY <1>2, <1>3, <1>4, <2>3 DEF SuspendedAt, Limit
  <2>5. ASSUME NEW n \in DOMAIN suspended, n # cur
        PROVE  /\ (SuspendedAt(n, gCurrentDepth))' = SuspendedAt(n, d)
               /\ (SuspendedAt(n, gCurrentDepth + 1))' = SuspendedAt(n, d + 1)
    BY <1>2, <1>3, <2>5 DEF SuspendedAt, Limit
  <2>6. EarlierAt(gCurrentDepth)'
    BY <1>1, <1>2, <1>3, <2>1, <2>5 DEF RoundAt, EarlierAt
  <2>7. LaterAt(gCurrentDepth)'
    BY <1>1, <1>2, <1>3, <2>1, <2>5 DEF RoundAt, LaterAt
  <2>8. CurrentAt(gCurrentDepth)' /\ AskedAt(gCurrentDepth)' /\ ~IsEndOf(gCurrentDepth)'
    BY <1>1, <1>2, <2>1, <2>4 DEF RoundAt, CurrentAt, AskedAt, IsEndOf
  <2>9. (Limit(gCurrentDepth + 1))' = Limit(d + 1)
    BY <1>2 DEF Limit
  <2>10. RunsTo(gCurrentDepth)'
    BY <1>1, <2>2, <2>3, <2>4, <2>9 DEF RunsTo
  <2>11. QED
    BY <2>6, <2>7, <2>8, <2>10 DEF RoundAt
<1>7. QED
  BY <1>1, <1>2, <1>5, <1>6 DEF InTurn

LEMMA TurnStep ==
  ASSUME DepthsAreMeant
  PROVE  HordeInv /\ EventInv /\ TurnInv /\ [Next]_vars => TurnInv'
<1> SUFFICES ASSUME HordeInv, EventInv, TurnInv, [Next]_vars, Undisturbed' PROVE InTurn'
  BY DEF TurnInv
<1>1. /\ Undisturbed /\ Orderly /\ Recorded /\ AtMostOne /\ InTurn
      /\ UNCHANGED range /\ gCurrentDepth \in Nat
  BY UndisturbedBefore DEF HordeInv, EventInv, TurnInv, Recorded, CountsOK
<1>2. DepthsOK
  BY <1>1, DepthsAreNumbers DEF Recorded, RangeIsInfo
<1>3. CASE StopEventReached
  <2>1. Running /\ AtLimit /\ NextGremlin(halted, recorded) /\ UNCHANGED <<halted, gremlin, suspended>>
    BY <1>3 DEF StopEventReached, device
  <2>2. QED
    BY <1>1, <1>2, <2>1, TurnPasses
<1>4. CASE ErrorEncountered
  <2> DEFINE out == [halted EXCEPT ![gCurrentGremlin] = TRUE]
  <2>1. Running /\ halted' = out /\ UNCHANGED <<gremlin, suspended>>
        /\ NextGremlin(halted', Append(recorded, error))
    BY <1>4 DEF ErrorEncountered, device
  <2>2. NextGremlin(out, Append(recorded, error))
    BY <2>1
  <2>3. out[gCurrentGremlin]
    BY <1>1 DEF Orderly, RangeOK
  <2> HIDE DEF out
  <2>4. out \in {halted, [halted EXCEPT ![gCurrentGremlin] = TRUE]}
    BY DEF out
  <2>5. QED
    BY <1>1, <1>2, <2>1, <2>2, <2>3, <2>4, TurnPasses
<1>5. CASE PostFakeEvent \/ PostFakePenEvent
  <2>1. Running
    BY <1>5 DEF PostFakeEvent, PostFakePenEvent
  <2>2. QED
    BY <1>1, <1>2, <1>5, <2>1, EventsCount
<1>6. ASSUME NEW reset \in BOOLEAN, DebugOrReset(reset) PROVE InTurn'
  <2>1. UNCHANGED <<place, halted, suspended, ended, requests>> /\ ~gIsOn'
    BY <1>6 DEF DebugOrReset
  <2>2. QED
    BY <1>1, <2>1, TurnStands
<1>7. CASE SaveSuspendedState
  BY <1>1, <1>2, <1>7, StateIsSaved
<1>8. CASE LoadRootState \/ LoadFails \/ Stop
  <2>1. UNCHANGED <<place, halted, suspended, ended>> /\ ~gIsOn' /\ requests' \in {{}, requests}
    BY <1>1, <1>8 DEF LoadRootState, LoadFails, Stop, Handle, AtMostOne, files
  <2>2. QED
    BY <1>1, <2>1, TurnStands
<1>9. CASE NextGremlinFromRootState
  <2>1. /\ "NextGremlinFromRootState" \in requests /\ requests' = {}
        /\ gremlin' = NewGremlin(gCurrentGremlin)
        /\ UNCHANGED <<place, halted, suspended, ended>>
    BY <1>1, <1>9 DEF NextGremlinFromRootState, Handle, AtMostOne, files
  <2>2. ~ended
    BY <1>1, <2>1 DEF InTurn, EndedQuiet, Nexts
  <2>3. gremlin'.counter = 0 /\ gremlin'.until = Steps
    BY <2>1 DEF NewGremlin
  <2>4. ASSUME HasDepth
        PROVE  gCurrentDepth = 0 /\ Limit(gCurrentDepth) = 0 /\ Limit(gCurrentDepth + 1) = Steps
    <3>1. gCurrentDepth = 0
      BY <1>1, <2>1, <2>2, <2>4 DEF InTurn, RoundAt, AskedAt
    <3>2. Limit(0) = 0
      BY <1>2, <2>4, NoEndAtFirst
    <3>3. gSwitchDepth * 1 = gSwitchDepth
      BY <1>2 DEF DepthsOK, Forever
    <3>4. Limit(1) = Steps
      BY <3>3 DEF Limit, Steps
    <3>5. QED
      BY <3>1, <3>2, <3>4
  <2>5. QED
    BY <1>1, <1>2, <2>1, <2>2, <2>3, <2>4, GremlinGoesOn
<1>10. CASE NextGremlinFromSuspendState
  <2> DEFINE file == suspended[gCurrentGremlin]
  <2>1. /\ "NextGremlinFromSuspendState" \in requests /\ requests' = {}
        /\ gremlin' = [Loaded(file) EXCEPT !.until = NextUntil]
        /\ UNCHANGED <<place, halted, suspended, ended>>
    BY <1>1, <1>10 DEF NextGremlinFromSuspendState, Handle, AtMostOne, files
  <2>2. ~ended
    BY <1>1, <2>1 DEF InTurn, EndedQuiet, Nexts
  <2>3. gremlin'.counter = file.counter /\ gremlin'.until = NextUntil
    BY <2>1 DEF Loaded
  <2>4. NextUntil = Limit(gCurrentDepth + 1)
    BY DEF NextUntil, Limit
  <2>5. HasDepth => SuspendedAt(gCurrentGremlin, gCurrentDepth)
    BY <1>1, <2>1, <2>2 DEF InTurn, RoundAt, AskedAt
  <2>6. HasDepth => file.counter = Limit(gCurrentDepth)
    BY <2>5 DEF SuspendedAt
  <2>7. QED
    BY <1>1, <1>2, <2>1, <2>2, <2>3, <2>4, <2>5, <2>6, GremlinGoesOn
<1>11. CASE UNCHANGED vars
  <2>1. UNCHANGED <<place, halted, suspended, ended, gIsOn, gremlin, requests>>
    BY <1>11 DEF vars, device, files
  <2>2. QED
    BY <1>1, <2>1, TurnStands
<1>12. ~(Step \/ Resume)
  BY <1>1 DEF Step, Resume, GoOn, HordeInv, Undisturbed
<1> QED
  BY <1>3, <1>4, <1>5, <1>6, <1>7, <1>8, <1>9, <1>10, <1>11, <1>12 DEF Next, EndOfCycle

LEMMA TurnInit ==
  ASSUME DepthsAreMeant
  PROVE  Init => TurnInv
<1> SUFFICES ASSUME Init PROVE InTurn
  BY DEF TurnInv
<1>1. DepthsOK
  BY DepthsAreNumbers DEF Init
<1>2. requests = {} /\ ~ended /\ gCurrentDepth = 0 /\ gremlin.counter = 0 /\ gremlin.until = Steps
      /\ gCurrentGremlin = info.start /\ DOMAIN suspended = info.start .. info.stop
  BY DEF Init, NewGremlin
<1>3. ASSUME HasDepth PROVE RoundAt(0)
  <2>1. ~IsEndOf(0) /\ Limit(0) = 0
    BY <1>1, <1>3, NoEndAtFirst
  <2>2. Limit(0 + 1) \in Nat /\ Limit(0) < Limit(0 + 1)
    BY <1>1, <1>3, <2>1, LimitGrows
  <2>3. gSwitchDepth * 1 = gSwitchDepth
    BY <1>1 DEF DepthsOK, Forever
  <2>4. Limit(0 + 1) = Steps
    BY <2>3 DEF Limit, Steps
  <2>5. EarlierAt(0)
    BY <1>2, InfosAssumption DEF Init, EarlierAt
  <2>6. RunsTo(0)
    BY <1>2, <2>1, <2>2, <2>4 DEF RunsTo
  <2>7. QED
    BY <1>2, <2>1, <2>5, <2>6 DEF RoundAt, LaterAt, CurrentAt, AskedAt
<1>4. QED
  BY <1>2, <1>3 DEF InTurn, EndedQuiet, AllAreDone

LEMMA TurnInvariant ==
  ASSUME DepthsAreMeant
  PROVE  Spec => []TurnInv
BY HordeInvariant, EventInvariant, TurnInit, TurnStep, PTL DEF Spec

(* While the user lets the horde run, the Gremlins take turns: those who   *)
(* had theirs in this round were suspended at its limit, and those who     *)
(* wait for it at the last round's, unless they halted; each that goes on  *)
(* finds its file.                                                         *)
THEOREM GremlinsTakeTurns ==
  ASSUME DepthsAreMeant
  PROVE  Spec => []SuspendedInStep
<1>1. HordeInv /\ EventInv /\ TurnInv => SuspendedInStep
  <2> SUFFICES ASSUME HordeInv, EventInv, TurnInv, Undisturbed, HasDepth, ~ended,
                      NEW n \in Gremlins, ~halted[n]
               PROVE  /\ n < gCurrentGremlin => SuspendedAt(n, gCurrentDepth + 1)
                      /\ n > gCurrentGremlin /\ gCurrentDepth > 0 => SuspendedAt(n, gCurrentDepth)
                      /\ n = gCurrentGremlin /\ gCurrentDepth > 0 =>
                           SuspendedAt(n, gCurrentDepth) \/ SuspendedAt(n, gCurrentDepth + 1)
    BY DEF SuspendedInStep
  <2>1. RoundAt(gCurrentDepth) /\ n \in DOMAIN suspended
    BY DEF EventInv, TurnInv, HordeInv, InTurn, Recorded, RangeIsInfo, Orderly, RangeOK, Gremlins
  <2>2. QED
    BY <2>1 DEF RoundAt, EarlierAt, LaterAt, CurrentAt
<1> QED BY <1>1, HordeInvariant, EventInvariant, TurnInvariant, PTL

(* While the user lets the horde run, it ends only when each Gremlin has   *)
(* halted, or has been suspended at the last depth.                        *)
THEOREM HordeIsDone ==
  ASSUME DepthsAreMeant
  PROVE  Spec => []EndsWhenDone
<1>1. HordeInv /\ EventInv /\ TurnInv => EndsWhenDone
  BY DEF EndsWhenDone, EventInv, TurnInv, HordeInv, InTurn, AllAreDone, Recorded, RangeIsInfo,
         Orderly, RangeOK, Gremlins
<1> QED BY <1>1, HordeInvariant, EventInvariant, TurnInvariant, PTL
=============================================================================
