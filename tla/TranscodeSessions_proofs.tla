----------------------- MODULE TranscodeSessions_proofs -----------------------
(***************************************************************************)
(* Theorems about TranscodeSessions for every value of its constants.      *)
(***************************************************************************)
EXTENDS TranscodeSessions, FiniteSetTheorems, TLAPS

-----------------------------------------------------------------------------
(* What the operators on sessions return *)

LEMMA CapType == Cap \in Nat /\ Cap >= 1
  BY BoundsAssumption DEF Cap

LEMMA WithoutDomain ==
  ASSUME NEW f, NEW S
  PROVE  /\ DOMAIN Without(f, S) = DOMAIN f \ S
         /\ \A x \in DOMAIN f \ S : Without(f, S)[x] = f[x]
  BY DEF Without, Restrict

LEMMA PolledType ==
  ASSUME TypeOK, NEW id \in Live
  PROVE  Polled(id) \in {"none", "ok", "failed"}
  BY DEF TypeOK, Polled, TryWait, Session

\* Polling changes nothing of a session but `exited`.
LEMMA LatchedFields ==
  ASSUME TypeOK, NEW S, NEW id \in Live
  PROVE  /\ DOMAIN Latched(S) = Live
         /\ Latched(S)[id] \in Session
         /\ Latched(S)[id].key = sessions[id].key
         /\ Latched(S)[id].idle = sessions[id].idle
         /\ Latched(S)[id].age = sessions[id].age
         /\ Latched(S)[id].consumed = sessions[id].consumed
         /\ Latched(S)[id].from = sessions[id].from
         /\ Latched(S)[id].exited \in {sessions[id].exited, Polled(id)}
  BY PolledType DEF Latched, TypeOK, Session, Live

LEMMA KeptFields ==
  ASSUME TypeOK, NEW k, NEW V, NEW passed
  PROVE  /\ Kept(k, V, passed) \in [Live \ V -> Session]
         /\ DOMAIN Kept(k, V, passed) = Live \ V
         /\ \A id \in Live \ V :
               Kept(k, V, passed)[id] = Latched(Matching(k) \cup passed)[id]
  <1> DEFINE L == Latched(Matching(k) \cup passed)
  <1>1. DOMAIN L = Live
    BY DEF Latched
  <1>2. Kept(k, V, passed) = [id \in Live \ V |-> L[id]]
    BY <1>1 DEF Kept, Without, Restrict
  <1>3. \A id \in Live : L[id] \in Session
    BY LatchedFields
  <1> HIDE DEF L
  <1>4. [id \in Live \ V |-> L[id]] \in [Live \ V -> Session]
    BY <1>3
  <1> QED
    BY <1>2, <1>4 DEF L

LEMMA NewSessionType ==
  ASSUME NEW k \in Key
  PROVE  NewSession(k) \in Session
  BY BoundsAssumption DEF NewSession, Session, Segment

LEMMA ClientStates ==
  /\ Idle \in ClientState
  /\ Refused \in ClientState
  /\ \A id \in SessionId : Holding(id) \in ClientState
  /\ \A id \in SessionId, g \in Segment : Waiting(id, g) \in ClientState
  <1>1. 0 \in Segment /\ 0 \in Nat
    BY BoundsAssumption DEF Segment
  <1>2. Idle \in ClientState
    BY <1>1 DEF Idle, ClientState
  <1>3. Refused \in ClientState
    BY <1>1 DEF Idle, Refused, ClientState
  <1>4. \A id \in SessionId : Holding(id) \in ClientState
    BY <1>1 DEF Idle, Holding, ClientState
  <1>5. \A id \in SessionId, g \in Segment : Waiting(id, g) \in ClientState
    BY <1>1 DEF Waiting, ClientState
  <1> QED
    BY <1>2, <1>3, <1>4, <1>5

LEMMA TeardownType ==
  ASSUME TypeOK, NEW S
  PROVE  /\ ProcAfterTeardown(S) \in [SessionId -> ProcState]
         /\ SegsAfterTeardown(S) \in [SessionId -> SUBSET Segment]
         /\ DirsAfterTeardown(S) \subseteq SessionId
  BY DEF TypeOK, ProcAfterTeardown, SegsAfterTeardown, DirsAfterTeardown, ProcState

LEMMA LeavesBehindType ==
  ASSUME TypeOK, NEW failed \in SUBSET SessionId, LeavesBehind(failed)
  PROVE  faults' \in 0 .. MaxFaults /\ left' \subseteq SessionId
  BY BoundsAssumption DEF TypeOK, LeavesBehind

-----------------------------------------------------------------------------
(* Type correctness *)

LEMMA TypeInit == Init => TypeOK
  BY BoundsAssumption, TimeoutAssumption, ClientStates
     DEF Init, TypeOK, Live, ProcState, Segment

LEMMA TypeStep == TypeOK /\ [Next]_vars => TypeOK'
  <1> SUFFICES ASSUME TypeOK, [Next]_vars PROVE TypeOK'
    OBVIOUS
  <1> USE DEF Live
  <1>1. ASSUME NEW c \in Client, NEW k \in Key, StartReuse(c, k) PROVE TypeOK'
    <2>1. PICK id \in Matching(k) \ Dead, skipped \in SUBSET (Matching(k) \cap Dead) :
             /\ sessions' = [Latched(skipped \cup {id}) EXCEPT ![id].idle = 0]
             /\ client' = [client EXCEPT ![c] = Holding(id)]
      BY <1>1 DEF StartReuse
    <2>2. id \in Live /\ id \in SessionId
      BY DEF Matching, TypeOK
    <2>3. sessions' \in [Live -> Session] /\ DOMAIN sessions' = Live
      <3>1. Latched(skipped \cup {id}) \in [Live -> Session]
        BY LatchedFields DEF Latched
      <3>2. QED
        BY <2>1, <2>2, <3>1 DEF Session
    <2>4. client' \in [Client -> ClientState]
      BY <2>1, <2>2, ClientStates DEF TypeOK
    <2> QED
      BY <1>1, <2>3, <2>4 DEF TypeOK, StartReuse
  <1>2. ASSUME NEW c \in Client, NEW k \in Key, StartRefused(c, k) PROVE TypeOK'
    <2>1. sessions' \in [Live -> Session] /\ DOMAIN sessions' = Live
      BY <1>2, LatchedFields DEF StartRefused, Latched
    <2> QED
      BY <1>2, <2>1, ClientStates DEF TypeOK, StartRefused
  <1>3. ASSUME NEW c \in Client, NEW k \in Key, StartNew(c, k) PROVE TypeOK'
    <2>1. PICK V \in Victims, passed \in SUBSET Scanned, id \in Unused :
             /\ sessions' = [j \in DOMAIN Kept(k, V, passed) \cup {id} |->
                               IF j = id THEN NewSession(k) ELSE Kept(k, V, passed)[j]]
             /\ proc' = [ProcAfterTeardown(V) EXCEPT ![id] = "running"]
             /\ next' = [next EXCEPT ![id] = 0]
             /\ segs' = SegsAfterTeardown(V)
             /\ client' = [client EXCEPT ![c] = Holding(id)]
             /\ \E failed \in SUBSET V :
                   dirs' = DirsAfterTeardown(V \ failed) \cup {id} /\ LeavesBehind(failed)
      BY <1>3, ZenonT(60) DEF StartNew
    <2>2. id \in SessionId
      BY DEF Unused
    <2>3. DOMAIN sessions' = (Live \ V) \cup {id}
      BY <2>1, KeptFields
    <2>4. sessions' \in [DOMAIN sessions' -> Session]
      <3> DEFINE K == Kept(k, V, passed)
      <3>1. K \in [Live \ V -> Session] /\ DOMAIN K = Live \ V
        BY KeptFields
      <3>2. NewSession(k) \in Session
        BY NewSessionType
      <3>3. sessions' = [j \in DOMAIN K \cup {id} |->
                           IF j = id THEN NewSession(k) ELSE K[j]]
        BY <2>1
      <3> HIDE DEF K
      <3>4. \A j \in DOMAIN K \cup {id} :
               (IF j = id THEN NewSession(k) ELSE K[j]) \in Session
        BY <3>1, <3>2
      <3> QED
        BY <3>3, <3>4
    <2>5. DOMAIN sessions' \subseteq SessionId
      BY <2>2, <2>3 DEF TypeOK
    <2>6. client' \in [Client -> ClientState]
      BY <2>1, <2>2, ClientStates DEF TypeOK
    <2>7. next' \in [SessionId -> 0 .. (LastSegment + 1)]
      <3>1. 0 \in 0 .. (LastSegment + 1)
        BY BoundsAssumption
      <3> QED
        BY <2>1, <3>1 DEF TypeOK
    <2>8. proc' \in [SessionId -> ProcState] /\ segs' \in [SessionId -> SUBSET Segment]
      BY <2>1, <2>2, TeardownType DEF ProcState
    <2>9. faults' \in 0 .. MaxFaults /\ left' \subseteq SessionId /\ dirs' \subseteq SessionId
      <3>1. PICK failed \in SUBSET V :
               dirs' = DirsAfterTeardown(V \ failed) \cup {id} /\ LeavesBehind(failed)
        BY <2>1
      <3>2. failed \subseteq SessionId
        BY DEF Victims, Dead, TypeOK
      <3> QED
        BY <2>2, <3>1, <3>2, LeavesBehindType, TeardownType
    <2> QED
      BY <1>3, <2>4, <2>5, <2>6, <2>7, <2>8, <2>9 DEF TypeOK, StartNew
  <1>4. ASSUME NEW c \in Client, NEW k \in Key, StartFails(c, k) PROVE TypeOK'
    <2>1. PICK V \in Victims, passed \in SUBSET Scanned, id \in Unused :
             /\ sessions' = Kept(k, V, passed)
             /\ proc' = ProcAfterTeardown(V)
             /\ segs' = SegsAfterTeardown(V)
             /\ \E failed \in SUBSET V, made \in {{}, {id}} :
                   /\ dirs' = DirsAfterTeardown(V \ failed) \cup made
                   /\ left' = left \cup failed \cup made
      BY <1>4, ZenonT(60) DEF StartFails
    <2>2. id \in SessionId
      BY DEF Unused
    <2>3. DOMAIN sessions' = Live \ V /\ sessions' \in [DOMAIN sessions' -> Session]
      BY <2>1, KeptFields
    <2>4. faults' \in 0 .. MaxFaults
      BY <1>4, BoundsAssumption DEF StartFails, TypeOK
    <2>5. client' \in [Client -> ClientState]
      BY <1>4, ClientStates DEF StartFails, TypeOK
    <2>6. dirs' \subseteq SessionId /\ left' \subseteq SessionId
      <3>1. PICK failed \in SUBSET V, made \in {{}, {id}} :
               dirs' = DirsAfterTeardown(V \ failed) \cup made /\ left' = left \cup failed \cup made
        BY <2>1, Zenon
      <3>2. failed \subseteq SessionId /\ made \subseteq SessionId
        BY <2>2 DEF Victims, Dead, TypeOK
      <3> QED
        BY <3>1, <3>2, TeardownType DEF TypeOK
    <2> QED
      BY <1>4, <2>1, <2>3, <2>4, <2>5, <2>6, TeardownType DEF TypeOK, StartFails
  <1>5. ASSUME NEW c \in Client,
               RequestUnknown(c) \/ WaitEnds(c) \/ Leave(c)
        PROVE  TypeOK'
    <2>1. client' \in [Client -> ClientState]
      <3>1. client[c].sid \in SessionId => Holding(client[c].sid) \in ClientState
        BY ClientStates
      <3>2. WaitEnds(c) => Holding(client[c].sid) \in ClientState
        BY ClientStates, BoundsAssumption
           DEF WaitEnds, Holding, Idle, ClientState, TypeOK, Segment
      <3> QED
        BY <1>5, <3>2, ClientStates DEF RequestUnknown, WaitEnds, Leave, TypeOK
    <2> QED
      BY <1>5, <2>1 DEF TypeOK, RequestUnknown, WaitEnds, Leave
  <1>6. ASSUME NEW c \in Client, RequestFile(c) PROVE TypeOK'
    BY <1>6, ZenonT(60) DEF RequestFile, Touched, TypeOK, Session
  <1>7. ASSUME NEW c \in Client, NEW g \in Segment, SegmentOnDisk(c, g) PROVE TypeOK'
    BY <1>7, ZenonT(60) DEF SegmentOnDisk, Touched, TypeOK, Session
  <1>8. ASSUME NEW c \in Client, NEW g \in Segment, SegmentAwaited(c, g) PROVE TypeOK'
    <2>1. client' \in [Client -> ClientState]
      BY <1>8, ClientStates DEF SegmentAwaited, TypeOK
    <2>2. sessions' \in [Live -> Session] /\ DOMAIN sessions' = Live
      BY <1>8, ZenonT(60) DEF SegmentAwaited, Touched, TypeOK, Session
    <2> QED
      BY <1>8, <2>1, <2>2 DEF SegmentAwaited, TypeOK
  <1>9. ASSUME NEW c \in Client, NEW g \in Segment, SegmentRestarts(c, g) PROVE TypeOK'
    <2>1. client' \in [Client -> ClientState]
      BY <1>9, ClientStates DEF SegmentRestarts, TypeOK
    <2>2. sessions' \in [Live -> Session] /\ DOMAIN sessions' = Live
      BY <1>9, ZenonT(60) DEF SegmentRestarts, Restarted, Touched, TypeOK, Session
    <2>3. next' \in [SessionId -> 0 .. (LastSegment + 1)]
      BY <1>9, BoundsAssumption DEF SegmentRestarts, TypeOK, Segment
    <2>4. proc' \in [SessionId -> ProcState]
      BY <1>9 DEF SegmentRestarts, TypeOK, ProcState
    <2> QED
      BY <1>9, <2>1, <2>2, <2>3, <2>4 DEF SegmentRestarts, TypeOK
  <1>10. ASSUME NEW c \in Client, NEW g \in Segment, SegmentSpawnFails(c, g) PROVE TypeOK'
    <2>1. sessions' \in [Live -> Session] /\ DOMAIN sessions' = Live
      BY <1>10, PolledType, ZenonT(60) DEF SegmentSpawnFails, Touched, TypeOK, Session
    <2>2. proc' \in [SessionId -> ProcState]
      BY <1>10 DEF SegmentSpawnFails, TypeOK, ProcState
    <2>3. faults' \in 0 .. MaxFaults
      BY <1>10, BoundsAssumption DEF SegmentSpawnFails, TypeOK
    <2> QED
      BY <1>10, <2>1, <2>2, <2>3 DEF SegmentSpawnFails, TypeOK
  <1>11. ASSUME NEW c \in Client, Stop(c) PROVE TypeOK'
    <2> DEFINE S == {client[c].sid} \cap Live
    <2>1. sessions' \in [Live \ S -> Session] /\ DOMAIN sessions' = Live \ S
      BY <1>11 DEF Stop, Without, Restrict, TypeOK
    <2>2. client' \in [Client -> ClientState]
      BY <1>11, ClientStates DEF Stop, TypeOK
    <2>3. S \subseteq SessionId
      BY DEF TypeOK
    <2>4. faults' \in 0 .. MaxFaults /\ left' \subseteq SessionId /\ dirs' \subseteq SessionId
      <3>1. PICK failed \in SUBSET S : dirs' = DirsAfterTeardown(S \ failed) /\ LeavesBehind(failed)
        BY <1>11 DEF Stop, Teardown
      <3> QED
        BY <2>3, <3>1, LeavesBehindType, TeardownType
    <2> QED
      BY <1>11, <2>1, <2>2, <2>4, TeardownType DEF Stop, Teardown, TypeOK
  <1>12. ASSUME NEW id \in SessionId, Produce(id) PROVE TypeOK'
    <2>1. next[id] \in Segment /\ next[id] + 1 \in 0 .. (LastSegment + 1)
      BY <1>12, BoundsAssumption DEF Produce, TypeOK, Segment
    <2> QED
      BY <1>12, <2>1 DEF Produce, TypeOK
  <1>13. ASSUME NEW id \in SessionId, Exit(id) PROVE TypeOK'
    <2>1. proc' \in [SessionId -> ProcState]
      BY <1>13 DEF Exit, TypeOK, ProcState
    <2> QED
      BY <1>13, <2>1 DEF Exit, TypeOK
  <1>14. CASE Tick
    <2>1. sessions' \in [Live -> Session] /\ DOMAIN sessions' = Live
      <3>1. ASSUME NEW id \in Live PROVE Aged(sessions[id]) \in Session
        <4>1. sessions[id] \in Session
          BY DEF TypeOK
        <4>2. sessions[id].idle + 1 \in Nat /\ sessions[id].age + 1 \in Nat
          BY <4>1 DEF Session
        <4> QED
          BY <4>1, <4>2 DEF Aged, Session
      <3> QED
        BY <1>14, <3>1 DEF Tick
    <2>2. client' \in [Client -> ClientState]
      BY <1>14 DEF Tick, TypeOK, ClientState
    <2>3. sinceTick' \in 0 .. ReaperPeriod
      BY <1>14, BoundsAssumption, TimeoutAssumption DEF Tick, TypeOK
    <2> QED
      BY <1>14, <2>1, <2>2, <2>3 DEF Tick, TypeOK
  <1>15. CASE ReaperWakes
    BY <1>15, TimeoutAssumption DEF ReaperWakes, TypeOK
  <1>16. CASE ReapIdle
    <2> DEFINE S == Stale(sinceTick)
    <2>1. sessions' = [id \in Live \ S |-> Latched(Live)[id]]
      BY <1>16 DEF ReapIdle, Without, Restrict, Latched
    <2>2. sessions' \in [Live \ S -> Session] /\ DOMAIN sessions' = Live \ S
      BY <2>1, LatchedFields
    <2>3. S \subseteq SessionId
      BY DEF Stale, TypeOK
    <2>4. faults' \in 0 .. MaxFaults /\ left' \subseteq SessionId /\ dirs' \subseteq SessionId
      <3>1. PICK failed \in SUBSET S : dirs' = DirsAfterTeardown(S \ failed) /\ LeavesBehind(failed)
        BY <1>16 DEF ReapIdle, Teardown
      <3> QED
        BY <2>3, <3>1, LeavesBehindType, TeardownType
    <2> QED
      BY <1>16, <2>2, <2>4, TeardownType DEF ReapIdle, Teardown, TypeOK
  <1>17. CASE UNCHANGED vars
    BY <1>17 DEF vars, TypeOK
  <1>18. ASSUME NEW c \in Client, StopDropped(c) PROVE TypeOK'
    <2> DEFINE id == client[c].sid
    <2>1. id \in SessionId
      BY <1>18 DEF StopDropped, TypeOK
    <2>2. sessions' \in [Live \ {id} -> Session] /\ DOMAIN sessions' = Live \ {id}
      BY <1>18 DEF StopDropped, Without, Restrict, TypeOK
    <2>3. client' \in [Client -> ClientState]
      BY <1>18, ClientStates DEF StopDropped, TypeOK
    <2>4. proc' \in [SessionId -> ProcState]
      BY <1>18 DEF StopDropped, TypeOK, ProcState
    <2>5. faults' \in 0 .. MaxFaults /\ left' \subseteq SessionId
      BY <1>18, <2>1, BoundsAssumption DEF StopDropped, TypeOK
    <2> QED
      BY <1>18, <2>2, <2>3, <2>4, <2>5, TeardownType DEF StopDropped, TypeOK
  <1> QED
    BY <1>1, <1>2, <1>3, <1>4, <1>5, <1>6, <1>7, <1>8, <1>9, <1>10, <1>11,
       <1>12, <1>13, <1>14, <1>15, <1>16, <1>17, <1>18 DEF Next, ClientStep

\* Every variable keeps its type: in particular no operation forgets a
\* client's session id or moves ffmpeg past the end of the title.
THEOREM TypeCorrect == Spec => []TypeOK
  BY TypeInit, TypeStep, PTL DEF Spec

-----------------------------------------------------------------------------
(* What the operations that rebuild the session map do to it *)

\* Session s is session id after nothing but polls.
LatchedOnly(id, s) ==
    /\ s \in Session
    /\ s.key = sessions[id].key
    /\ s.idle = sessions[id].idle
    /\ s.age = sessions[id].age
    /\ s.consumed = sessions[id].consumed
    /\ s.from = sessions[id].from
    /\ s.exited \in {sessions[id].exited, Polled(id)}

LEMMA LatchedIsLatchedOnly ==
  ASSUME TypeOK
  PROVE  \A S : \A id \in Live : LatchedOnly(id, Latched(S)[id])
  BY LatchedFields DEF LatchedOnly

LEMMA KeptIsLatchedOnly ==
  ASSUME TypeOK, NEW k, NEW V, NEW passed
  PROVE  /\ DOMAIN Kept(k, V, passed) = Live \ V
         /\ \A j \in Live \ V : LatchedOnly(j, Kept(k, V, passed)[j])
  <1>1. DOMAIN Kept(k, V, passed) = Live \ V
    BY KeptFields
  <1>2. ASSUME NEW j \in Live \ V PROVE LatchedOnly(j, Kept(k, V, passed)[j])
    <2>1. Kept(k, V, passed)[j] = Latched(Matching(k) \cup passed)[j]
      <3>1. DOMAIN Latched(Matching(k) \cup passed) = Live
        BY DEF Latched
      <3>2. QED
        BY <3>1, WithoutDomain DEF Kept
    <2>2. LatchedOnly(j, Latched(Matching(k) \cup passed)[j])
      BY LatchedIsLatchedOnly
    <2> QED
      BY <2>1, <2>2
  <1>3. QED
    BY <1>1, <1>2

LEMMA StartReuseEffect ==
  ASSUME TypeOK, NEW c \in Client, NEW k \in Key, StartReuse(c, k)
  PROVE  \E id \in Matching(k) \ Dead :
            /\ Live' = Live /\ id \in Live
            /\ \A j \in Live \ {id} : LatchedOnly(j, sessions'[j])
            /\ sessions'[id] \in Session
            /\ sessions'[id].idle = 0
            /\ sessions'[id].consumed = sessions[id].consumed
            /\ sessions'[id].age = sessions[id].age
            /\ sessions'[id].from = sessions[id].from
            /\ sessions'[id].key = sessions[id].key
            /\ sessions'[id].exited \in {sessions[id].exited, Polled(id)}
            /\ client' = [client EXCEPT ![c] = Holding(id)]
  <1>1. PICK id \in Matching(k) \ Dead, skipped \in SUBSET (Matching(k) \cap Dead) :
           /\ sessions' = [Latched(skipped \cup {id}) EXCEPT ![id].idle = 0]
           /\ client' = [client EXCEPT ![c] = Holding(id)]
    BY DEF StartReuse
  <1> DEFINE L == Latched(skipped \cup {id})
  <1>2. id \in Live
    BY DEF Matching
  <1>3. DOMAIN L = Live /\ \A j \in Live : LatchedOnly(j, L[j])
    BY <1>2, LatchedFields, LatchedIsLatchedOnly
  <1>4. sessions' = [L EXCEPT ![id].idle = 0]
    BY <1>1
  <1> HIDE DEF L
  <1>5. Live' = Live
    BY <1>3, <1>4 DEF Live
  <1>6. \A j \in Live \ {id} : LatchedOnly(j, sessions'[j])
    BY <1>3, <1>4
  <1>7. sessions'[id] = [L[id] EXCEPT !.idle = 0]
    BY <1>2, <1>3, <1>4
  <1>8. sessions[id] \in Session /\ LatchedOnly(id, L[id])
    BY <1>2, <1>3 DEF TypeOK
  <1>9. /\ sessions'[id] \in Session /\ sessions'[id].idle = 0
        /\ sessions'[id].consumed = L[id].consumed
        /\ sessions'[id].age = L[id].age /\ sessions'[id].from = L[id].from
        /\ sessions'[id].key = L[id].key /\ sessions'[id].exited = L[id].exited
    <2>1. L[id] \in Session
      BY <1>8 DEF LatchedOnly
    <2>2. QED
      BY <1>7, <2>1 DEF Session
  <1>10. QED
    BY <1>1, <1>2, <1>5, <1>6, <1>8, <1>9 DEF LatchedOnly

LEMMA StartRefusedEffect ==
  ASSUME TypeOK, NEW c \in Client, NEW k \in Key, StartRefused(c, k)
  PROVE  Live' = Live /\ \A j \in Live : LatchedOnly(j, sessions'[j])
  <1>1. sessions' = Latched(Live)
    BY DEF StartRefused
  <1>2. QED
    BY <1>1, LatchedFields, LatchedIsLatchedOnly DEF Latched, Live

LEMMA StartNewEffect ==
  ASSUME TypeOK, NEW c \in Client, NEW k \in Key, StartNew(c, k)
  PROVE  \E V \in Victims, id \in Unused :
            /\ Live' = (Live \ V) \cup {id}
            /\ sessions'[id] = NewSession(k)
            /\ \A j \in Live \ V : j # id /\ LatchedOnly(j, sessions'[j])
            /\ proc' = [ProcAfterTeardown(V) EXCEPT ![id] = "running"]
            /\ next' = [next EXCEPT ![id] = 0]
            /\ segs' = SegsAfterTeardown(V)
            /\ client' = [client EXCEPT ![c] = Holding(id)]
            /\ \E failed \in SUBSET V :
                  dirs' = DirsAfterTeardown(V \ failed) \cup {id} /\ LeavesBehind(failed)
  <1>1. PICK V \in Victims, passed \in SUBSET Scanned, id \in Unused :
           /\ sessions' = [j \in DOMAIN Kept(k, V, passed) \cup {id} |->
                             IF j = id THEN NewSession(k) ELSE Kept(k, V, passed)[j]]
           /\ proc' = [ProcAfterTeardown(V) EXCEPT ![id] = "running"]
           /\ next' = [next EXCEPT ![id] = 0]
           /\ segs' = SegsAfterTeardown(V)
           /\ client' = [client EXCEPT ![c] = Holding(id)]
           /\ \E failed \in SUBSET V :
                 dirs' = DirsAfterTeardown(V \ failed) \cup {id} /\ LeavesBehind(failed)
    BY ZenonT(60) DEF StartNew
  <1> DEFINE K == Kept(k, V, passed)
  <1>2. DOMAIN K = Live \ V /\ \A j \in Live \ V : LatchedOnly(j, K[j])
    BY KeptIsLatchedOnly
  <1>3. id \notin Live
    BY DEF Unused
  <1>4. sessions' = [j \in DOMAIN K \cup {id} |->
                        IF j = id THEN NewSession(k) ELSE K[j]]
    BY <1>1
  <1> HIDE DEF K
  <1>5. Live' = (Live \ V) \cup {id}
    BY <1>2, <1>4 DEF Live
  <1>6. sessions'[id] = NewSession(k)
    BY <1>4
  <1>7. \A j \in Live \ V : j # id /\ LatchedOnly(j, sessions'[j])
    BY <1>2, <1>3, <1>4
  <1>8. QED
    BY <1>1, <1>5, <1>6, <1>7

LEMMA StartFailsEffect ==
  ASSUME TypeOK, NEW c \in Client, NEW k \in Key, StartFails(c, k)
  PROVE  \E V \in Victims, id \in Unused :
            /\ Live' = Live \ V
            /\ \A j \in Live \ V : LatchedOnly(j, sessions'[j])
            /\ proc' = ProcAfterTeardown(V)
            /\ segs' = SegsAfterTeardown(V)
            /\ \E failed \in SUBSET V, made \in {{}, {id}} :
                  /\ dirs' = DirsAfterTeardown(V \ failed) \cup made
                  /\ left' = left \cup failed \cup made
  <1>1. PICK V \in Victims, passed \in SUBSET Scanned, id \in Unused :
           /\ sessions' = Kept(k, V, passed)
           /\ proc' = ProcAfterTeardown(V)
           /\ segs' = SegsAfterTeardown(V)
           /\ \E failed \in SUBSET V, made \in {{}, {id}} :
                 /\ dirs' = DirsAfterTeardown(V \ failed) \cup made
                 /\ left' = left \cup failed \cup made
    BY ZenonT(60) DEF StartFails
  <1> DEFINE K == Kept(k, V, passed)
  <1>2. DOMAIN K = Live \ V /\ \A j \in Live \ V : LatchedOnly(j, K[j])
    BY KeptIsLatchedOnly
  <1>3. sessions' = K
    BY <1>1
  <1> HIDE DEF K
  <1>4. QED
    BY <1>1, <1>2, <1>3 DEF Live

LEMMA TornDown ==
  ASSUME TypeOK, NEW S, Teardown(S)
  PROVE  /\ \A j \in SessionId \ S : proc'[j] = proc[j] /\ segs'[j] = segs[j]
  BY DEF Teardown, ProcAfterTeardown, SegsAfterTeardown

\* A stop, carried through or dropped half-way, touches no other session.
LEMMA StopEffect ==
  ASSUME TypeOK, NEW c \in Client, Stop(c) \/ StopDropped(c)
  PROVE  \E S \in SUBSET Live :
            /\ Live' = Live \ S
            /\ \A j \in Live \ S : sessions'[j] = sessions[j]
            /\ \A j \in SessionId \ S : proc'[j] = proc[j] /\ segs'[j] = segs[j]
            /\ next' = next
  <1>1. CASE Stop(c)
    <2> DEFINE S == {client[c].sid} \cap Live
    <2>1. Teardown(S) /\ next' = next /\ sessions' = Without(sessions, S)
      BY <1>1 DEF Stop
    <2>2. Live' = Live \ S /\ \A j \in Live \ S : sessions'[j] = sessions[j]
      BY <2>1, WithoutDomain DEF Live
    <2>3. \A j \in SessionId \ S : proc'[j] = proc[j] /\ segs'[j] = segs[j]
      BY <2>1, TornDown
    <2>4. S \in SUBSET Live
      OBVIOUS
    <2> HIDE DEF S
    <2> WITNESS S \in SUBSET Live
    <2> QED
      BY <2>1, <2>2, <2>3
  <1>2. CASE StopDropped(c)
    <2> DEFINE id == client[c].sid
    <2>1. /\ id \in Live /\ next' = next /\ sessions' = Without(sessions, {id})
          /\ proc' = [proc EXCEPT ![id] = "killed"] /\ segs' = SegsAfterTeardown({id})
      BY <1>2 DEF StopDropped
    <2>2. Live' = Live \ {id} /\ \A j \in Live \ {id} : sessions'[j] = sessions[j]
      BY <2>1, WithoutDomain DEF Live
    <2>3. \A j \in SessionId \ {id} : proc'[j] = proc[j] /\ segs'[j] = segs[j]
      BY <2>1 DEF TypeOK, SegsAfterTeardown
    <2>4. {id} \in SUBSET Live
      BY <2>1
    <2> HIDE DEF id
    <2> WITNESS {id} \in SUBSET Live
    <2> QED
      BY <2>1, <2>2, <2>3
  <1> QED
    BY <1>1, <1>2

LEMMA ReapIdleEffect ==
  ASSUME TypeOK, ReapIdle
  PROVE  /\ Live' = Live \ Stale(sinceTick)
         /\ \A j \in Live \ Stale(sinceTick) : LatchedOnly(j, sessions'[j])
         /\ Teardown(Stale(sinceTick))
  <1> DEFINE S == Stale(sinceTick)
             L == Latched(Live)
  <1>1. sessions' = Without(L, S) /\ Teardown(S)
    BY DEF ReapIdle
  <1>2. DOMAIN L = Live /\ \A j \in Live : LatchedOnly(j, L[j])
    BY LatchedFields, LatchedIsLatchedOnly DEF Latched
  <1> HIDE DEF S, L
  <1>3. DOMAIN sessions' = Live \ S /\ \A j \in Live \ S : sessions'[j] = L[j]
    BY <1>1, <1>2, WithoutDomain
  <1>4. QED
    BY <1>1, <1>2, <1>3 DEF Live, S

\* The evicted slot is a dead session, and there is one only at the cap.
LEMMA VictimFacts ==
  ASSUME NEW V \in Victims
  PROVE  /\ V \subseteq Dead /\ V \subseteq Live
         /\ Full => \E id \in Live : V = {id}
         /\ ~Full => V = {}
  BY DEF Victims, Dead

-----------------------------------------------------------------------------
(* Latched outcomes are those of the current process *)

LEMMA PolledFaithful ==
  ASSUME TypeOK, LatchFaithful, NEW id \in Live
  PROVE  Polled(id) \in {"none", proc[id]}
  BY DEF LatchFaithful, Polled, TryWait

\* Polls and teardowns of other sessions keep the latch faithful.
LEMMA LatchKept ==
  ASSUME TypeOK, LatchFaithful, NEW id \in Live,
         LatchedOnly(id, sessions'[id]), proc'[id] = proc[id]
  PROVE  sessions'[id].exited \in {"none", proc'[id]}
  BY PolledFaithful DEF LatchedOnly, LatchFaithful

LEMMA LatchStep == TypeOK /\ LatchFaithful /\ [Next]_vars => LatchFaithful'
  <1> SUFFICES ASSUME TypeOK, LatchFaithful, [Next]_vars,
                      NEW id \in Live'
               PROVE  sessions'[id].exited \in {"none", proc'[id]}
    BY DEF LatchFaithful
  <1>1. ASSUME NEW c \in Client, NEW k \in Key, StartReuse(c, k)
        PROVE  sessions'[id].exited \in {"none", proc'[id]}
    <2>1. id \in Live /\ sessions'[id].exited \in {sessions[id].exited, Polled(id)}
      BY <1>1, StartReuseEffect DEF LatchedOnly
    <2>2. proc' = proc
      BY <1>1 DEF StartReuse
    <2> QED
      BY <2>1, <2>2, PolledFaithful DEF LatchFaithful
  <1>2. ASSUME NEW c \in Client, NEW k \in Key, StartRefused(c, k)
        PROVE  sessions'[id].exited \in {"none", proc'[id]}
    BY <1>2, StartRefusedEffect, LatchKept DEF StartRefused
  <1>3. ASSUME NEW c \in Client, NEW k \in Key, StartNew(c, k)
        PROVE  sessions'[id].exited \in {"none", proc'[id]}
    <2>1. PICK V \in Victims, n \in Unused :
             /\ Live' = (Live \ V) \cup {n}
             /\ sessions'[n] = NewSession(k)
             /\ \A j \in Live \ V : j # n /\ LatchedOnly(j, sessions'[j])
             /\ proc' = [ProcAfterTeardown(V) EXCEPT ![n] = "running"]
      BY <1>3, StartNewEffect
    <2>2. CASE id = n
      BY <2>1, <2>2 DEF NewSession
    <2>3. CASE id \in Live \ V
      <3>1. proc'[id] = proc[id]
        BY <2>1, <2>3 DEF ProcAfterTeardown, TypeOK
      <3> QED
        BY <2>1, <2>3, <3>1, LatchKept
    <2> QED
      BY <2>1, <2>2, <2>3
  <1>4. ASSUME NEW c \in Client, NEW k \in Key, StartFails(c, k)
        PROVE  sessions'[id].exited \in {"none", proc'[id]}
    <2>1. PICK V \in Victims :
             /\ Live' = Live \ V
             /\ \A j \in Live \ V : LatchedOnly(j, sessions'[j])
             /\ proc' = ProcAfterTeardown(V)
      BY <1>4, StartFailsEffect
    <2>2. proc'[id] = proc[id]
      BY <2>1 DEF ProcAfterTeardown, TypeOK
    <2> QED
      BY <2>1, <2>2, LatchKept
  <1>5. CASE UNCHANGED <<sessions, proc>>
    BY <1>5 DEF LatchFaithful, Live
  <1>6. ASSUME NEW c \in Client,
               \/ RequestFile(c)
               \/ \E g \in Segment : SegmentOnDisk(c, g) \/ SegmentAwaited(c, g)
        PROVE  sessions'[id].exited \in {"none", proc'[id]}
    <2>1. /\ sessions' = [sessions EXCEPT ![client[c].sid] = Touched(sessions[client[c].sid])]
          /\ client[c].sid \in Live /\ proc' = proc
      BY <1>6 DEF RequestFile, SegmentOnDisk, SegmentAwaited
    <2>2. id \in Live /\ sessions'[id].exited = sessions[id].exited
      BY <2>1 DEF Live, Touched, TypeOK, Session
    <2> QED
      BY <2>1, <2>2 DEF LatchFaithful
  <1>7. ASSUME NEW c \in Client, NEW g \in Segment, SegmentRestarts(c, g)
        PROVE  sessions'[id].exited \in {"none", proc'[id]}
    <2>1. id \in Live
      BY <1>7 DEF SegmentRestarts, Live
    <2>2. CASE id = client[c].sid
      <3>1. sessions[id] \in Session
        BY <2>1 DEF TypeOK
      <3>2. id \in DOMAIN sessions /\ sessions' = [sessions EXCEPT ![id] = Restarted(Touched(sessions[id]), g)]
        BY <1>7, <2>1, <2>2 DEF SegmentRestarts, Live
      <3>3. sessions'[id] = Restarted(Touched(sessions[id]), g)
        BY <3>2, Zenon
      <3>4. Touched(sessions[id]) \in Session
        BY <3>1 DEF Touched, Session
      <3>5. sessions'[id].exited = "none"
        BY <3>3, <3>4 DEF Restarted, Session
      <3> QED
        BY <3>5
    <2>3. CASE id # client[c].sid
      BY <1>7, <2>1, <2>3 DEF SegmentRestarts, LatchFaithful, Live, TypeOK
    <2> QED
      BY <2>2, <2>3
  <1>8. ASSUME NEW c \in Client, NEW g \in Segment, SegmentSpawnFails(c, g)
        PROVE  sessions'[id].exited \in {"none", proc'[id]}
    <2>1. id \in Live
      BY <1>8 DEF SegmentSpawnFails, Live
    <2>2. CASE id = client[c].sid
      <3>1. sessions'[id].exited = Polled(id)
        BY <1>8, <2>1, <2>2 DEF SegmentSpawnFails, Touched, Live, TypeOK, Session
      <3>2. proc'[id] = IF proc[id] = "running" THEN "killed" ELSE proc[id]
        BY <1>8, <2>2, <2>1 DEF SegmentSpawnFails, TypeOK
      <3>3. Polled(id) \in {"none", proc[id]} /\ Polled(id) # "running"
        BY <2>1, PolledFaithful, PolledType
      <3> QED
        BY <3>1, <3>2, <3>3
    <2>3. CASE id # client[c].sid
      BY <1>8, <2>1, <2>3 DEF SegmentSpawnFails, LatchFaithful, Live, TypeOK
    <2> QED
      BY <2>2, <2>3
  <1>9. ASSUME NEW c \in Client, Stop(c) \/ StopDropped(c)
        PROVE  sessions'[id].exited \in {"none", proc'[id]}
    <2>1. PICK S \in SUBSET Live :
             /\ Live' = Live \ S
             /\ \A j \in Live \ S : sessions'[j] = sessions[j]
             /\ \A j \in SessionId \ S : proc'[j] = proc[j]
      BY <1>9, StopEffect
    <2>2. proc'[id] = proc[id]
      BY <2>1 DEF TypeOK
    <2> QED
      BY <2>1, <2>2 DEF LatchFaithful
  <1>10. ASSUME NEW x \in SessionId, Exit(x)
         PROVE  sessions'[id].exited \in {"none", proc'[id]}
    <2>1. sessions' = sessions /\ id \in Live
      BY <1>10 DEF Exit, Live
    <2>2. sessions[id].exited \in {"none", "ok", "failed"}
      BY <2>1 DEF TypeOK, Session
    <2>3. CASE x = id
      BY <1>10, <2>1, <2>2, <2>3 DEF Exit, LatchFaithful
    <2>4. CASE x # id
      BY <1>10, <2>1, <2>4 DEF Exit, LatchFaithful, TypeOK
    <2> QED
      BY <2>3, <2>4
  <1>11. CASE Tick
    <2>1. id \in Live /\ sessions[id] \in Session /\ sessions'[id] = Aged(sessions[id]) /\ proc' = proc
      BY <1>11 DEF Tick, Live, TypeOK
    <2>2. sessions'[id].exited = sessions[id].exited
      BY <2>1 DEF Aged, Session
    <2> QED
      BY <2>1, <2>2 DEF LatchFaithful
  <1>12. CASE ReapIdle
    <2>1. /\ id \in Live \ Stale(sinceTick)
          /\ LatchedOnly(id, sessions'[id])
          /\ Teardown(Stale(sinceTick))
      BY <1>12, ReapIdleEffect
    <2>2. proc'[id] = proc[id]
      BY <2>1 DEF Teardown, ProcAfterTeardown, TypeOK
    <2> QED
      BY <2>1, <2>2, LatchKept
  <1> QED
    BY <1>1, <1>2, <1>3, <1>4, <1>5, <1>6, <1>7, <1>8, <1>9, <1>10, <1>11, <1>12
       DEF Next, ClientStep, RequestUnknown, WaitEnds, Leave, Produce, ReaperWakes, vars

\* A latched outcome is always that of the session's current ffmpeg, so a
\* session revived by a seek is never evicted for its predecessor's failure.
THEOREM LatchIsFaithful == Spec => []LatchFaithful
  <1>1. Init => LatchFaithful
    BY DEF Init, LatchFaithful, Live
  <1>2. QED
    BY <1>1, LatchStep, TypeCorrect, PTL DEF Spec

-----------------------------------------------------------------------------
(* Capacity *)

\* CapacityRespected is inductive once the map is known to be finite.
CapacityInv == IsFiniteSet(Live) /\ CapacityRespected

LEMMA FewerSessions ==
  ASSUME CapacityInv, NEW S, S \subseteq Live
  PROVE  /\ IsFiniteSet(S) /\ Cardinality(S) <= Cap
         /\ Cardinality(S) \in Nat
  BY FS_Subset, FS_CardinalityType, CapType DEF CapacityInv, CapacityRespected

LEMMA CapacityStep == TypeOK /\ CapacityInv /\ [Next]_vars => CapacityInv'
  <1> SUFFICES ASSUME TypeOK, CapacityInv, [Next]_vars
               PROVE  IsFiniteSet(Live') /\ Cardinality(Live') <= Cap
    BY DEF CapacityInv, CapacityRespected, Cap
  <1>1. ASSUME Live' \subseteq Live
        PROVE  IsFiniteSet(Live') /\ Cardinality(Live') <= Cap
    BY <1>1, FewerSessions
  <1>2. ASSUME NEW c \in Client, NEW k \in Key, StartNew(c, k)
        PROVE  IsFiniteSet(Live') /\ Cardinality(Live') <= Cap
    <2>1. PICK V \in Victims, n \in Unused : Live' = (Live \ V) \cup {n}
      BY <1>2, StartNewEffect
    <2>2. IsFiniteSet(Live \ V) /\ Cardinality(Live \ V) < Cap
      <3>1. CASE Full
        <4>1. PICK v \in Live : V = {v}
          BY <3>1, VictimFacts
        <4>2. Cardinality(Live \ {v}) = Cardinality(Live) - 1 /\ IsFiniteSet(Live \ {v})
          BY FS_RemoveElement DEF CapacityInv
        <4> QED
          BY <4>1, <4>2, FewerSessions, CapType DEF CapacityInv, CapacityRespected
      <3>2. CASE ~Full
        <4>1. V = {} /\ Live \ V = Live
          BY <3>2, VictimFacts
        <4> QED
          BY <3>2, <4>1, FewerSessions, CapType DEF Full, CapacityInv
      <3> QED
        BY <3>1, <3>2
    <2>3. Cardinality(Live \ V) \in Nat
      BY <2>2, FS_CardinalityType
    <2>4. /\ IsFiniteSet((Live \ V) \cup {n})
          /\ Cardinality((Live \ V) \cup {n}) =
                IF n \in Live \ V THEN Cardinality(Live \ V)
                                  ELSE Cardinality(Live \ V) + 1
      BY <2>2, FS_AddElement, Zenon
    <2> QED
      BY <2>1, <2>2, <2>3, <2>4, FS_CardinalityType, CapType
  <1>3. ASSUME NEW c \in Client, NEW k \in Key,
               StartReuse(c, k) \/ StartRefused(c, k) \/ StartFails(c, k)
        PROVE  Live' \subseteq Live
    BY <1>3, StartReuseEffect, StartRefusedEffect, StartFailsEffect
  <1>4. ASSUME NEW c \in Client, NEW g \in Segment,
               \/ RequestUnknown(c) \/ RequestFile(c) \/ WaitEnds(c) \/ Leave(c)
               \/ SegmentOnDisk(c, g) \/ SegmentAwaited(c, g)
               \/ SegmentRestarts(c, g) \/ SegmentSpawnFails(c, g)
        PROVE  Live' \subseteq Live
    BY <1>4 DEF RequestUnknown, RequestFile, WaitEnds, Leave, SegmentOnDisk,
                SegmentAwaited, SegmentRestarts, SegmentSpawnFails, Live
  <1>5. ASSUME NEW c \in Client, Stop(c) \/ StopDropped(c) PROVE Live' \subseteq Live
    BY <1>5, StopEffect
  <1>6. ASSUME NEW id \in SessionId, Produce(id) \/ Exit(id) PROVE Live' \subseteq Live
    BY <1>6 DEF Produce, Exit, Live
  <1>7. CASE Tick \/ ReaperWakes \/ UNCHANGED vars
    <2>1. Live' \subseteq Live
      BY <1>7 DEF Tick, ReaperWakes, vars, Live
    <2> QED
      BY <2>1, <1>1
  <1>8. CASE ReapIdle
    BY <1>8, <1>1, ReapIdleEffect
  <1>9. 0 \in Segment
    BY BoundsAssumption DEF Segment
  <1> QED
    BY <1>1, <1>2, <1>3, <1>4, <1>5, <1>6, <1>7, <1>8, <1>9 DEF Next, ClientStep

\* However starts, evictions, failed spawns, restarts and reaping interleave,
\* at most max_sessions (and at least one) sessions are ever registered.
THEOREM CapacityAlwaysRespected == Spec => []CapacityRespected
  <1>1. Init => CapacityInv
    BY FS_EmptySet, CapType DEF Init, CapacityInv, CapacityRespected, Live
  <1>2. CapacityInv => CapacityRespected
    BY DEF CapacityInv
  <1>3. QED
    BY <1>1, <1>2, CapacityStep, TypeCorrect, PTL DEF Spec

-----------------------------------------------------------------------------
(* Waiting for a segment is never in vain *)

LEMMA VainStep == TypeOK /\ LatchFaithful /\ NoVainWait /\ [Next]_vars => NoVainWait'
  <1> SUFFICES ASSUME TypeOK, LatchFaithful, NoVainWait, [Next]_vars,
                      NEW id \in Live', NEW h \in Segment,
                      proc'[id] = "running", sessions'[id].exited = "none",
                      InWindow(sessions'[id], h), h \notin segs'[id]
               PROVE  next'[id] <= h
    BY DEF NoVainWait, InWindow
  <1> DEFINE Ahead(j) ==
        /\ j \in Live /\ proc[j] = "running"
        /\ sessions[j].from = sessions'[j].from
        /\ h \notin segs[j] /\ next'[j] = next[j]
  \* Whatever is unchanged about the session keeps the segment ahead.
  <1>1. Ahead(id) => next'[id] <= h
    <2> SUFFICES ASSUME Ahead(id) PROVE next'[id] <= h
      OBVIOUS
    <2>1. sessions[id].exited = "none"
      BY DEF LatchFaithful, TypeOK, Session
    <2>2. InWindow(sessions[id], h)
      BY DEF InWindow
    <2> QED
      BY <2>1, <2>2 DEF NoVainWait
  <1>2. ASSUME NEW c \in Client, NEW k \in Key, StartReuse(c, k) PROVE next'[id] <= h
    <2>1. id \in Live /\ sessions[id].from = sessions'[id].from
      BY <1>2, StartReuseEffect DEF LatchedOnly
    <2> QED
      BY <1>1, <1>2, <2>1 DEF StartReuse
  <1>3. ASSUME NEW c \in Client, NEW k \in Key, StartRefused(c, k) PROVE next'[id] <= h
    <2>1. id \in Live /\ sessions[id].from = sessions'[id].from
      BY <1>3, StartRefusedEffect DEF LatchedOnly
    <2> QED
      BY <1>1, <1>3, <2>1 DEF StartRefused
  <1>4. ASSUME NEW c \in Client, NEW k \in Key, StartNew(c, k) PROVE next'[id] <= h
    <2>1. PICK V \in Victims, n \in Unused :
             /\ Live' = (Live \ V) \cup {n}
             /\ sessions'[n] = NewSession(k)
             /\ \A j \in Live \ V : j # n /\ LatchedOnly(j, sessions'[j])
             /\ proc' = [ProcAfterTeardown(V) EXCEPT ![n] = "running"]
             /\ next' = [next EXCEPT ![n] = 0]
             /\ segs' = SegsAfterTeardown(V)
      BY <1>4, StartNewEffect
    <2>2. CASE id = n
      <3>1. next'[id] = 0
        BY <2>1, <2>2 DEF TypeOK, Unused
      <3> QED
        BY <3>1, BoundsAssumption DEF Segment
    <2>3. CASE id \in Live \ V
      <3>1. id # n /\ id \in SessionId /\ n \in SessionId /\ id \notin V
        BY <2>1, <2>3 DEF TypeOK, Unused
      <3>2. proc[id] = proc'[id] /\ segs[id] = segs'[id] /\ next[id] = next'[id]
        BY <2>1, <3>1 DEF ProcAfterTeardown, SegsAfterTeardown, TypeOK
      <3>3. sessions[id].from = sessions'[id].from
        BY <2>1, <2>3 DEF LatchedOnly
      <3> QED
        BY <1>1, <2>3, <3>2, <3>3
    <2> QED
      BY <2>1, <2>2, <2>3
  <1>5. ASSUME NEW c \in Client, NEW k \in Key, StartFails(c, k) PROVE next'[id] <= h
    <2>1. PICK V \in Victims :
             /\ Live' = Live \ V
             /\ \A j \in Live \ V : LatchedOnly(j, sessions'[j])
             /\ proc' = ProcAfterTeardown(V) /\ segs' = SegsAfterTeardown(V)
      BY <1>5, StartFailsEffect
    <2>2. id \in Live /\ id \in SessionId /\ id \notin V
      BY <2>1 DEF TypeOK
    <2>3. proc[id] = proc'[id] /\ segs[id] = segs'[id] /\ next' = next
      BY <1>5, <2>1, <2>2 DEF ProcAfterTeardown, SegsAfterTeardown, StartFails
    <2>4. sessions[id].from = sessions'[id].from
      BY <2>1, <2>2 DEF LatchedOnly
    <2> QED
      BY <1>1, <2>2, <2>3, <2>4
  <1>6. CASE UNCHANGED <<sessions, proc, next, segs>>
    BY <1>1, <1>6 DEF Live
  <1>7. ASSUME NEW c \in Client,
               \/ RequestFile(c)
               \/ \E g \in Segment : SegmentOnDisk(c, g) \/ SegmentAwaited(c, g)
        PROVE  next'[id] <= h
    <2>1. /\ sessions' = [sessions EXCEPT ![client[c].sid] = Touched(sessions[client[c].sid])]
          /\ proc' = proc /\ next' = next /\ segs' = segs
      BY <1>7 DEF RequestFile, SegmentOnDisk, SegmentAwaited
    <2>2. id \in Live /\ sessions'[id].from = sessions[id].from
      BY <2>1 DEF Live, Touched, TypeOK, Session
    <2> QED
      BY <1>1, <2>1, <2>2
  <1>8. ASSUME NEW c \in Client, NEW g \in Segment, SegmentRestarts(c, g)
        PROVE  next'[id] <= h
    <2>1. id \in Live /\ id \in SessionId
      BY <1>8 DEF SegmentRestarts, Live, TypeOK
    <2>2. CASE id = client[c].sid
      <3>1. sessions'[id].from = g
        BY <1>8, <2>1, <2>2 DEF SegmentRestarts, Restarted, Touched, Live, TypeOK, Session
      <3>2. next'[id] = g
        BY <1>8, <2>1, <2>2 DEF SegmentRestarts, TypeOK
      <3> QED
        BY <3>1, <3>2 DEF InWindow
    <2>3. CASE id # client[c].sid
      BY <1>1, <1>8, <2>1, <2>3 DEF SegmentRestarts, Live, TypeOK
    <2> QED
      BY <2>2, <2>3
  <1>9. ASSUME NEW c \in Client, NEW g \in Segment, SegmentSpawnFails(c, g)
        PROVE  next'[id] <= h
    <2>1. id \in Live /\ id \in SessionId
      BY <1>9 DEF SegmentSpawnFails, Live, TypeOK
    <2>2. sessions'[id].from = sessions[id].from
      BY <1>9, <2>1 DEF SegmentSpawnFails, Touched, Live, TypeOK, Session
    <2>3. proc[id] = "running"
      BY <1>9, <2>1 DEF SegmentSpawnFails, TypeOK
    <2> QED
      BY <1>1, <1>9, <2>1, <2>2, <2>3 DEF SegmentSpawnFails
  <1>10. ASSUME NEW c \in Client, Stop(c) \/ StopDropped(c) PROVE next'[id] <= h
    <2>1. PICK S \in SUBSET Live :
             /\ Live' = Live \ S
             /\ \A j \in Live \ S : sessions'[j] = sessions[j]
             /\ \A j \in SessionId \ S : proc'[j] = proc[j] /\ segs'[j] = segs[j]
             /\ next' = next
      BY <1>10, StopEffect
    <2>2. id \in Live /\ id \in SessionId /\ id \notin S
      BY <2>1 DEF TypeOK
    <2>3. proc[id] = proc'[id] /\ segs[id] = segs'[id] /\ next' = next
      BY <2>1, <2>2
    <2> QED
      BY <1>1, <2>1, <2>2, <2>3
  <1>11. ASSUME NEW x \in SessionId, Produce(x) PROVE next'[id] <= h
    <2>1. id \in Live /\ id \in SessionId /\ proc[id] = "running"
            /\ sessions' = sessions
      BY <1>11 DEF Produce, Live, TypeOK
    <2>2. sessions[id].exited = "none" /\ InWindow(sessions[id], h)
      BY <2>1
    <2>3. CASE x = id
      <3>1. h \notin segs[id] /\ h # next[id] /\ next'[id] = next[id] + 1
        BY <1>11, <2>1, <2>3 DEF Produce, TypeOK
      <3>2. next[id] <= h
        BY <2>1, <2>2, <3>1 DEF NoVainWait
      <3> QED
        BY <2>1, <3>1, <3>2, BoundsAssumption DEF TypeOK, Segment
    <2>4. CASE x # id
      BY <1>1, <1>11, <2>1, <2>4 DEF Produce, TypeOK
    <2> QED
      BY <2>3, <2>4
  <1>12. ASSUME NEW x \in SessionId, Exit(x) PROVE next'[id] <= h
    <2>1. id \in Live /\ id \in SessionId
      BY <1>12 DEF Exit, Live, TypeOK
    <2>2. proc[id] = "running"
      BY <1>12, <2>1 DEF Exit, TypeOK
    <2> QED
      BY <1>1, <1>12, <2>1, <2>2 DEF Exit
  <1>13. CASE Tick
    <2>1. id \in Live /\ sessions[id] \in Session /\ sessions'[id] = Aged(sessions[id])
      BY <1>13 DEF Tick, Live, TypeOK
    <2>2. sessions'[id].from = sessions[id].from
      BY <2>1 DEF Aged, Session
    <2>3. UNCHANGED <<proc, next, segs>>
      BY <1>13 DEF Tick
    <2> QED
      BY <1>1, <2>1, <2>2, <2>3
  <1>14. CASE ReapIdle
    <2>1. /\ id \in Live \ Stale(sinceTick)
          /\ LatchedOnly(id, sessions'[id])
          /\ Teardown(Stale(sinceTick))
      BY <1>14, ReapIdleEffect
    <2>2. id \in SessionId
      BY <2>1 DEF TypeOK
    <2>3. proc[id] = proc'[id] /\ segs[id] = segs'[id] /\ next' = next
      BY <1>14, <2>1, <2>2 DEF Teardown, ProcAfterTeardown, SegsAfterTeardown, ReapIdle
    <2> QED
      BY <1>1, <2>1, <2>3 DEF LatchedOnly
  <1> QED
    BY <1>2, <1>3, <1>4, <1>5, <1>6, <1>7, <1>8, <1>9, <1>10, <1>11, <1>12,
       <1>13, <1>14
       DEF Next, ClientStep, RequestUnknown, WaitEnds, Leave, ReaperWakes, vars

\* A missing segment in the window of a running ffmpeg is still ahead of it,
\* through every sequence of seeks, so ensure_segment waits for what comes.
THEOREM WaitsAreNotVain == Spec => []NoVainWait
  <1>1. Init => NoVainWait
    BY DEF Init, NoVainWait, Live
  <1>2. QED
    BY <1>1, VainStep, LatchIsFaithful, TypeCorrect, PTL DEF Spec

-----------------------------------------------------------------------------
(* Stale sessions go in time *)

LEMMA OvershootType == TypeOK => Overshoot \in Nat
  BY TimeoutAssumption DEF Overshoot, TypeOK

LEMMA OvershootTypeNext == TypeOK' => Overshoot' \in Nat
  <1> SUFFICES ASSUME TypeOK' PROVE Overshoot' \in Nat
    OBVIOUS
  <1>1. \A n \in 0 .. ReaperPeriod : n \in Nat /\ n + ReaperPeriod \in Nat
    BY TimeoutAssumption
  <1>2. sinceTick' \in 0 .. ReaperPeriod
    BY DEF TypeOK
  <1> QED
    BY <1>1, <1>2 DEF Overshoot

LEMMA TimelyStep == TypeOK /\ TimelyReaping /\ [Next]_vars => TimelyReaping'
  <1> SUFFICES ASSUME TypeOK, TypeOK', TimelyReaping, [Next]_vars,
                      NEW id \in Live'
               PROVE  /\ sessions'[id].idle < IdleTimeout + Overshoot'
                      /\ sessions'[id].consumed
                           \/ sessions'[id].age < UnconsumedTimeout + Overshoot'
    BY TypeStep DEF TimelyReaping
  <1> DEFINE Goal == /\ sessions'[id].idle < IdleTimeout + Overshoot'
                     /\ sessions'[id].consumed
                          \/ sessions'[id].age < UnconsumedTimeout + Overshoot'
             SameClock == reaper' = reaper /\ sinceTick' = sinceTick
             NoOlder == /\ id \in Live
                        /\ sessions'[id].idle \in {0, sessions[id].idle}
                        /\ sessions'[id].age = sessions[id].age
                        /\ sessions[id].consumed => sessions'[id].consumed
  <1>1. Overshoot \in Nat /\ Overshoot' \in Nat
    BY OvershootType, OvershootTypeNext
  <1>2. SameClock => Overshoot' = Overshoot
    BY DEF Overshoot
  <1>3. NoOlder /\ SameClock => Goal
    BY <1>1, <1>2, TimeoutAssumption DEF TimelyReaping
  <1>4. ASSUME NEW c \in Client, NEW k \in Key, StartReuse(c, k) PROVE Goal
    <2>1. NoOlder
      BY <1>4, StartReuseEffect DEF LatchedOnly
    <2> QED
      BY <1>3, <1>4, <2>1 DEF StartReuse
  <1>5. ASSUME NEW c \in Client, NEW k \in Key, StartRefused(c, k) PROVE Goal
    <2>1. NoOlder
      BY <1>5, StartRefusedEffect DEF LatchedOnly
    <2> QED
      BY <1>3, <1>5, <2>1 DEF StartRefused
  <1>6. ASSUME NEW c \in Client, NEW k \in Key, StartNew(c, k) PROVE Goal
    <2>1. PICK V \in Victims, n \in Unused :
             /\ Live' = (Live \ V) \cup {n}
             /\ sessions'[n] = NewSession(k)
             /\ \A j \in Live \ V : j # n /\ LatchedOnly(j, sessions'[j])
      BY <1>6, StartNewEffect
    <2>2. CASE id = n
      BY <1>1, <2>1, <2>2, TimeoutAssumption DEF NewSession
    <2>3. CASE id \in Live \ V
      <3>1. NoOlder
        BY <2>1, <2>3 DEF LatchedOnly
      <3> QED
        BY <1>3, <1>6, <3>1 DEF StartNew
    <2> QED
      BY <2>1, <2>2, <2>3
  <1>7. ASSUME NEW c \in Client, NEW k \in Key, StartFails(c, k) PROVE Goal
    <2>1. NoOlder
      BY <1>7, StartFailsEffect DEF LatchedOnly
    <2> QED
      BY <1>3, <1>7, <2>1 DEF StartFails
  <1>8. CASE UNCHANGED <<sessions, reaper, sinceTick>>
    BY <1>3, <1>8 DEF Live
  <1>9. ASSUME NEW c \in Client,
               \/ RequestFile(c)
               \/ \E g \in Segment : \/ SegmentOnDisk(c, g) \/ SegmentAwaited(c, g)
                                     \/ SegmentRestarts(c, g) \/ SegmentSpawnFails(c, g)
        PROVE  Goal
    <2>1. \E e \in {"none", "ok", "failed"}, f \in Segment :
             sessions' = [sessions EXCEPT
                 ![client[c].sid] = [Touched(sessions[client[c].sid])
                                        EXCEPT !.exited = e, !.from = f]]
      <3> DEFINE x == sessions[client[c].sid]
      <3>1. client[c].sid \in Live
        BY <1>9 DEF RequestFile, SegmentOnDisk, SegmentAwaited, SegmentRestarts,
                    SegmentSpawnFails
      <3>2. x \in Session /\ x.exited \in {"none", "ok", "failed"} /\ x.from \in Segment
        BY <3>1 DEF TypeOK, Session
      <3>3. Touched(x) = [Touched(x) EXCEPT !.exited = x.exited, !.from = x.from]
        BY <3>2 DEF Touched, Session
      <3>4. ASSUME NEW g \in Segment
            PROVE  Restarted(Touched(x), g)
                      = [Touched(x) EXCEPT !.exited = "none", !.from = g]
        BY DEF Restarted
      <3>5. [Touched(x) EXCEPT !.exited = Polled(client[c].sid)]
                = [Touched(x) EXCEPT !.exited = Polled(client[c].sid), !.from = x.from]
        BY <3>2 DEF Touched, Session
      <3>6. CASE \/ RequestFile(c)
                 \/ \E g \in Segment : SegmentOnDisk(c, g) \/ SegmentAwaited(c, g)
        <4>1. sessions' = [sessions EXCEPT
                              ![client[c].sid] = Touched(sessions[client[c].sid])]
          BY <3>6 DEF RequestFile, SegmentOnDisk, SegmentAwaited
        <4>2. sessions' = [sessions EXCEPT
                              ![client[c].sid] = [Touched(sessions[client[c].sid])
                                   EXCEPT !.exited = x.exited, !.from = x.from]]
          BY <4>1, <3>3
        <4> QED
          BY <3>2, <4>2, Zenon
      <3>7. ASSUME NEW g \in Segment, SegmentRestarts(c, g)
            PROVE  \E e \in {"none", "ok", "failed"}, f \in Segment :
                      sessions' = [sessions EXCEPT
                         ![client[c].sid] = [Touched(x) EXCEPT !.exited = e, !.from = f]]
        BY <3>4, <3>7 DEF SegmentRestarts
      <3>8. ASSUME NEW g \in Segment, SegmentSpawnFails(c, g)
            PROVE  \E e \in {"none", "ok", "failed"}, f \in Segment :
                      sessions' = [sessions EXCEPT
                         ![client[c].sid] = [Touched(x) EXCEPT !.exited = e, !.from = f]]
        BY <3>1, <3>2, <3>5, <3>8, PolledType DEF SegmentSpawnFails
      <3> QED
        BY <1>9, <3>6, <3>7, <3>8
    <2>2. NoOlder
      BY <2>1 DEF Touched, Live, TypeOK, Session
    <2>3. SameClock
      BY <1>9 DEF RequestFile, SegmentOnDisk, SegmentAwaited, SegmentRestarts,
                  SegmentSpawnFails
    <2> QED
      BY <1>3, <2>2, <2>3
  <1>10. ASSUME NEW c \in Client, Stop(c) \/ StopDropped(c) PROVE Goal
    <2>1. NoOlder
      BY <1>10, StopEffect
    <2> QED
      BY <1>3, <1>10, <2>1 DEF Stop, StopDropped
  <1>11. CASE Tick
    <2>1. id \in Live /\ sessions[id] \in Session /\ sessions'[id] = Aged(sessions[id])
      BY <1>11 DEF Tick, Live, TypeOK
    <2>2. /\ sessions'[id].idle = sessions[id].idle + 1
          /\ sessions'[id].consumed = sessions[id].consumed
          /\ ~sessions[id].consumed => sessions'[id].age = sessions[id].age + 1
      BY <2>1 DEF Aged, Session
    <2>3. Overshoot' = Overshoot + 1
      BY <1>11, TimeoutAssumption DEF Tick, Overshoot, TypeOK
    <2>4. sessions[id].idle \in Nat /\ sessions[id].age \in Nat
      BY <2>1 DEF Session
    <2> QED
      BY <1>1, <2>1, <2>2, <2>3, <2>4, TimeoutAssumption DEF TimelyReaping
  <1>12. CASE ReaperWakes
    <2>1. Overshoot' = Overshoot
      BY <1>12, TimeoutAssumption DEF ReaperWakes, Overshoot
    <2> QED
      BY <1>12, <2>1 DEF ReaperWakes, TimelyReaping, Live
  <1>13. CASE ReapIdle
    <2>1. id \in Live \ Stale(sinceTick) /\ LatchedOnly(id, sessions'[id])
      BY <1>13, ReapIdleEffect
    <2>2. ~IsIdle(sessions[id], sinceTick) /\ ~IsAbandoned(sessions[id], sinceTick)
      BY <2>1 DEF Stale
    <2>3. Overshoot' = sinceTick
      BY <1>13 DEF ReapIdle, Overshoot
    <2>4. sessions[id].idle \in Nat /\ sessions[id].age \in Nat /\ sinceTick \in Nat
      BY <2>1 DEF TypeOK, Session
    <2> QED
      BY <2>1, <2>2, <2>3, <2>4, TimeoutAssumption
         DEF IsIdle, IsAbandoned, Elapsed, LatchedOnly
  <1> QED
    BY <1>4, <1>5, <1>6, <1>7, <1>8, <1>9, <1>10, <1>11, <1>12, <1>13
       DEF Next, ClientStep, RequestUnknown, WaitEnds, Leave, Produce, Exit, vars

\* No session outlives IDLE_TIMEOUT (or, never consumed, UNCONSUMED_TIMEOUT)
\* by more than one reaper period and one wait for the lock.
THEOREM ReapingIsTimely == Spec => []TimelyReaping
  <1>1. Init => TimelyReaping
    BY DEF Init, TimelyReaping, Live
  <1>2. QED
    BY <1>1, TimelyStep, TypeCorrect, PTL DEF Spec

-----------------------------------------------------------------------------
(* The reaper spares sessions with waiters *)

\* A waiting client has kept its session consumed, and no session idles
\* longer than the youngest wait on it.
WaitInv ==
    \A c \in Client : client[c].pc = "waiting" =>
        /\ client[c].timer <= WaitTimeout
        /\ client[c].sid \in Live =>
              /\ sessions[client[c].sid].consumed
              /\ sessions[client[c].sid].idle <= client[c].timer

\* What one client's waiting means, in the next state.
WaitInvNext(w) ==
    client'[w].pc = "waiting" =>
        /\ client'[w].timer <= WaitTimeout
        /\ client'[w].sid \in Live' =>
              /\ sessions'[client'[w].sid].consumed
              /\ sessions'[client'[w].sid].idle <= client'[w].timer

LEMMA WaitStep == TypeOK /\ WaitInv /\ [Next]_vars => WaitInv'
  <1> SUFFICES ASSUME TypeOK, WaitInv, [Next]_vars, NEW w \in Client
               PROVE  WaitInvNext(w)
    BY DEF WaitInv, WaitInvNext
  <1> DEFINE SameWaiter == client'[w] = client[w] \/ client'[w].pc # "waiting"
             SameSession == \A id \in Live' \cap {client[w].sid} :
                               /\ id \in Live
                               /\ sessions'[id].idle \in {0, sessions[id].idle}
                               /\ sessions[id].consumed => sessions'[id].consumed
  <1>0. client[w] \in ClientState
    BY DEF TypeOK
  <1>1. SameWaiter /\ SameSession => WaitInvNext(w)
    BY <1>0 DEF WaitInv, WaitInvNext, ClientState
  \* Steps that change no client into a waiting one.
  <1>2. ASSUME NEW c \in Client, NEW k \in Key, StartReuse(c, k) PROVE WaitInvNext(w)
    <2>1. PICK id \in Live :
             /\ Live' = Live /\ \A j \in Live \ {id} : LatchedOnly(j, sessions'[j])
             /\ sessions'[id].idle = 0
             /\ sessions'[id].consumed = sessions[id].consumed
             /\ client' = [client EXCEPT ![c] = Holding(id)]
      BY <1>2, StartReuseEffect
    <2>2. SameWaiter
      BY <2>1 DEF Holding, Idle, TypeOK
    <2>3. SameSession
      BY <2>1 DEF LatchedOnly
    <2> QED
      BY <1>1, <2>2, <2>3
  <1>3. ASSUME NEW c \in Client, NEW k \in Key, StartRefused(c, k) PROVE WaitInvNext(w)
    <2>1. SameWaiter
      BY <1>3 DEF StartRefused, Refused, Idle, TypeOK
    <2>2. SameSession
      BY <1>3, StartRefusedEffect DEF LatchedOnly
    <2> QED
      BY <1>1, <2>1, <2>2
  <1>4. ASSUME NEW c \in Client, NEW k \in Key, StartNew(c, k) PROVE WaitInvNext(w)
    <2>1. PICK V \in Victims, n \in Unused :
             /\ Live' = (Live \ V) \cup {n}
             /\ \A j \in Live \ V : j # n /\ LatchedOnly(j, sessions'[j])
             /\ client' = [client EXCEPT ![c] = Holding(n)]
      BY <1>4, StartNewEffect
    <2>2. SameWaiter
      BY <2>1 DEF Holding, Idle, TypeOK
    <2>3. n # client[w].sid
      BY DEF Unused
    <2>4. SameSession
      BY <2>1, <2>3 DEF LatchedOnly
    <2> QED
      BY <1>1, <2>2, <2>4
  <1>5. ASSUME NEW c \in Client, NEW k \in Key, StartFails(c, k) PROVE WaitInvNext(w)
    <2>1. SameWaiter
      BY <1>5 DEF StartFails, Idle, TypeOK
    <2>2. SameSession
      BY <1>5, StartFailsEffect DEF LatchedOnly
    <2> QED
      BY <1>1, <2>1, <2>2
  <1>6. ASSUME NEW c \in Client, RequestUnknown(c) \/ WaitEnds(c) \/ Leave(c)
        PROVE  WaitInvNext(w)
    <2>1. SameWaiter
      <3>1. /\ Idle.pc # "waiting"
            /\ Holding(client[c].sid).pc # "waiting"
        BY DEF Holding, Idle
      <3>2. \/ client' = [client EXCEPT ![c] = Idle]
            \/ client' = [client EXCEPT ![c] = Holding(client[c].sid)]
        BY <1>6 DEF RequestUnknown, WaitEnds, Leave
      <3> QED
        BY <3>1, <3>2 DEF TypeOK
    <2>2. SameSession
      BY <1>6 DEF RequestUnknown, WaitEnds, Leave, Live
    <2> QED
      BY <1>1, <2>1, <2>2
  \* Requests refresh the session they are for.
  <1>7. ASSUME NEW c \in Client,
               RequestFile(c) \/ \E g \in Segment : SegmentOnDisk(c, g)
        PROVE  WaitInvNext(w)
    <2>1. /\ sessions' = [sessions EXCEPT ![client[c].sid] = Touched(sessions[client[c].sid])]
          /\ client' = client
      BY <1>7 DEF RequestFile, SegmentOnDisk
    <2>2. SameSession
      BY <2>1 DEF Touched, Live, TypeOK, Session
    <2> QED
      BY <1>1, <2>1, <2>2
  <1>8. ASSUME NEW c \in Client, NEW g \in Segment,
               SegmentAwaited(c, g) \/ SegmentRestarts(c, g)
        PROVE  WaitInvNext(w)
    <2>1. /\ client[c].sid \in Live /\ Live' = Live
          /\ client' = [client EXCEPT ![c] = Waiting(client[c].sid, g)]
      BY <1>8 DEF SegmentAwaited, SegmentRestarts, Live
    <2>2. /\ sessions'[client[c].sid].consumed = TRUE
          /\ sessions'[client[c].sid].idle = 0
          /\ \A j \in Live \ {client[c].sid} : sessions'[j] = sessions[j]
      <3> DEFINE x == sessions[client[c].sid]
      <3>1. x \in Session
        BY <2>1 DEF TypeOK
      <3>2. PICK y : /\ y.consumed = TRUE /\ y.idle = 0
                     /\ sessions' = [sessions EXCEPT ![client[c].sid] = y]
        <4>1. Touched(x).consumed = TRUE /\ Touched(x).idle = 0
          BY <3>1 DEF Touched, Session
        <4>2. /\ Restarted(Touched(x), g).consumed = TRUE
              /\ Restarted(Touched(x), g).idle = 0
          BY <3>1 DEF Restarted, Touched, Session
        <4>3. \/ sessions' = [sessions EXCEPT ![client[c].sid] = Touched(x)]
              \/ sessions' = [sessions EXCEPT ![client[c].sid] = Restarted(Touched(x), g)]
          BY <1>8 DEF SegmentAwaited, SegmentRestarts
        <4> HIDE DEF x
        <4> QED
          BY <4>1, <4>2, <4>3
      <3> QED
        BY <3>2, <2>1 DEF TypeOK, Live
    <2>3. CASE w = c
      BY <2>1, <2>2, <2>3, TimeoutAssumption DEF WaitInvNext, Waiting, TypeOK
    <2>4. CASE w # c
      <3>1. SameWaiter
        BY <2>1, <2>4 DEF TypeOK
      <3>2. SameSession
        BY <2>1, <2>2
      <3> QED
        BY <1>1, <3>1, <3>2
    <2> QED
      BY <2>3, <2>4
  <1>9. ASSUME NEW c \in Client, NEW g \in Segment, SegmentSpawnFails(c, g)
        PROVE  WaitInvNext(w)
    <2>1. /\ sessions' = [sessions EXCEPT
                   ![client[c].sid] = [Touched(sessions[client[c].sid])
                                         EXCEPT !.exited = Polled(client[c].sid)]]
          /\ client' = client
      BY <1>9 DEF SegmentSpawnFails
    <2>2. SameSession
      BY <2>1 DEF Touched, Live, TypeOK, Session
    <2> QED
      BY <1>1, <2>1, <2>2
  <1>10. ASSUME NEW c \in Client, Stop(c) \/ StopDropped(c) PROVE WaitInvNext(w)
    <2>1. SameWaiter
      BY <1>10 DEF Stop, StopDropped, Idle, TypeOK
    <2>2. SameSession
      BY <1>10, StopEffect
    <2> QED
      BY <1>1, <2>1, <2>2
  \* Time passes for the session and for those waiting on it alike.
  <1>11. CASE Tick
    <2>1. /\ client'[w].pc = client[w].pc /\ client'[w].sid = client[w].sid
          /\ client[w].pc = "waiting" => /\ client'[w].timer = client[w].timer + 1
                                         /\ client[w].timer < WaitTimeout
      BY <1>11, <1>0 DEF Tick, ClientState
    <2>2. Live' = Live
      BY <1>11 DEF Tick, Live
    <2>3. ASSUME client[w].sid \in Live, sessions[client[w].sid].consumed
          PROVE  /\ sessions'[client[w].sid].consumed
                 /\ sessions'[client[w].sid].idle = sessions[client[w].sid].idle + 1
                 /\ sessions[client[w].sid].idle \in Nat
      BY <1>11, <2>3 DEF Tick, Aged, TypeOK, Session
    <2>4. client[w].timer \in Nat
      BY <1>0 DEF ClientState
    <2>5. client'[w].pc = "waiting" => client'[w].timer <= WaitTimeout
      BY <2>1, <2>4, TimeoutAssumption
    <2>6. ASSUME client[w].pc = "waiting", client[w].sid \in Live
          PROVE  /\ sessions'[client[w].sid].consumed
                 /\ sessions'[client[w].sid].idle <= client'[w].timer
      <3>1. sessions[client[w].sid].consumed /\ sessions[client[w].sid].idle <= client[w].timer
        BY <2>6 DEF WaitInv
      <3> QED
        BY <2>1, <2>3, <2>4, <2>6, <3>1
    <2> QED
      BY <2>1, <2>2, <2>5, <2>6 DEF WaitInvNext
  <1>12. CASE ReapIdle
    <2>1. SameWaiter
      BY <1>12 DEF ReapIdle
    <2>2. SameSession
      BY <1>12, ReapIdleEffect DEF LatchedOnly
    <2> QED
      BY <1>1, <2>1, <2>2
  <1>13. CASE UNCHANGED <<sessions, client>>
    BY <1>1, <1>13 DEF Live
  <1> QED
    BY <1>2, <1>3, <1>4, <1>5, <1>6, <1>7, <1>8, <1>9, <1>10, <1>11, <1>12, <1>13
       DEF Next, ClientStep, Produce, Exit, ReaperWakes, vars

LEMMA ReapSpares ==
  TypeOK /\ WaitInv /\ [Next]_vars =>
      (reaper = "locking" /\ reaper' = "sleeping" =>
         \A c \in Client : client[c].pc = "waiting" /\ client[c].sid \in Live
                              => client[c].sid \in Live')
  <1> SUFFICES ASSUME TypeOK, WaitInv, [Next]_vars,
                      reaper = "locking", reaper' = "sleeping",
                      NEW c \in Client, client[c].pc = "waiting", client[c].sid \in Live
               PROVE  client[c].sid \in Live'
    OBVIOUS
  <1> DEFINE x == sessions[client[c].sid]
  <1>1. ReapIdle
    BY DEF Next, ClientStep, StartReuse, StartRefused, StartNew, StartFails,
           RequestUnknown, RequestFile, SegmentOnDisk, SegmentAwaited,
           SegmentRestarts, SegmentSpawnFails, WaitEnds, Stop, StopDropped, Leave,
           Produce, Exit, Tick, ReaperWakes, vars
  <1>2. x.consumed /\ x.idle <= client[c].timer /\ client[c].timer <= WaitTimeout
    BY DEF WaitInv
  <1>3. x.idle \in Nat /\ sinceTick \in Nat /\ client[c].timer \in Nat
    BY DEF TypeOK, Session, ClientState
  <1>4. x.idle < IdleTimeout
    BY <1>2, <1>3, TimeoutAssumption
  <1>5. ~IsIdle(x, sinceTick) /\ ~IsAbandoned(x, sinceTick)
    BY <1>2, <1>3, <1>4, TimeoutAssumption DEF IsIdle, IsAbandoned, Elapsed
  <1>6. client[c].sid \notin Stale(sinceTick)
    BY <1>5 DEF Stale
  <1> QED
    BY <1>1, <1>6, ReapIdleEffect

\* However long the reaper waits for the lock with an old clock in hand, it
\* never drops a session a client is waiting on for a segment: such a wait
\* is shorter than IDLE_TIMEOUT, and the request marked the session consumed.
THEOREM WaitersAreSpared == Spec => ReaperSparesWaiters
  <1>1. Init => WaitInv
    BY DEF Init, WaitInv, Idle
  <1>2. Spec => []WaitInv
    BY <1>1, WaitStep, TypeCorrect, PTL DEF Spec
  <1>3. TypeOK /\ WaitInv /\ [Next]_vars =>
          [reaper = "locking" /\ reaper' = "sleeping" =>
             \A c \in Client : client[c].pc = "waiting" /\ client[c].sid \in Live
                                  => client[c].sid \in Live']_vars
    BY ReapSpares
  <1> QED
    BY <1>2, <1>3, TypeCorrect, PTL DEF Spec, ReaperSparesWaiters

-----------------------------------------------------------------------------
(* Processes and directories *)

\* Ids are not reused while their directory exists, so what was left behind is of no session.
OwnedInv == ResourcesOwned /\ left \cap Live = {}

\* A step that keeps the sessions and directories, and gives no process to nobody.
LEMMA OwnedKept ==
  ASSUME TypeOK, OwnedInv, Live' = Live, dirs' = dirs, left' = left,
         \A id \in Live : proc'[id] # "none",
         \A id \in SessionId \ Live : proc'[id] \in {proc[id], "none"}
  PROVE  OwnedInv'
  <1>1. \A id \in SessionId : proc'[id] \notin {"none", "killed"} => id \in Live
    BY DEF OwnedInv, ResourcesOwned
  <1> QED
    BY <1>1 DEF OwnedInv, ResourcesOwned

\* A teardown takes the process and the registration, and the directory unless its removal fails.
LEMMA OwnedTornDown ==
  ASSUME TypeOK, OwnedInv, NEW S, S \subseteq Live, Live' = Live \ S, Teardown(S)
  PROVE  OwnedInv'
  <1>1. PICK failed \in SUBSET S : dirs' = dirs \ (S \ failed) /\ left' = left \cup failed
    BY DEF Teardown, DirsAfterTeardown, LeavesBehind
  <1>2. dirs' = Live' \cup left' /\ left' \cap Live' = {}
    BY <1>1 DEF OwnedInv, ResourcesOwned
  <1>3. \A id \in SessionId : proc'[id] = IF id \in S THEN "none" ELSE proc[id]
    BY DEF Teardown, ProcAfterTeardown
  <1>4. Live \subseteq SessionId
    BY DEF TypeOK
  <1> QED
    BY <1>2, <1>3, <1>4 DEF OwnedInv, ResourcesOwned

\* A stop dropped half-way leaves a killed process, and a directory to `left`.
LEMMA StopDroppedOwned ==
  ASSUME TypeOK, OwnedInv, NEW c \in Client, StopDropped(c)
  PROVE  OwnedInv'
  <1> DEFINE id == client[c].sid
  <1>1. /\ id \in Live /\ id \in SessionId /\ Live' = Live \ {id}
        /\ dirs' = dirs /\ left' = left \cup {id}
        /\ proc' = [proc EXCEPT ![id] = "killed"]
    BY WithoutDomain DEF StopDropped, Live, TypeOK
  <1>2. dirs' = Live' \cup left' /\ left' \cap Live' = {}
    BY <1>1 DEF OwnedInv, ResourcesOwned
  <1>3. proc'[id] = "killed" /\ \A j \in SessionId \ {id} : proc'[j] = proc[j]
    BY <1>1 DEF TypeOK
  <1>4. Live \subseteq SessionId
    BY DEF TypeOK
  <1> QED
    BY <1>1, <1>2, <1>3, <1>4 DEF OwnedInv, ResourcesOwned

LEMMA StartNewOwned ==
  ASSUME TypeOK, OwnedInv, NEW c \in Client, NEW k \in Key, StartNew(c, k)
  PROVE  OwnedInv'
  <1>1. PICK V \in Victims, n \in Unused :
           /\ Live' = (Live \ V) \cup {n}
           /\ proc' = [ProcAfterTeardown(V) EXCEPT ![n] = "running"]
           /\ \E failed \in SUBSET V :
                 dirs' = DirsAfterTeardown(V \ failed) \cup {n} /\ LeavesBehind(failed)
    BY StartNewEffect, Zenon
  <1>2. V \subseteq Live /\ n \in SessionId /\ n \notin Live /\ n \notin dirs
    BY VictimFacts DEF Unused
  <1>3. dirs' = Live' \cup left' /\ left' \cap Live' = {}
    <2>1. PICK failed \in SUBSET V : dirs' = (dirs \ (V \ failed)) \cup {n} /\ left' = left \cup failed
      BY <1>1 DEF DirsAfterTeardown, LeavesBehind
    <2> QED
      BY <1>1, <1>2, <2>1 DEF OwnedInv, ResourcesOwned
  <1>4. \A id \in SessionId :
           proc'[id] = IF id = n THEN "running" ELSE IF id \in V THEN "none" ELSE proc[id]
    BY <1>1 DEF ProcAfterTeardown
  <1>5. Live \subseteq SessionId
    BY DEF TypeOK
  <1> QED
    BY <1>1, <1>2, <1>3, <1>4, <1>5 DEF OwnedInv, ResourcesOwned

LEMMA StartFailsOwned ==
  ASSUME TypeOK, OwnedInv, NEW c \in Client, NEW k \in Key, StartFails(c, k)
  PROVE  OwnedInv'
  <1>1. PICK V \in Victims, n \in Unused :
           /\ Live' = Live \ V
           /\ proc' = ProcAfterTeardown(V)
           /\ \E failed \in SUBSET V, made \in {{}, {n}} :
                 /\ dirs' = DirsAfterTeardown(V \ failed) \cup made
                 /\ left' = left \cup failed \cup made
    BY StartFailsEffect, Zenon
  <1>2. V \subseteq Live /\ n \notin Live
    BY VictimFacts DEF Unused
  <1>3. dirs' = Live' \cup left' /\ left' \cap Live' = {}
    <2>1. PICK failed \in SUBSET V, made \in {{}, {n}} :
             dirs' = (dirs \ (V \ failed)) \cup made /\ left' = left \cup failed \cup made
      BY <1>1 DEF DirsAfterTeardown
    <2> QED
      BY <1>1, <1>2, <2>1 DEF OwnedInv, ResourcesOwned
  <1>4. \A id \in SessionId : proc'[id] = IF id \in V THEN "none" ELSE proc[id]
    BY <1>1 DEF ProcAfterTeardown
  <1>5. Live \subseteq SessionId
    BY DEF TypeOK
  <1> QED
    BY <1>1, <1>3, <1>4, <1>5 DEF OwnedInv, ResourcesOwned

LEMMA OwnedStep == TypeOK /\ OwnedInv /\ [Next]_vars => OwnedInv'
  <1> SUFFICES ASSUME TypeOK, OwnedInv, [Next]_vars
               PROVE  OwnedInv'
    OBVIOUS
  <1>0. \A id \in Live : proc[id] # "none"
    BY DEF OwnedInv, ResourcesOwned
  <1>1. ASSUME NEW c \in Client, NEW k \in Key, StartReuse(c, k) \/ StartRefused(c, k)
        PROVE  OwnedInv'
    <2>1. Live' = Live
      BY <1>1, StartReuseEffect, StartRefusedEffect
    <2>2. proc' = proc /\ dirs' = dirs /\ left' = left
      BY <1>1 DEF StartReuse, StartRefused
    <2> QED
      BY <1>0, <2>1, <2>2, OwnedKept
  <1>2. ASSUME NEW c \in Client,
               \/ RequestUnknown(c) \/ RequestFile(c) \/ WaitEnds(c) \/ Leave(c)
               \/ \E g \in Segment : SegmentOnDisk(c, g) \/ SegmentAwaited(c, g)
        PROVE  OwnedInv'
    <2>1. Live' = Live /\ proc' = proc /\ dirs' = dirs /\ left' = left
      BY <1>2 DEF RequestUnknown, RequestFile, WaitEnds, Leave, SegmentOnDisk, SegmentAwaited, Live
    <2> QED
      BY <1>0, <2>1, OwnedKept
  <1>3. ASSUME NEW c \in Client, NEW g \in Segment, SegmentRestarts(c, g) \/ SegmentSpawnFails(c, g)
        PROVE  OwnedInv'
    <2> DEFINE sid == client[c].sid
    <2>1. sid \in Live /\ Live' = Live /\ dirs' = dirs /\ left' = left
      BY <1>3 DEF SegmentRestarts, SegmentSpawnFails, Live
    <2>2. sid \in SessionId /\ proc[sid] # "none"
      BY <1>0, <2>1 DEF TypeOK
    <2>3. proc'[sid] # "none" /\ \A id \in SessionId : id # sid => proc'[id] = proc[id]
      BY <1>3, <2>2 DEF SegmentRestarts, SegmentSpawnFails, TypeOK
    <2>4. Live \subseteq SessionId
      BY DEF TypeOK
    <2> QED
      BY <1>0, <2>1, <2>3, <2>4, OwnedKept
  <1>4. ASSUME NEW c \in Client, Stop(c) PROVE OwnedInv'
    <2> DEFINE S == {client[c].sid} \cap Live
    <2>1. Live' = Live \ S /\ Teardown(S)
      BY <1>4, WithoutDomain DEF Stop, Live
    <2> QED
      BY <2>1, OwnedTornDown
  <1>5. ASSUME NEW x \in SessionId, Produce(x) \/ Exit(x) PROVE OwnedInv'
    <2>1. Live' = Live /\ dirs' = dirs /\ left' = left
      BY <1>5 DEF Produce, Exit, Live
    <2>2. /\ x \notin Live => proc'[x] \in {proc[x], "none"}
          /\ x \in Live => proc'[x] # "none"
      <3>1. proc[x] \in {"running", "killed"} => x \in Live \/ proc[x] = "killed"
        BY DEF OwnedInv, ResourcesOwned
      <3> QED
        BY <1>0, <1>5, <3>1 DEF Produce, Exit, TypeOK
    <2>3. \A id \in SessionId \ {x} : proc'[id] = proc[id]
      BY <1>5 DEF Produce, Exit, TypeOK
    <2>4. Live \subseteq SessionId
      BY DEF TypeOK
    <2> QED
      BY <1>0, <2>1, <2>2, <2>3, <2>4, OwnedKept
  <1>6. CASE Tick \/ ReaperWakes \/ UNCHANGED vars
    <2>1. Live' = Live /\ proc' = proc /\ dirs' = dirs /\ left' = left
      BY <1>6 DEF Tick, ReaperWakes, vars, Live
    <2> QED
      BY <1>0, <2>1, OwnedKept
  <1>7. CASE ReapIdle
    <2>1. Live' = Live \ Stale(sinceTick) /\ Teardown(Stale(sinceTick))
      BY <1>7, ReapIdleEffect
    <2>2. Stale(sinceTick) \subseteq Live
      BY DEF Stale
    <2> QED
      BY <2>1, <2>2, OwnedTornDown
  <1> QED
    BY <1>1, <1>2, <1>3, <1>4, <1>5, <1>6, <1>7, StartNewOwned, StartFailsOwned,
       StopDroppedOwned DEF Next, ClientStep

\* No process that was not killed without a registered session, no session without its process and
\* directory, and no directory left over but by a start, a removal or a stop that did not complete.
THEOREM ResourcesAlwaysOwned == Spec => []ResourcesOwned
  <1>1. Init => OwnedInv
    BY DEF Init, OwnedInv, ResourcesOwned, Live
  <1>2. OwnedInv => ResourcesOwned
    BY DEF OwnedInv
  <1> QED
    BY <1>1, <1>2, OwnedStep, TypeCorrect, PTL DEF Spec

-----------------------------------------------------------------------------
(* The pool of encoders *)

\* What the pool sees of a session.
Usable(id) == proc[id] # "failed"

LEMMA SlotFacts ==
  /\ DOMAIN Slots = Live
  /\ \A id \in Live : Slots[id] = [key |-> sessions[id].key, usable |-> Usable(id)]
  /\ \A id \in Live : Slots[id].key = sessions[id].key /\ Slots[id].usable = Usable(id)
  BY DEF Slots, Usable

\* The pool counts as the manager does.
LEMMA PoolCounts == \A S : Pool!Cardinality(S) = Cardinality(S)
  BY DEF Pool!Cardinality, Cardinality, Pool!IsFiniteSet, IsFiniteSet

\* An access or a restart is of the same output.
LEMMA SameKey ==
  ASSUME NEW s \in Session
  PROVE  /\ Touched(s).key = s.key
         /\ \A g : Restarted(Touched(s), g).key = s.key
         /\ \A e : [Touched(s) EXCEPT !.exited = e].key = s.key
         /\ Aged(s).key = s.key
  BY DEF Touched, Restarted, Aged, Session

\* Sessions that keep their keys and processes are the same slots.
LEMMA SameSlots ==
  ASSUME Live' = Live, \A id \in Live : sessions'[id].key = sessions[id].key,
         \A id \in Live : Usable(id)' = Usable(id)
  PROVE  Slots' = Slots
  BY DEF Slots, Usable

\* Sessions that go away are slots that are closed.
LEMMA FewerSlots ==
  ASSUME TypeOK, NEW S, S \subseteq Live, Live' = Live \ S,
         \A id \in Live \ S : sessions'[id].key = sessions[id].key /\ proc'[id] = proc[id]
  PROVE  [Pool!Next]_Slots
  <1>1. Slots' = [i \in Live \ S |-> Slots[i]]
    BY DEF Slots
  <1>2. CASE S = {}
    <2>1. Slots' = Slots
      BY <1>2, SameSlots DEF Usable
    <2> QED
      BY <2>1
  <1>3. CASE S # {}
    <2>1. S \in SUBSET SessionId
      BY DEF TypeOK
    <2>2. Pool!Close(S)
      BY <1>1, <1>3, SlotFacts DEF Pool!Close, Pool!InUse
    <2> QED
      BY <2>1, <2>2 DEF Pool!Next
  <1> QED
    BY <1>2, <1>3

\* The slot of one session changes, if at all, in being usable.
LEMMA OneSlotFlips ==
  ASSUME TypeOK, NEW id \in SessionId, Live' = Live,
         \A j \in Live : sessions'[j].key = sessions[j].key,
         \A j \in Live \ {id} : proc'[j] = proc[j]
  PROVE  [Pool!Next]_Slots
  <1>1. CASE id \in Live /\ Usable(id)' # Usable(id)
    <2>1. Slots' = [Slots EXCEPT ![id].usable = ~@]
      BY <1>1 DEF Slots, Usable
    <2>2. Pool!Flip(id)
      BY <1>1, <2>1, SlotFacts DEF Pool!Flip, Pool!InUse
    <2> QED
      BY <2>2 DEF Pool!Next
  <1>2. CASE ~(id \in Live /\ Usable(id)' # Usable(id))
    <2>1. \A j \in Live : Usable(j)' = Usable(j)
      BY <1>2 DEF Usable
    <2>2. Slots' = Slots
      BY <2>1, SameSlots
    <2> QED
      BY <2>2
  <1> QED
    BY <1>1, <1>2

\* A session that counts as dead has failed: by the latch, or by the poll.
LEMMA DeadHasFailed ==
  ASSUME TypeOK, LatchFaithful, NEW id \in Dead
  PROVE  id \in Live /\ ~Usable(id)
  BY PolledFaithful DEF Dead, Reusable, Usable

\* A new session is a slot opened at the expense of at most one broken slot.
LEMMA StartNewOpens ==
  ASSUME TypeOK, LatchFaithful, CapacityInv, CapacityInv',
         NEW c \in Client, NEW k \in Key, StartNew(c, k)
  PROVE  Pool!Next
  <1>1. PICK V \in Victims, n \in Unused :
           /\ Live' = (Live \ V) \cup {n}
           /\ sessions'[n] = NewSession(k)
           /\ \A j \in Live \ V : j # n /\ LatchedOnly(j, sessions'[j])
           /\ proc' = [ProcAfterTeardown(V) EXCEPT ![n] = "running"]
    BY StartNewEffect
  <1>2. n \in SessionId /\ n \notin Live
    BY DEF Unused
  <1>3. \A i \in Live : sessions[i].key = k => ~Usable(i)
    BY DeadHasFailed DEF StartNew, Matching
  <1>4. V = {} \/ \E i \in Live : V = {i} /\ ~Usable(i) /\ Full
    BY VictimFacts, DeadHasFailed DEF Victims
  <1>5. Cardinality((Live \ V) \cup {n}) <= Cap
    BY <1>1 DEF CapacityInv, CapacityRespected, Cap
  <1>6. Full => Cardinality(Live) >= Cap
    BY DEF Full
  <1>7. Slots' = [i \in (Live \ V) \cup {n} |->
                     IF i = n THEN [key |-> k, usable |-> TRUE] ELSE Slots[i]]
    <2>1. Usable(n)' /\ sessions'[n].key = k
      BY <1>1, <1>2 DEF Usable, NewSession, ProcAfterTeardown
    <2>2. \A i \in Live \ V : sessions'[i].key = sessions[i].key /\ Usable(i)' = Usable(i)
      BY <1>1, <1>2 DEF LatchedOnly, Usable, ProcAfterTeardown, TypeOK
    <2> QED
      BY <1>1, <2>1, <2>2 DEF Slots, Usable
  <1>8. Pool!InUse = Live /\ Pool!Broken = {i \in Live : ~Usable(i)}
    BY SlotFacts DEF Pool!InUse, Pool!Broken
  <1>9. V \in {{}} \cup {{i} : i \in Pool!Broken}
    BY <1>4, <1>8
  <1>10. V # {} => Cardinality(Live) >= Cap
    BY <1>4, <1>6
  <1>11. \A i \in Live : Slots[i].key = k => i \in Pool!Broken
    BY <1>3, <1>8, SlotFacts
  <1>12. Pool!Open(n, k)
    BY <1>2, <1>5, <1>7, <1>8, <1>9, <1>10, <1>11, PoolCounts DEF Pool!Open
  <1> QED
    BY <1>2, <1>12 DEF Pool!Next

LEMMA PoolStep ==
  TypeOK /\ LatchFaithful /\ CapacityInv /\ [Next]_vars => [Pool!Next]_Slots
  <1> SUFFICES ASSUME TypeOK, LatchFaithful, CapacityInv, CapacityInv', [Next]_vars
               PROVE  [Pool!Next]_Slots
    BY CapacityStep
  <1>1. ASSUME NEW c \in Client, NEW k \in Key, StartReuse(c, k) \/ StartRefused(c, k)
        PROVE  [Pool!Next]_Slots
    <2>1. Live' = Live /\ \A id \in Live : sessions'[id].key = sessions[id].key
      BY <1>1, StartReuseEffect, StartRefusedEffect DEF LatchedOnly
    <2>2. proc' = proc
      BY <1>1 DEF StartReuse, StartRefused
    <2>3. Slots' = Slots
      BY <2>1, <2>2, SameSlots DEF Usable
    <2> QED
      BY <2>3
  <1>2. ASSUME NEW c \in Client, NEW k \in Key, StartFails(c, k) PROVE [Pool!Next]_Slots
    <2>1. PICK V \in Victims :
             /\ Live' = Live \ V
             /\ \A j \in Live \ V : LatchedOnly(j, sessions'[j])
             /\ proc' = ProcAfterTeardown(V)
      BY <1>2, StartFailsEffect
    <2>2. V \subseteq Live
      BY VictimFacts
    <2>3. \A j \in Live \ V : sessions'[j].key = sessions[j].key /\ proc'[j] = proc[j]
      BY <2>1 DEF LatchedOnly, ProcAfterTeardown, TypeOK
    <2> QED
      BY <2>1, <2>2, <2>3, FewerSlots
  <1>3. ASSUME NEW c \in Client,
               \/ RequestUnknown(c) \/ RequestFile(c) \/ WaitEnds(c) \/ Leave(c)
               \/ \E g \in Segment : SegmentOnDisk(c, g) \/ SegmentAwaited(c, g)
        PROVE  [Pool!Next]_Slots
    <2>1. proc' = proc
      BY <1>3 DEF RequestUnknown, RequestFile, WaitEnds, Leave, SegmentOnDisk, SegmentAwaited
    <2>2. \/ sessions' = sessions
          \/ /\ client[c].sid \in Live
             /\ sessions' = [sessions EXCEPT ![client[c].sid] = Touched(sessions[client[c].sid])]
      BY <1>3 DEF RequestUnknown, RequestFile, WaitEnds, Leave, SegmentOnDisk, SegmentAwaited
    <2>3. Live' = Live /\ \A id \in Live : sessions'[id].key = sessions[id].key
      <3>1. \A id \in Live : sessions[id] \in Session
        BY DEF TypeOK
      <3> QED
        BY <2>2, <3>1, SameKey DEF Live
    <2>4. Slots' = Slots
      BY <2>1, <2>3, SameSlots DEF Usable
    <2> QED
      BY <2>4
  <1>4. ASSUME NEW c \in Client, NEW g \in Segment, SegmentRestarts(c, g) \/ SegmentSpawnFails(c, g)
        PROVE  [Pool!Next]_Slots
    <2> DEFINE sid == client[c].sid
    <2>1. sid \in Live /\ sid \in SessionId /\ Live' = Live
      BY <1>4 DEF SegmentRestarts, SegmentSpawnFails, Live, TypeOK
    <2>2. \A j \in Live : sessions'[j].key = sessions[j].key
      <3>1. sessions[sid] \in Session
        BY <2>1 DEF TypeOK
      <3>2. PICK s : sessions' = [sessions EXCEPT ![sid] = s] /\ s.key = sessions[sid].key
        <4>1. CASE SegmentRestarts(c, g)
          <5> WITNESS Restarted(Touched(sessions[sid]), g)
          <5> QED
            BY <3>1, <4>1, SameKey DEF SegmentRestarts
        <4>2. CASE SegmentSpawnFails(c, g)
          <5> WITNESS [Touched(sessions[sid]) EXCEPT !.exited = Polled(sid)]
          <5> QED
            BY <3>1, <4>2, SameKey DEF SegmentSpawnFails
        <4> QED
          BY <1>4, <4>1, <4>2
      <3> QED
        BY <2>1, <3>2 DEF Live
    <2>3. \A j \in Live \ {sid} : proc'[j] = proc[j]
      BY <1>4, <2>1 DEF SegmentRestarts, SegmentSpawnFails, TypeOK
    <2> QED
      BY <2>1, <2>2, <2>3, OneSlotFlips
  <1>5. ASSUME NEW c \in Client, Stop(c) \/ StopDropped(c) PROVE [Pool!Next]_Slots
    <2>1. PICK S \in SUBSET Live :
             /\ Live' = Live \ S
             /\ \A j \in Live \ S : sessions'[j] = sessions[j]
             /\ \A j \in SessionId \ S : proc'[j] = proc[j]
      BY <1>5, StopEffect
    <2>2. \A j \in Live \ S : sessions'[j].key = sessions[j].key /\ proc'[j] = proc[j]
      BY <2>1 DEF TypeOK
    <2> QED
      BY <2>1, <2>2, FewerSlots
  <1>6. ASSUME NEW x \in SessionId, Produce(x) \/ Exit(x) PROVE [Pool!Next]_Slots
    <2>1. sessions' = sessions /\ Live' = Live
      BY <1>6 DEF Produce, Exit, Live
    <2>2. \A j \in Live \ {x} : proc'[j] = proc[j]
      BY <1>6 DEF Produce, Exit, TypeOK
    <2> QED
      BY <2>1, <2>2, OneSlotFlips
  <1>7. CASE Tick \/ ReaperWakes \/ UNCHANGED vars
    <2>1. Live' = Live /\ proc' = proc
      BY <1>7 DEF Tick, ReaperWakes, vars, Live
    <2>2. \A id \in Live : sessions'[id].key = sessions[id].key
      <3>1. Tick => \A id \in Live : sessions[id] \in Session /\ sessions'[id] = Aged(sessions[id])
        BY DEF Tick, TypeOK
      <3>2. Tick => \A id \in Live : sessions'[id].key = sessions[id].key
        BY <3>1, SameKey
      <3>3. ReaperWakes \/ UNCHANGED vars => sessions' = sessions
        BY DEF ReaperWakes, vars
      <3> QED
        BY <1>7, <3>2, <3>3
    <2>3. Slots' = Slots
      BY <2>1, <2>2, SameSlots DEF Usable
    <2> QED
      BY <2>3
  <1>8. CASE ReapIdle
    <2>1. /\ Live' = Live \ Stale(sinceTick)
          /\ \A j \in Live \ Stale(sinceTick) : LatchedOnly(j, sessions'[j])
          /\ Teardown(Stale(sinceTick))
      BY <1>8, ReapIdleEffect
    <2>2. Stale(sinceTick) \subseteq Live
      BY DEF Stale
    <2>3. \A j \in Live \ Stale(sinceTick) : sessions'[j].key = sessions[j].key /\ proc'[j] = proc[j]
      BY <2>1 DEF LatchedOnly, Teardown, ProcAfterTeardown, TypeOK
    <2> QED
      BY <2>1, <2>2, <2>3, FewerSlots
  <1> QED
    BY <1>1, <1>2, <1>3, <1>4, <1>5, <1>6, <1>7, <1>8, StartNewOpens DEF Next, ClientStep

\* The session manager is a bounded pool of encoders: a slot is opened only for an output no usable
\* slot encodes, within the cap, and makes room only at the expense of a broken one.
THEOREM ManagerImplementsPool == Spec => ImplementsPool
  <1>1. Init => Pool!Init
    BY DEF Init, Pool!Init, Slots, Live
  <1>2. Spec => []CapacityInv
    <2>1. Init => CapacityInv
      BY FS_EmptySet, CapType DEF Init, CapacityInv, CapacityRespected, Live
    <2> QED
      BY <2>1, CapacityStep, TypeCorrect, PTL DEF Spec
  <1> QED
    BY <1>1, <1>2, PoolStep, LatchIsFaithful, TypeCorrect, PTL DEF Spec, ImplementsPool, Pool!Spec

=============================================================================
