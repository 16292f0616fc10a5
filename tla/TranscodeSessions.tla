-------------------------- MODULE TranscodeSessions --------------------------
(***************************************************************************)
(* The transcode session manager (crates/transcode/src/session.rs) with    *)
(* the processes around it: HTTP clients, one ffmpeg child per session,    *)
(* the background reaper and the clock.                                    *)
(*                                                                         *)
(* Every manager operation runs under one mutex over the session map, so   *)
(* each is one action.  What happens outside the lock is separate: ffmpeg  *)
(* writing segments and exiting, a client waiting for its segment, and the *)
(* reaper between reading its clock and obtaining the lock.                *)
(*                                                                         *)
(* Time advances in ticks.  Instants are kept as ages (ticks since), which *)
(* is all the code computes from them.                                     *)
(***************************************************************************)
EXTENDS Naturals, FiniteSets, Functions

CONSTANTS
    Client,              \* HTTP clients
    Key,                 \* fingerprints of (input, target, audio)
    SessionId,           \* ids new_session_id can return
    NoSession,           \* "this client holds no session id"
    ConfiguredCap,       \* max_sessions as configured, possibly 0
    LastSegment,         \* index of a title's last segment
    Lookahead,           \* SEEK_LOOKAHEAD_SEGMENTS
    IdleTimeout,         \* IDLE_TIMEOUT, in ticks
    UnconsumedTimeout,   \* UNCONSUMED_TIMEOUT, in ticks
    WaitTimeout,         \* ensure_segment's wait for a path, in ticks
    ReaperPeriod,        \* the reaper's interval, in ticks
    MaxLag,              \* bound: longest wait of the reaper for the lock
    MaxFaults            \* bound: failed starts, restarts, removals and dropped stops

ASSUME NoSessionAssumption == NoSession \notin SessionId

ASSUME BoundsAssumption ==
    /\ ConfiguredCap \in Nat /\ LastSegment \in Nat /\ Lookahead \in Nat
    /\ MaxFaults \in Nat /\ MaxLag \in Nat

\* 60s, 20s, 15s and 15s in the code: every timeout is positive, a client
\* never waits for a segment as long as a session may idle, and the reaper
\* gets the lock before its next interval tick.
ASSUME TimeoutAssumption ==
    /\ IdleTimeout \in Nat \ {0}
    /\ UnconsumedTimeout \in Nat \ {0}
    /\ WaitTimeout \in Nat \ {0}
    /\ ReaperPeriod \in Nat \ {0}
    /\ WaitTimeout < IdleTimeout
    /\ MaxLag < ReaperPeriod

VARIABLES
    (* The manager *)
    sessions,    \* the HashMap: a function from the live ids to sessions
    (* The operating system *)
    proc,        \* proc[id]: state of the session's current ffmpeg process
    next,        \* next[id]: the segment that process writes next
    dirs,        \* session directories that exist under hls_root
    segs,        \* segs[id]: complete segment files of a registered session
    faults,      \* operations that failed so far
    left,        \* history: the directories they left behind
    (* Clients and the reaper *)
    client,      \* what each client is doing
    reaper,      \* "sleeping" or "locking" (clock read, lock not yet held)
    sinceTick    \* ticks since the reaper's interval last fired

vars == <<sessions, proc, next, dirs, segs, faults, left, client, reaper, sinceTick>>

-----------------------------------------------------------------------------
(* Types *)

Segment == 0 .. LastSegment
Live == DOMAIN sessions
Cap == IF ConfiguredCap = 0 THEN 1 ELSE ConfiguredCap

Session == [key : Key, idle : Nat, age : Nat, consumed : BOOLEAN,
            exited : {"none", "ok", "failed"}, from : Segment]

\* "killed" is a process that was sent SIGKILL and has not exited yet.
ProcState == {"none", "running", "killed", "ok", "failed"}

ClientState == [pc : {"idle", "refused", "holding", "waiting"},
                sid : SessionId \cup {NoSession}, want : Segment, timer : Nat]

Idle == [pc |-> "idle", sid |-> NoSession, want |-> 0, timer |-> 0]
Refused == [Idle EXCEPT !.pc = "refused"]
Holding(id) == [Idle EXCEPT !.pc = "holding", !.sid = id]
Waiting(id, g) == [pc |-> "waiting", sid |-> id, want |-> g, timer |-> 0]

\* Sessions, processes, clients and clocks are well formed; what an encoder writes next stays within
\* the title (session.rs).
TypeOK ==
    /\ Live \subseteq SessionId
    /\ sessions \in [Live -> Session]
    /\ proc \in [SessionId -> ProcState]
    /\ next \in [SessionId -> 0 .. (LastSegment + 1)]
    /\ dirs \subseteq SessionId
    /\ segs \in [SessionId -> SUBSET Segment]
    /\ faults \in 0 .. MaxFaults
    /\ left \subseteq SessionId
    /\ client \in [Client -> ClientState]
    /\ reaper \in {"sleeping", "locking"}
    /\ sinceTick \in 0 .. ReaperPeriod

-----------------------------------------------------------------------------
(* The manager's rules, as operators on one session *)

NewSession(k) == [key |-> k, idle |-> 0, age |-> 0, consumed |-> FALSE,
                  exited |-> "none", from |-> 0]

\* Child::try_wait: reports an exit only once the process is gone.
TryWait(id) == IF proc[id] \in {"ok", "failed"} THEN proc[id] ELSE "none"

\* The value of `exited` after poll_reusable.
Polled(id) == IF sessions[id].exited = "none" THEN TryWait(id)
                                              ELSE sessions[id].exited

Reusable(id) == Polled(id) # "failed"

\* FAULTY (mutant of Latched): polling a session counts as an access to it.
LatchedRefreshes(S) == [id \in Live |-> IF id \in S
                               THEN [sessions[id] EXCEPT !.exited = Polled(id), !.idle = 0]
                               ELSE sessions[id]]

\* The session map after poll_reusable ran on the sessions of S.
Latched(S) == [id \in Live |-> IF id \in S
                               THEN [sessions[id] EXCEPT !.exited = Polled(id)]
                               ELSE sessions[id]]

\* FAULTY (mutant of Touched): the access is not recorded as consumption.
TouchedUnconsumed(s) == [s EXCEPT !.idle = 0]

\* A file of the session was requested: it is a real playback.
Touched(s) == [s EXCEPT !.idle = 0, !.consumed = TRUE]

\* The running ffmpeg is expected to reach segment g soon.
InWindow(s, g) == s.from <= g /\ g <= s.from + Lookahead

\* FAULTY (mutants of Restarted): the origin of the window stays behind; the
\* outcome of the replaced process stays latched; the origin is off by one.
RestartedKeepsOrigin(s, g) == [s EXCEPT !.exited = "none"]
RestartedKeepsOutcome(s, g) == [s EXCEPT !.from = g]
RestartedOneLate(s, g) == [s EXCEPT !.exited = "none", !.from = g + 1]

\* A fresh ffmpeg now produces from segment g.
Restarted(s, g) == [s EXCEPT !.exited = "none", !.from = g]

\* reap_idle's verdict, with a clock that was read `lag` ticks ago
\* (Instant::duration_since saturates at zero, as Nat subtraction must).
Elapsed(n, lag) == IF n >= lag THEN n - lag ELSE 0
IsIdleOneLate(s, lag) == Elapsed(s.idle, lag) > IdleTimeout    \* FAULTY
IsIdle(s, lag) == Elapsed(s.idle, lag) >= IdleTimeout
IsAbandoned(s, lag) == ~s.consumed /\ Elapsed(s.age, lag) >= UnconsumedTimeout

\* The map without the sessions of S, and their teardown: the process is
\* killed and waited for, the directory removed.  A removal may fail (it is
\* only logged) and leaves the directory with what it had not deleted.
Without(f, S) == Restrict(f, DOMAIN f \ S)
ProcAfterTeardown(S) == [id \in SessionId |-> IF id \in S THEN "none" ELSE proc[id]]
SegsAfterTeardown(S) == [id \in SessionId |-> IF id \in S THEN {} ELSE segs[id]]
DirsKept(S) == dirs    \* FAULTY (mutant of DirsAfterTeardown)
DirsAfterTeardown(S) == dirs \ S

\* An operation that leaves the directories of `failed` behind, if any.
LeavesBehind(failed) ==
    /\ failed # {} => faults < MaxFaults
    /\ faults' = IF failed = {} THEN faults ELSE faults + 1
    /\ left' = left \cup failed

Teardown(S) ==
    /\ proc' = ProcAfterTeardown(S)
    /\ segs' = SegsAfterTeardown(S)
    /\ \E failed \in SUBSET S :
          dirs' = DirsAfterTeardown(S \ failed) /\ LeavesBehind(failed)

-----------------------------------------------------------------------------
(* start *)

Init ==
    /\ sessions = [id \in {} |-> NewSession(CHOOSE k \in Key : TRUE)]
    /\ proc = [id \in SessionId |-> "none"]
    /\ next = [id \in SessionId |-> 0]
    /\ dirs = {}
    /\ segs = [id \in SessionId |-> {}]
    /\ faults = 0 /\ left = {}
    /\ client = [c \in Client |-> Idle]
    /\ reaper = "sleeping"
    /\ sinceTick = 0

Matching(k) == {id \in Live : sessions[id].key = k}
DeadOrDone == {id \in Live : Polled(id) # "none"}    \* FAULTY (mutant of Dead)
Dead == {id \in Live : ~Reusable(id)}
OverFull == Cardinality(Live) > Cap    \* FAULTY (mutant of Full)
Full == Cardinality(Live) >= Cap

\* Random ids: never one that is in use, on disk or still held by a client.
Unused == SessionId \ (Live \cup dirs \cup {client[c].sid : c \in Client})

\* A session with the same key that runs or finished cleanly is handed out
\* again.  The scan stops at it, so it may have polled some dead ones first.
StartReuse(c, k) ==
    /\ client[c].pc # "waiting"
    /\ \E id \in Matching(k) \ Dead, skipped \in SUBSET (Matching(k) \cap Dead) :
          /\ sessions' = [Latched(skipped \cup {id}) EXCEPT ![id].idle = 0]
          /\ client' = [client EXCEPT ![c] = Holding(id)]
    /\ UNCHANGED <<proc, next, dirs, segs, faults, left, reaper, sinceTick>>

\* At the cap, and no session is dead: 409 to the client.
StartRefused(c, k) ==
    /\ client[c].pc # "waiting"
    /\ Matching(k) \subseteq Dead
    /\ Full /\ Dead = {}
    /\ sessions' = Latched(Live)
    /\ client' = [client EXCEPT ![c] = Refused]
    /\ UNCHANGED <<proc, next, dirs, segs, faults, left, reaper, sinceTick>>

\* What start evicts before it spawns: at the cap, one dead session.
Victims == IF Full THEN {{id} : id \in Dead} ELSE {{}}

\* The search for a victim stops at it, and may have polled some of these.
Scanned == IF Full THEN Live \ Dead ELSE {}

\* The sessions left after both scans of start(k).
Kept(k, V, passed) == Without(Latched(Matching(k) \cup passed), V)

\* A session without a predecessor: new id, new directory, new ffmpeg.
StartNew(c, k) ==
    /\ client[c].pc # "waiting"
    /\ Matching(k) \subseteq Dead
    /\ \E V \in Victims, passed \in SUBSET Scanned, id \in Unused : \E failed \in SUBSET V :
          LET kept == Kept(k, V, passed) IN
          /\ sessions' = [j \in DOMAIN kept \cup {id} |->
                              IF j = id THEN NewSession(k) ELSE kept[j]]
          /\ proc' = [ProcAfterTeardown(V) EXCEPT ![id] = "running"]
          /\ next' = [next EXCEPT ![id] = 0]
          /\ dirs' = DirsAfterTeardown(V \ failed) \cup {id}
          /\ segs' = SegsAfterTeardown(V)
          /\ LeavesBehind(failed)
          /\ client' = [client EXCEPT ![c] = Holding(id)]
    /\ UNCHANGED <<reaper, sinceTick>>

\* create_dir_all or the spawn fails.  The eviction has already happened,
\* and after a failed spawn the new directory stays behind.
StartFails(c, k) ==
    /\ client[c].pc # "waiting"
    /\ Matching(k) \subseteq Dead
    /\ faults < MaxFaults
    /\ faults' = faults + 1
    /\ \E V \in Victims, passed \in SUBSET Scanned, id \in Unused :
       \E failed \in SUBSET V, made \in {{}, {id}} :
          /\ sessions' = Kept(k, V, passed)
          /\ proc' = ProcAfterTeardown(V)
          /\ segs' = SegsAfterTeardown(V)
          /\ dirs' = DirsAfterTeardown(V \ failed) \cup made
          /\ left' = left \cup failed \cup made
    /\ client' = [client EXCEPT ![c] = Idle]
    /\ UNCHANGED <<next, reaper, sinceTick>>

-----------------------------------------------------------------------------
(* Requests for a session's files *)

\* An id that is no longer registered: 404, the client gives the session up.
RequestUnknown(c) ==
    /\ client[c].pc = "holding"
    /\ client[c].sid \notin Live
    /\ client' = [client EXCEPT ![c] = Idle]
    /\ UNCHANGED <<sessions, proc, next, dirs, segs, faults, left, reaper, sinceTick>>

\* vod_playlist and resolve_file.
RequestFile(c) ==
    LET id == client[c].sid IN
    /\ client[c].pc = "holding"
    /\ id \in Live
    /\ sessions' = [sessions EXCEPT ![id] = Touched(sessions[id])]
    /\ UNCHANGED <<proc, next, dirs, segs, faults, left, client, reaper, sinceTick>>

\* ensure_segment: the segment is on disk.
SegmentOnDisk(c, g) ==
    LET id == client[c].sid IN
    /\ client[c].pc = "holding"
    /\ id \in Live
    /\ g \in segs[id]
    /\ sessions' = [sessions EXCEPT ![id] = Touched(sessions[id])]
    /\ UNCHANGED <<proc, next, dirs, segs, faults, left, client, reaper, sinceTick>>

\* ensure_segment: the running ffmpeg will get there, so wait for it.
SegmentAwaited(c, g) ==
    LET id == client[c].sid IN
    /\ client[c].pc = "holding"
    /\ id \in Live
    /\ g \notin segs[id]
    /\ Polled(id) = "none" /\ InWindow(sessions[id], g)
    /\ sessions' = [sessions EXCEPT ![id] = Touched(sessions[id])]
    /\ client' = [client EXCEPT ![c] = Waiting(id, g)]
    /\ UNCHANGED <<proc, next, dirs, segs, faults, left, reaper, sinceTick>>

NeedsRestart(id, g) == ~(Polled(id) = "none" /\ InWindow(sessions[id], g))

\* ensure_segment: a seek.  The current ffmpeg is killed, one is started at g.
SegmentRestarts(c, g) ==
    LET id == client[c].sid IN
    /\ client[c].pc = "holding"
    /\ id \in Live
    /\ g \notin segs[id]
    /\ NeedsRestart(id, g)
    /\ sessions' = [sessions EXCEPT ![id] = Restarted(Touched(sessions[id]), g)]
    /\ proc' = [proc EXCEPT ![id] = "running"]
    /\ next' = [next EXCEPT ![id] = g]
    /\ client' = [client EXCEPT ![c] = Waiting(id, g)]
    /\ UNCHANGED <<dirs, segs, faults, left, reaper, sinceTick>>

\* ensure_segment: a seek whose spawn fails, after the kill was sent.
SegmentSpawnFails(c, g) ==
    LET id == client[c].sid IN
    /\ client[c].pc = "holding"
    /\ id \in Live
    /\ g \notin segs[id]
    /\ NeedsRestart(id, g)
    /\ faults < MaxFaults
    /\ faults' = faults + 1
    /\ sessions' = [sessions EXCEPT
                       ![id] = [Touched(sessions[id]) EXCEPT !.exited = Polled(id)]]
    /\ proc' = [proc EXCEPT ![id] = IF @ = "running" THEN "killed" ELSE @]
    /\ UNCHANGED <<next, dirs, segs, left, client, reaper, sinceTick>>

\* wait_for_path ends: the file appeared, is one of those in a directory left
\* behind, or the deadline passed.
WaitEnds(c) ==
    LET w == client[c] IN
    /\ w.pc = "waiting"
    /\ w.want \in segs[w.sid] \/ w.sid \in dirs \ Live \/ w.timer >= WaitTimeout
    /\ client' = [client EXCEPT ![c] = Holding(w.sid)]
    /\ UNCHANGED <<sessions, proc, next, dirs, segs, faults, left, reaper, sinceTick>>

\* stop: tear the session down, NotFound if it is gone already.
Stop(c) ==
    LET S == {client[c].sid} \cap Live IN
    /\ client[c].pc = "holding"
    /\ sessions' = Without(sessions, S)
    /\ Teardown(S)
    /\ client' = [client EXCEPT ![c] = Idle]
    /\ UNCHANGED <<next, reaper, sinceTick>>

\* The request is dropped (its connection closed) while teardown waits for
\* the process it has killed: nobody removes the directory.
StopDropped(c) ==
    LET id == client[c].sid IN
    /\ client[c].pc = "holding"
    /\ id \in Live
    /\ proc[id] \in {"running", "killed"}
    /\ faults < MaxFaults
    /\ faults' = faults + 1
    /\ left' = left \cup {id}
    /\ sessions' = Without(sessions, {id})
    /\ proc' = [proc EXCEPT ![id] = "killed"]
    /\ client' = [client EXCEPT ![c] = Idle]
    /\ segs' = SegsAfterTeardown({id})
    /\ UNCHANGED <<next, dirs, reaper, sinceTick>>

\* The client goes away without telling the server (its request, if any,
\* is dropped while it waits outside the lock).
Leave(c) ==
    /\ client[c].pc # "idle"
    /\ client' = [client EXCEPT ![c] = Idle]
    /\ UNCHANGED <<sessions, proc, next, dirs, segs, faults, left, reaper, sinceTick>>

-----------------------------------------------------------------------------
(* ffmpeg: segments appear whole (temp_file) and in order *)

Produce(id) ==
    /\ proc[id] = "running"
    /\ next[id] <= LastSegment
    /\ segs' = [segs EXCEPT ![id] = @ \cup {next[id]}]
    /\ next' = [next EXCEPT ![id] = @ + 1]
    /\ UNCHANGED <<sessions, proc, dirs, faults, left, client, reaper, sinceTick>>

\* Without a session nobody waits for the process; the runtime reaps it.
Exit(id) ==
    /\ \/ proc[id] = "running" /\ next[id] > LastSegment
          /\ proc' = [proc EXCEPT ![id] = "ok"]
       \/ proc[id] \in {"running", "killed"}
          /\ proc' = [proc EXCEPT ![id] = IF id \in Live THEN "failed" ELSE "none"]
    /\ UNCHANGED <<sessions, next, dirs, segs, faults, left, client, reaper, sinceTick>>

-----------------------------------------------------------------------------
(* The clock and the reaper *)

Aged(s) == [s EXCEPT !.idle = @ + 1,
                     !.age = IF s.consumed THEN @ ELSE @ + 1]

\* Timers are prompt: time does not pass a deadline that is due.
Tick ==
    /\ sinceTick < IF reaper = "locking" THEN MaxLag ELSE ReaperPeriod
    /\ \A c \in Client : client[c].pc = "waiting" => client[c].timer < WaitTimeout
    /\ sinceTick' = sinceTick + 1
    /\ sessions' = [id \in Live |-> Aged(sessions[id])]
    /\ client' = [c \in Client |-> IF client[c].pc = "waiting"
                                   THEN [client[c] EXCEPT !.timer = @ + 1]
                                   ELSE client[c]]
    /\ UNCHANGED <<proc, next, dirs, segs, faults, left, reaper>>

\* The interval fires and reap_idle reads the clock, before it has the lock.
ReaperWakes ==
    /\ reaper = "sleeping"
    /\ sinceTick = ReaperPeriod
    /\ reaper' = "locking"
    /\ sinceTick' = 0
    /\ UNCHANGED <<sessions, proc, next, dirs, segs, faults, left, client>>

Stale(lag) == {id \in Live : \/ IsIdle(sessions[id], lag)
                             \/ IsAbandoned(sessions[id], lag)}

\* reap_idle with the lock held: poll every session, drop the stale ones.
ReapIdle ==
    LET S == Stale(sinceTick) IN
    /\ reaper = "locking"
    /\ reaper' = "sleeping"
    /\ sessions' = Without(Latched(Live), S)
    /\ Teardown(S)
    /\ UNCHANGED <<next, client, sinceTick>>

-----------------------------------------------------------------------------

ClientStep(c) ==
    \/ \E k \in Key : \/ StartReuse(c, k) \/ StartRefused(c, k)
                      \/ StartNew(c, k) \/ StartFails(c, k)
    \/ RequestUnknown(c) \/ RequestFile(c)
    \/ \E g \in Segment : \/ SegmentOnDisk(c, g) \/ SegmentAwaited(c, g)
                          \/ SegmentRestarts(c, g) \/ SegmentSpawnFails(c, g)
    \/ WaitEnds(c) \/ Stop(c) \/ StopDropped(c) \/ Leave(c)

Next ==
    \/ \E c \in Client : ClientStep(c)
    \/ \E id \in SessionId : Produce(id) \/ Exit(id)
    \/ Tick \/ ReaperWakes \/ ReapIdle

Spec == Init /\ [][Next]_vars

\* The clock, the reaper task and the timeout of a wait all run for the
\* lifetime of the process; clients and ffmpeg owe nothing.
Fairness ==
    /\ WF_vars(Tick) /\ WF_vars(ReaperWakes) /\ WF_vars(ReapIdle)
    /\ \A c \in Client : WF_vars(WaitEnds(c))

FairSpec == Spec /\ Fairness

-----------------------------------------------------------------------------
(* Properties *)

\* The pool this module implements: a slot is usable unless its process has
\* failed, whatever the manager has noticed of it.
Slots == [id \in Live |-> [key |-> sessions[id].key, usable |-> proc[id] # "failed"]]

Pool == INSTANCE EncoderPool WITH slots <- Slots

\* The manager implements EncoderPool: start hands out a running or finished
\* encode of the same output instead of opening a second slot, and makes
\* room only at the expense of a failed one.
ImplementsPool == Pool!Spec

\* At most max_sessions sessions are registered, evictions, failed spawns
\* and restarts included: the GPU-capacity cap of `start`.
CapacityRespected == Cardinality(Live) <= Cap

\* Timely teardown: an idle session is gone one reaper round after
\* IDLE_TIMEOUT, one that was never consumed after UNCONSUMED_TIMEOUT.
Overshoot == IF reaper = "sleeping" THEN sinceTick ELSE sinceTick + ReaperPeriod

TimelyReaping ==
    \A id \in Live :
       /\ sessions[id].idle < IdleTimeout + Overshoot
       /\ sessions[id].consumed \/ sessions[id].age < UnconsumedTimeout + Overshoot

\* The resources of a session live and die with it: a process that has not
\* been killed belongs to a registered session, a registered session has a
\* process and its directory, and every other directory is one that a failed
\* start, a failed removal or a stop dropped half-way left behind.
ResourcesOwned ==
    /\ \A id \in SessionId : proc[id] \notin {"none", "killed"} => id \in Live
    /\ \A id \in Live : proc[id] # "none"
    /\ dirs = Live \cup left

\* ensure_segment never waits for an ffmpeg that has already passed the
\* segment: in the window of a running process, a missing segment is ahead.
NoVainWait ==
    \A id \in Live, g \in Segment :
       /\ proc[id] = "running" /\ sessions[id].exited = "none"
       /\ InWindow(sessions[id], g)
       /\ g \notin segs[id]
       => next[id] <= g

\* `exited` is latched from the current process, never from the one a seek
\* replaced: a stale "failed" would get a playing session evicted.
LatchFaithful ==
    \A id \in Live : sessions[id].exited \in {"none", proc[id]}

\* The reaper, however late it gets the lock, never drops a session some
\* client is still waiting on.
ReaperSparesWaiters ==
    [][reaper = "locking" /\ reaper' = "sleeping" =>
         \A c \in Client : client[c].pc = "waiting" /\ client[c].sid \in Live
                              => client[c].sid \in Live']_vars

\* A session no client holds is eventually gone or handed out again, so
\* abandoned players cannot exhaust the cap for good.
AbandonedReleased ==
    \A id \in SessionId :
       (id \in Live /\ \A c \in Client : client[c].sid # id)
          ~> (id \notin Live \/ \E c \in Client : client[c].sid = id)

=============================================================================
