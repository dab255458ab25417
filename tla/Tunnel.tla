------------------------------- MODULE Tunnel -------------------------------
(***************************************************************************)
(* The SSH tunnel of one nyet run (src/tunnel.rs): several runs open, keep, *)
(* adopt and tear down port forwards that belong to shared ssh masters.     *)
(*                                                                          *)
(* A pair is (ssh destination, remote host:port).  The ssh master of a      *)
(* destination is named by its pid and shared by all remotes behind it; a   *)
(* forward belongs to a master (master mode) or to the ssh child of one run *)
(* (standalone mode).  A registry slot is a locked file holding the record  *)
(* of the forward that was kept for a pair.                                 *)
(***************************************************************************)
EXTENDS Naturals

CONSTANTS
    Runs,       \* nyet processes, each opening one tunnel
    Dests,      \* canonical ssh destinations, port included
    Remotes,    \* remote host:port values
    Ports,      \* loopback ports the kernel may hand out (bound)
    Masters,    \* pids an ssh master may have, each used once (bound)
    Slots,      \* registry file names
    SlotOf,     \* registry_name: pair -> file name
    Jobs,       \* the configurations a run may have
    Faults,     \* which of FaultKinds the environment may produce
    Wedged,     \* runs that may stop making progress for ever
    NoMaster, NoEntry, NoRun, NoPort

Pairs == Dests \X Remotes

\* reuse: reuse_allowed(...) holds; optout: it does not, or registry_slot
\* returned None; standalone: control_path() returned None.
Modes == {"reuse", "optout", "standalone"}

FaultKinds ==
    { "kill",         \* a run is killed before it returns
      "give_up",      \* lock_slot reaches its deadline
      "mute",         \* ssh -O check fails or its reply is not readable
      "write_error",  \* write_entry returns Err
      "lone_cancel",  \* somebody runs ssh -O cancel -L by hand
      "foreign" }     \* another program binds a loopback port

JobType == [pair : Pairs, mode : Modes]

ASSUME TunnelAssumption ==
    /\ SlotOf \in [Pairs -> Slots]
    /\ Jobs \subseteq JobType
    /\ Faults \subseteq FaultKinds
    /\ Wedged \subseteq Runs
    /\ NoMaster \notin Masters \cup Runs
    /\ NoRun \notin Runs
    /\ NoPort \notin Ports
    /\ Masters \cap Runs = {}

\* One live listener that is an ssh forward.  opener is a history field: the
\* run whose ssh invocation set the forward up.
Forward == [port : Ports, pair : Pairs, owner : Masters \cup Runs, opener : Runs]

\* A registry record.  owner is a history field, not in the file: the process
\* that held the forward when its opener's ssh exited.
Entry == [port : Ports, pid : Masters, pair : Pairs, owner : Masters]

ASSUME NoEntryAssumption == NoEntry \notin Entry

VARIABLES
    job,        \* per run: its configuration
    pc,         \* per run: where it is
    port,       \* per run: the local port it picked or adopted
    pid,        \* per run: what ssh -O check answered after ssh -f
    made,       \* per run: owner of the forward it opened (history)
    teardown,   \* per run: Tunnel.teardown
    child,      \* per run: its standalone ssh child
    holder,     \* per slot: the run that has the file lock
    entry,      \* per slot: what parse_entry makes of the file
    fwd,        \* the live forwards
    foreign,    \* ports bound by other programs
    master,     \* per destination: the live master on its ControlPath
    spent,      \* pids given out so far
    cancelled   \* history: <<port, owner>> of forwards removed by -O cancel

locals == <<job, port, pid, made, teardown, child>>
registry == <<holder, entry>>
net == <<fwd, foreign, master, spent, cancelled>>
vars == <<job, pc, port, pid, made, teardown, child,
          holder, entry, fwd, foreign, master, spent, cancelled>>

Final == {"done", "failed", "killed"}

Slot(r) == SlotOf[job[r].pair]
Dest(r) == job[r].pair[1]
HasSlot(r) == holder[Slot(r)] = r

\* Some process listens on p: TcpListener::bind fails, a connect succeeds.
Occupied(p) == p \in foreign \/ \E f \in fwd : f.port = p

\* holder after r's open call has returned or r has died: its File is closed.
Unlocked(r) == [s \in Slots |-> IF holder[s] = r THEN NoRun ELSE holder[s]]

Init ==
    /\ job \in [Runs -> Jobs]
    /\ pc = [r \in Runs |-> IF job[r].mode = "reuse" THEN "lock" ELSE "pick"]
    /\ port = [r \in Runs |-> NoPort]
    /\ pid = [r \in Runs |-> NoMaster]
    /\ made = [r \in Runs |-> NoMaster]
    /\ teardown = [r \in Runs |-> "none"]
    /\ child = [r \in Runs |-> "none"]
    /\ holder = [s \in Slots |-> NoRun]
    /\ entry = [s \in Slots |-> NoEntry]
    /\ fwd = {}
    /\ foreign = {}
    /\ master = [d \in Dests |-> NoMaster]
    /\ spent = {}
    /\ cancelled = {}

Goto(r, label) == pc' = [pc EXCEPT ![r] = label]

\* open returns Err: nothing is left but what ssh itself left.
Fail(r) ==
    /\ Goto(r, "failed")
    /\ holder' = Unlocked(r)

\* open_via_master returns Ok: the slot is closed, the tunnel has its teardown.
Return(r, kind) ==
    /\ Goto(r, "up")
    /\ teardown' = [teardown EXCEPT ![r] = kind]
    /\ holder' = Unlocked(r)

-----------------------------------------------------------------------------
(* The registry slot: lock_slot and try_reuse.                              *)

\* A bug: the slot is taken without looking at the lock.
LockSlot_Shared(r) ==
    /\ pc[r] = "lock"
    /\ holder' = [holder EXCEPT ![Slot(r)] = r]
    /\ Goto(r, "probe")
    /\ UNCHANGED <<locals, entry, net>>

LockSlot(r) ==
    /\ pc[r] = "lock"
    /\ holder[Slot(r)] = NoRun
    /\ holder' = [holder EXCEPT ![Slot(r)] = r]
    /\ Goto(r, "probe")
    /\ UNCHANGED <<locals, entry, net>>

\* A bug: try_lock is retried for ever.
GiveUp_Never(r) == FALSE /\ pc[r] = "lock" /\ UNCHANGED vars

\* The deadline of lock_slot passed while another run had the lock: go on
\* without a slot.
GiveUp(r) ==
    /\ "give_up" \in Faults
    /\ pc[r] = "lock"
    /\ holder[Slot(r)] # NoRun
    /\ Goto(r, "pick")
    /\ UNCHANGED <<locals, registry, net>>

RecordIsMine(r) ==
    /\ entry[Slot(r)] # NoEntry
    /\ entry[Slot(r)].pair = job[r].pair

\* try_reuse up to port_is_free: is there a record of this pair whose port is
\* taken?
TryReuse(r) ==
    /\ pc[r] = "probe"
    /\ IF RecordIsMine(r) /\ Occupied(entry[Slot(r)].port)
         THEN Goto(r, "ask")
         ELSE Goto(r, "pick")
    /\ UNCHANGED <<locals, registry, net>>

\* What ssh -O check may answer about destination d.
CheckReplies(d) ==
    {master[d]} \cup (IF "mute" \in Faults THEN {NoMaster} ELSE {})

\* A bug: no answer is no objection.
Adopt_Unanswered(r) ==
    /\ pc[r] = "ask"
    /\ {entry[Slot(r)].pid, NoMaster} \cap CheckReplies(Dest(r)) # {}
    /\ port' = [port EXCEPT ![r] = entry[Slot(r)].port]
    /\ Return(r, "keep")
    /\ UNCHANGED <<job, pid, made, child, entry, net>>

\* The rest of try_reuse: the master that answers is the recorded one.
Adopt(r) ==
    /\ pc[r] = "ask"
    /\ entry[Slot(r)].pid \in CheckReplies(Dest(r))
    /\ port' = [port EXCEPT ![r] = entry[Slot(r)].port]
    /\ Return(r, "keep")
    /\ UNCHANGED <<job, pid, made, child, entry, net>>

\* No master, another master, or no readable answer: open a fresh forward.
Distrust(r) ==
    /\ pc[r] = "ask"
    /\ \E reply \in CheckReplies(Dest(r)) : reply # entry[Slot(r)].pid
    /\ Goto(r, "pick")
    /\ UNCHANGED <<locals, registry, net>>

-----------------------------------------------------------------------------
(* A fresh forward through the master: open_via_master.                     *)

\* The port is released again before ssh binds it.
FreeLocalPort(r) ==
    /\ pc[r] = "pick"
    /\ \E p \in Ports :
          /\ ~Occupied(p)
          /\ port' = [port EXCEPT ![r] = p]
    /\ Goto(r, IF job[r].mode = "standalone" THEN "spawn" ELSE "ssh")
    /\ UNCHANGED <<job, pid, made, teardown, child, registry, net>>

NoFreePort(r) ==
    /\ pc[r] = "pick"
    /\ \A p \in Ports : Occupied(p)
    /\ Fail(r)
    /\ UNCHANGED <<locals, entry, net>>

\* ssh -f -N -L exits 0: the forward belongs to the live master, or this ssh
\* became the master of the destination.
SshForward(r) ==
    /\ pc[r] = "ssh"
    /\ ~Occupied(port[r])
    /\ \E m \in Masters :
          /\ \/ m = master[Dest(r)]
             \/ master[Dest(r)] = NoMaster /\ m \notin spent
          /\ master' = [master EXCEPT ![Dest(r)] = m]
          /\ spent' = spent \cup {m}
          /\ made' = [made EXCEPT ![r] = m]
          /\ fwd' = fwd \cup {[port |-> port[r], pair |-> job[r].pair,
                               owner |-> m, opener |-> r]}
    /\ IF HasSlot(r)
         THEN Goto(r, "name") /\ UNCHANGED <<teardown, holder>>
         ELSE Return(r, "cancel")
    /\ UNCHANGED <<job, port, pid, child, entry, foreign, cancelled>>

\* ssh exits non-zero: no route, no key, or the port was taken meanwhile
\* (ExitOnForwardFailure).
SshFails(r) ==
    /\ pc[r] = "ssh"
    /\ Fail(r)
    /\ UNCHANGED <<locals, entry, net>>

\* master_pid after the forward is up.
NameMaster(r) ==
    /\ pc[r] = "name"
    /\ \E reply \in CheckReplies(Dest(r)) :
          IF reply = NoMaster
            THEN Return(r, "cancel") /\ UNCHANGED pid
            ELSE /\ pid' = [pid EXCEPT ![r] = reply]
                 /\ Goto(r, "truncate")
                 /\ UNCHANGED <<teardown, holder>>
    /\ UNCHANGED <<job, port, made, child, entry, net>>

\* write_entry: seek, set_len(0) ...
TruncateEntry(r) ==
    /\ pc[r] = "truncate"
    /\ entry' = [entry EXCEPT ![Slot(r)] = NoEntry]
    /\ Goto(r, "write")
    /\ UNCHANGED <<locals, holder, net>>

\* ... and write_all.
WriteEntry(r) ==
    /\ pc[r] = "write"
    /\ entry' = [entry EXCEPT ![Slot(r)] =
                   [port |-> port[r], pid |-> pid[r], pair |-> job[r].pair,
                    owner |-> made[r]]]
    /\ Return(r, "keep")
    /\ UNCHANGED <<job, port, pid, made, child, net>>

\* write_entry returns Err before or after it emptied the file; a prefix of a
\* record parses as no record.
WriteFails(r) ==
    /\ "write_error" \in Faults
    /\ pc[r] \in {"truncate", "write"}
    /\ Return(r, "cancel")
    /\ UNCHANGED <<job, port, pid, made, child, entry, net>>

-----------------------------------------------------------------------------
(* A forward of one's own: open_standalone.                                 *)

Spawn(r) ==
    /\ pc[r] = "spawn"
    /\ \/ /\ child' = [child EXCEPT ![r] = "starting"]
          /\ Goto(r, "poll")
       \/ /\ Goto(r, "failed")
          /\ UNCHANGED child
    /\ UNCHANGED <<job, port, pid, made, teardown, registry, net>>

\* The child binds its port, whether or not its parent still lives.
ChildListens(r) ==
    /\ child[r] = "starting"
    /\ ~Occupied(port[r])
    /\ child' = [child EXCEPT ![r] = "listening"]
    /\ fwd' = fwd \cup {[port |-> port[r], pair |-> job[r].pair,
                         owner |-> r, opener |-> r]}
    /\ UNCHANGED <<job, pc, port, pid, made, teardown, registry,
                   foreign, master, spent, cancelled>>

ChildGone(r) ==
    /\ child' = [child EXCEPT ![r] = "exited"]
    /\ fwd' = {f \in fwd : f.owner # r}

ChildExits(r) ==
    /\ child[r] \in {"starting", "listening"}
    /\ ChildGone(r)
    /\ UNCHANGED <<job, pc, port, pid, made, teardown, registry,
                   foreign, master, spent, cancelled>>

\* connect_timeout succeeds: something accepts connections on the port.
PollReady(r) ==
    /\ pc[r] = "poll"
    /\ Occupied(port[r])
    /\ Goto(r, "up")
    /\ teardown' = [teardown EXCEPT ![r] = "child"]
    /\ UNCHANGED <<job, port, pid, made, child, registry, net>>

\* The connect failed and try_wait reports that ssh has exited.
PollExited(r) ==
    /\ pc[r] = "poll"
    /\ child[r] = "exited"
    /\ Goto(r, "failed")
    /\ UNCHANGED <<locals, registry, net>>

\* The deadline: the child is killed and reaped.
PollDeadline(r) ==
    /\ pc[r] = "poll"
    /\ ChildGone(r)
    /\ Goto(r, "failed")
    /\ UNCHANGED <<job, port, pid, made, teardown, registry,
                   foreign, master, spent, cancelled>>

-----------------------------------------------------------------------------
(* Drop for Tunnel, after the query.                                        *)

DropKeep(r) ==
    /\ pc[r] = "up"
    /\ teardown[r] = "keep"
    /\ Goto(r, "done")
    /\ UNCHANGED <<locals, registry, net>>

\* A bug: a tunnel nobody recorded is left running.
DropCancel_Nothing(r) ==
    /\ pc[r] = "up"
    /\ teardown[r] = "cancel"
    /\ Goto(r, "done")
    /\ UNCHANGED <<locals, registry, net>>

\* A bug: -O cancel is told the port only.
CancelMatches_Port(f, r) ==
    /\ f.owner = master[Dest(r)]
    /\ f.port = port[r]

\* The forwards that cancel_args of run r names to the live master.
CancelMatches(f, r) ==
    /\ f.owner = master[Dest(r)]
    /\ f.port = port[r]
    /\ f.pair = job[r].pair

DropCancel(r) ==
    /\ pc[r] = "up"
    /\ teardown[r] = "cancel"
    /\ Goto(r, "done")
    /\ fwd' = {f \in fwd : ~CancelMatches(f, r)}
    /\ cancelled' = cancelled \cup
                      {<<f.port, f.owner>> : f \in {g \in fwd : CancelMatches(g, r)}}
    /\ UNCHANGED <<locals, registry, foreign, master, spent>>

DropChild(r) ==
    /\ pc[r] = "up"
    /\ teardown[r] = "child"
    /\ Goto(r, "done")
    /\ ChildGone(r)
    /\ UNCHANGED <<job, port, pid, made, teardown, registry,
                   foreign, master, spent, cancelled>>

-----------------------------------------------------------------------------
(* The environment.                                                         *)

\* SIGKILL or power: no Drop runs, the kernel releases the lock, an ssh child
\* lives on.
Kill(r) ==
    /\ "kill" \in Faults
    /\ pc[r] \notin Final
    /\ Goto(r, "killed")
    /\ holder' = Unlocked(r)
    /\ UNCHANGED <<locals, entry, net>>

\* A master ends (ControlPersist, ssh -O exit, lost connection) and takes its
\* forwards with it.
MasterExits(d) ==
    /\ master[d] # NoMaster
    /\ fwd' = {f \in fwd : f.owner # master[d]}
    /\ master' = [master EXCEPT ![d] = NoMaster]
    /\ UNCHANGED <<pc, locals, registry, foreign, spent, cancelled>>

LoneCancel(f) ==
    /\ "lone_cancel" \in Faults
    /\ f.owner \in Masters
    /\ fwd' = fwd \ {f}
    /\ cancelled' = cancelled \cup {<<f.port, f.owner>>}
    /\ UNCHANGED <<pc, locals, registry, foreign, master, spent>>

ForeignTakes(p) ==
    /\ "foreign" \in Faults
    /\ ~Occupied(p)
    /\ foreign' = foreign \cup {p}
    /\ UNCHANGED <<pc, locals, registry, fwd, master, spent, cancelled>>

ForeignLeaves(p) ==
    /\ p \in foreign
    /\ foreign' = foreign \ {p}
    /\ UNCHANGED <<pc, locals, registry, fwd, master, spent, cancelled>>

\* All runs have ended: the program has stopped.
Finished ==
    /\ \A r \in Runs : pc[r] \in Final
    /\ UNCHANGED vars

-----------------------------------------------------------------------------

OpenStep(r) ==
    \/ LockSlot(r) \/ GiveUp(r) \/ TryReuse(r) \/ Adopt(r) \/ Distrust(r)
    \/ FreeLocalPort(r) \/ NoFreePort(r)
    \/ SshForward(r) \/ SshFails(r)
    \/ NameMaster(r) \/ TruncateEntry(r) \/ WriteEntry(r) \/ WriteFails(r)
    \/ Spawn(r) \/ PollReady(r) \/ PollExited(r) \/ PollDeadline(r)

DropStep(r) == DropKeep(r) \/ DropCancel(r) \/ DropChild(r)

RunStep(r) == OpenStep(r) \/ DropStep(r)

EnvStep ==
    \/ \E r \in Runs : Kill(r) \/ ChildListens(r) \/ ChildExits(r)
    \/ \E d \in Dests : MasterExits(d)
    \/ \E f \in fwd : LoneCancel(f)
    \/ \E p \in Ports : ForeignTakes(p) \/ ForeignLeaves(p)

Next == (\E r \in Runs : RunStep(r)) \/ EnvStep \/ Finished

Spec == Init /\ [][Next]_vars

\* Each step of a run is a bounded call (a local syscall, a local ssh -O, or an
\* ssh bounded by ConnectTimeout), so a run that is not wedged goes on.
FairSpec == Spec /\ \A r \in Runs \ Wedged : WF_vars(RunStep(r))

-----------------------------------------------------------------------------
(* Properties.                                                              *)

TypeOK ==
    /\ job \in [Runs -> Jobs]
    /\ pc \in [Runs -> {"lock", "probe", "ask", "pick", "ssh", "name", "truncate",
                        "write", "spawn", "poll", "up"} \cup Final]
    /\ port \in [Runs -> Ports \cup {NoPort}]
    /\ pid \in [Runs -> Masters \cup {NoMaster}]
    /\ made \in [Runs -> Masters \cup {NoMaster}]
    /\ teardown \in [Runs -> {"none", "keep", "cancel", "child"}]
    /\ child \in [Runs -> {"none", "starting", "listening", "exited"}]
    /\ holder \in [Slots -> Runs \cup {NoRun}]
    /\ entry \in [Slots -> Entry \cup {NoEntry}]
    /\ fwd \subseteq Forward
    /\ foreign \subseteq Ports
    /\ master \in [Dests -> Masters \cup {NoMaster}]
    /\ spent \subseteq Masters
    /\ cancelled \subseteq Ports \X Masters

\* The invariant of the module's lifecycle note: at most one nyet forward per
\* (ssh destination, remote) pair (tunnel.rs:21).  The lock, the record and the
\* three conditions of try_reuse have to work together for it.
AtMostOneForward == \A f, g \in fwd : f.pair = g.pair => f = g

\* A forward that was kept for the next run is the one its registry slot
\* describes, so that the next run can adopt it and doctor can show it.
KeptIsRecorded ==
    \A f \in fwd :
        teardown[f.opener] = "keep" =>
            /\ entry[SlotOf[f.pair]] # NoEntry
            /\ entry[SlotOf[f.pair]].port = f.port
            /\ entry[SlotOf[f.pair]].pid = f.owner
            /\ entry[SlotOf[f.pair]].pair = f.pair

\* p is the port of a live forward of pair x.
LeadsTo(p, x) == \E f \in fwd : f.port = p /\ f.pair = x

\* Run r adopts in this step.
Adopts(r) == pc[r] = "ask" /\ pc'[r] = "up"

\* The claim of the lifecycle note (tunnel.rs:37-40): barring a hand-made
\* cancel, an adopted port is a forward of the run's own pair.
AdoptedIsOurs ==
    [][\A r \in Runs : Adopts(r) => LeadsTo(port'[r], job[r].pair)]_vars

\* What the three conditions of try_reuse do prove: if the pid on record is the
\* master that really opened the forward, and no cancel took that forward away,
\* the adopted port is a forward of the run's own pair.  It holds whatever
\* masters, other runs, other programs and colliding file names do.
RecordedOwnerIsProof ==
    [][\A r \in Runs :
         LET e == entry[Slot(r)] IN
         Adopts(r) /\ e.pid = e.owner /\ <<e.port, e.owner>> \notin cancelled
            => LeadsTo(port'[r], job[r].pair)]_vars

\* A run that ended in the normal way and did not keep its forward leaves none
\* behind: the opt-outs (reuse_forward = false, ControlPersist=no), the
\* unrecorded forwards and the standalone child, also when open failed.
NothingLeftBehind ==
    \A f \in fwd :
        LET r == f.opener
        IN  ~(pc[r] \in {"done", "failed"} /\ teardown[r] # "keep")

\* The comment on free_local_port: a collision on the released port "just fails
\* the tunnel".  A standalone tunnel that came up is its own child's forward.
CollisionFails ==
    [][\A r \in Runs :
         pc[r] = "poll" /\ pc'[r] = "up" => LeadsTo(port[r], job[r].pair)]_vars

\* A wedged lock holder never hangs another run (lock_slot): every run that is
\* not wedged itself ends.
EveryRunEnds == \A r \in Runs \ Wedged : <>(pc[r] \in Final)

=============================================================================
