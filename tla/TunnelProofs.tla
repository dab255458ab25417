---------------------------- MODULE TunnelProofs ----------------------------
(***************************************************************************)
(* Theorems about Tunnel for any number of runs, destinations, remotes,    *)
(* ports and masters.                                                      *)
(*                                                                         *)
(* The argument is built in layers.  Stage says what a run's program       *)
(* counter tells about its own variables.  Wires relates the live forwards *)
(* to the masters, children and runs that opened them.  Vouched says that  *)
(* a record whose pid is the true owner describes a live forward.  Single  *)
(* is the layer that needs a calm environment: every live forward is       *)
(* either being recorded under the lock or is on record.                   *)
(***************************************************************************)
EXTENDS Tunnel, TLAPS

\* Labels a run is at before it has opened anything.
Before == {"lock", "probe", "ask", "pick", "ssh", "spawn"}
\* Labels between a successful ssh -f and the record of it.
Recording == {"name", "truncate", "write"}
\* Labels a run reaches only with its slot locked.
Locked == {"probe", "ask"} \cup Recording

Stage(r) ==
    /\ pc[r] \in {"spawn", "poll"} => job[r].mode = "standalone"
    /\ pc[r] \in {"lock", "ssh"} \cup Locked => job[r].mode # "standalone"
    /\ pc[r] \in Before \cup Recording \cup {"poll"} => teardown[r] = "none"
    /\ pc[r] \in {"up", "done"} => teardown[r] # "none"
    /\ teardown[r] = "child" => job[r].mode = "standalone"
    /\ teardown[r] \in {"keep", "cancel"} => job[r].mode # "standalone"
    /\ child[r] # "none" => job[r].mode = "standalone"
    /\ pc[r] \in Before => child[r] = "none"
    /\ child[r] \in {"starting", "listening"} => pc[r] \in {"poll", "up", "killed"}
    /\ child[r] = "starting" => port[r] \in Ports
    /\ pc[r] \in {"ssh", "spawn", "poll", "up"} \cup Recording => port[r] \in Ports
    /\ pc[r] \in Recording => made[r] \in Masters
    /\ pc[r] \in {"truncate", "write"} => pid[r] \in Masters
    /\ pc[r] \in Locked => HasSlot(r)
    /\ pc[r] = "ask" => RecordIsMine(r)

Stages == \A r \in Runs : Stage(r)

Wire(f) ==
    /\ f.pair = job[f.opener].pair
    /\ f.port = port[f.opener]
    /\ pc[f.opener] \notin Before
    /\ pc[f.opener] \in {"done", "failed"} => teardown[f.opener] = "keep"
    /\ f.owner \in Runs => f.owner = f.opener /\ child[f.opener] = "listening"
    /\ f.owner \in Masters => /\ f.owner = master[f.pair[1]]
                             /\ job[f.opener].mode # "standalone"

Wires == \A f \in fwd : Wire(f)

MastersDiffer ==
    /\ \A d \in Dests : master[d] # NoMaster => master[d] \in spent
    /\ \A d, e \in Dests : master[d] # NoMaster /\ master[d] = master[e] => d = e

\* Were o still the live master of the destination and no cancel had come, a
\* forward of pair x would be live at p.
Vouches(p, x, o) ==
    /\ o \in spent
    /\ master[x[1]] = o /\ <<p, o>> \notin cancelled =>
          \E f \in fwd : f.port = p /\ f.pair = x /\ f.owner = o

Vouched ==
    /\ \A s \in Slots : entry[s] # NoEntry =>
          Vouches(entry[s].port, entry[s].pair, entry[s].owner)
    /\ \A r \in Runs : pc[r] \in Recording =>
          Vouches(port[r], job[r].pair, made[r])

\* The pair, slot and destination of a run are what their names say.
LEMMA JobFacts ==
    ASSUME TypeOK, NEW r \in Runs
    PROVE  /\ job[r].pair \in Pairs
           /\ job[r].mode \in Modes
           /\ Slot(r) \in Slots
           /\ Dest(r) \in Dests
  BY TunnelAssumption DEF TypeOK, JobType, Slot, Dest, Pairs

LEMMA UnlockedFacts ==
    ASSUME TypeOK, NEW r \in Runs
    PROVE  /\ Unlocked(r) \in [Slots -> Runs \cup {NoRun}]
           /\ \A q \in Runs \ {r} : \A s \in Slots :
                 holder[s] = q <=> Unlocked(r)[s] = q
  BY TunnelAssumption DEF TypeOK, Unlocked

LEMMA InitType == Init => TypeOK /\ Stages
  BY TunnelAssumption
     DEF Init, TypeOK, Final, Stages, Stage, JobType, Modes, Before, Recording, Locked

\* The steps of one run preserve the types: no port, pid or record is used
\* before it has a value.
LEMMA RunType ==
    ASSUME TypeOK, Stages, NEW r \in Runs, RunStep(r)
    PROVE  TypeOK'
  <1> USE DEF TypeOK, Goto, Fail, Return, Final, locals, registry, net
  <1>0. Slot(r) \in Slots /\ Dest(r) \in Dests /\ job[r].pair \in Pairs
    BY JobFacts
  <1>u. Unlocked(r) \in [Slots -> Runs \cup {NoRun}]
    BY UnlockedFacts
  <1>s. Stage(r)
    BY DEF Stages
  <1>1. CASE LockSlot(r) BY <1>0, <1>1 DEF LockSlot
  <1>2. CASE GiveUp(r) BY <1>2 DEF GiveUp
  <1>3. CASE TryReuse(r) BY <1>3 DEF TryReuse
  <1>4. CASE Adopt(r)
    <2>1. entry[Slot(r)] \in Entry
      BY <1>0, <1>s, <1>4 DEF Adopt, Stage, RecordIsMine
    <2> QED BY <1>0, <1>u, <1>4, <2>1 DEF Adopt, Entry
  <1>5. CASE Distrust(r) BY <1>5 DEF Distrust
  <1>6. CASE FreeLocalPort(r) BY <1>6 DEF FreeLocalPort
  <1>7. CASE NoFreePort(r) BY <1>u, <1>7 DEF NoFreePort
  <1>8. CASE SshForward(r)
    <2>1. port[r] \in Ports
      BY <1>s, <1>8 DEF SshForward, Stage
    <2>2. PICK m \in Masters :
            /\ master' = [master EXCEPT ![Dest(r)] = m]
            /\ spent' = spent \cup {m}
            /\ made' = [made EXCEPT ![r] = m]
            /\ fwd' = fwd \cup {[port |-> port[r], pair |-> job[r].pair,
                                 owner |-> m, opener |-> r]}
      BY <1>8 DEF SshForward
    <2>3. fwd' \subseteq Forward
      BY <1>0, <2>1, <2>2 DEF Forward
    <2> QED BY <1>0, <1>u, <1>8, <2>2, <2>3 DEF SshForward
  <1>9. CASE SshFails(r) BY <1>u, <1>9 DEF SshFails
  <1>10. CASE NameMaster(r)
    <2>1. CheckReplies(Dest(r)) \subseteq Masters \cup {NoMaster}
      BY <1>0 DEF CheckReplies
    <2> QED BY <1>0, <1>u, <1>10, <2>1 DEF NameMaster
  <1>11. CASE TruncateEntry(r) BY <1>0, <1>11 DEF TruncateEntry
  <1>12. CASE WriteEntry(r)
    <2>1. /\ port[r] \in Ports
          /\ pid[r] \in Masters
          /\ made[r] \in Masters
      BY <1>s, <1>12 DEF WriteEntry, Stage, Recording
    <2> QED BY <1>0, <1>u, <1>12, <2>1 DEF WriteEntry, Entry
  <1>13. CASE WriteFails(r) BY <1>u, <1>13 DEF WriteFails
  <1>14. CASE Spawn(r) BY <1>14 DEF Spawn
  <1>15. CASE PollReady(r) BY <1>15 DEF PollReady
  <1>16. CASE PollExited(r) BY <1>16 DEF PollExited
  <1>17. CASE PollDeadline(r) BY <1>17 DEF PollDeadline, ChildGone
  <1>18. CASE DropKeep(r) BY <1>18 DEF DropKeep
  <1>19. CASE DropCancel(r)
    <2>1. \A f \in fwd : CancelMatches(f, r) => <<f.port, f.owner>> \in Ports \X Masters
      <3> SUFFICES ASSUME NEW f \in fwd, CancelMatches(f, r)
                   PROVE  <<f.port, f.owner>> \in Ports \X Masters
        OBVIOUS
      <3>1. f.owner \in Masters
        BY <1>0, TunnelAssumption DEF CancelMatches, Forward
      <3> QED BY <3>1 DEF Forward
    <2> QED BY <1>19, <2>1 DEF DropCancel
  <1>20. CASE DropChild(r) BY <1>20 DEF DropChild, ChildGone
  <1> QED
    BY <1>1, <1>2, <1>3, <1>4, <1>5, <1>6, <1>7, <1>8, <1>9, <1>10, <1>11,
       <1>12, <1>13, <1>14, <1>15, <1>16, <1>17, <1>18, <1>19, <1>20
       DEF RunStep, OpenStep, DropStep

LEMMA EnvType ==
    ASSUME TypeOK, Stages, EnvStep
    PROVE  TypeOK'
  <1> USE DEF TypeOK, Goto, Final, locals, registry, net
  <1>1. ASSUME NEW r \in Runs, Kill(r) PROVE TypeOK'
    BY <1>1, UnlockedFacts DEF Kill
  <1>2. ASSUME NEW r \in Runs, ChildListens(r) PROVE TypeOK'
    <2>1. port[r] \in Ports /\ job[r].pair \in Pairs
      BY <1>2, JobFacts DEF ChildListens, Stages, Stage
    <2>2. fwd' \subseteq Forward
      BY <1>2, <2>1 DEF ChildListens, Forward
    <2> QED BY <1>2, <2>2 DEF ChildListens
  <1>3. ASSUME NEW r \in Runs, ChildExits(r) PROVE TypeOK'
    BY <1>3 DEF ChildExits, ChildGone
  <1>4. ASSUME NEW d \in Dests, MasterExits(d) PROVE TypeOK'
    BY <1>4 DEF MasterExits
  <1>5. ASSUME NEW f \in fwd, LoneCancel(f) PROVE TypeOK'
    BY <1>5 DEF LoneCancel, Forward
  <1>6. ASSUME NEW p \in Ports, ForeignTakes(p) \/ ForeignLeaves(p) PROVE TypeOK'
    BY <1>6 DEF ForeignTakes, ForeignLeaves
  <1> QED BY <1>1, <1>2, <1>3, <1>4, <1>5, <1>6 DEF EnvStep

\* A step of run r leaves every other run at its stage: the lock and the record
\* another run relies on are behind a lock r does not have.
LEMMA OthersStage ==
    ASSUME TypeOK, Stages, NEW r \in Runs, RunStep(r), NEW q \in Runs \ {r}
    PROVE  Stage(q)'
  <1> USE DEF TypeOK, Goto, Fail, Return, locals, registry, net
  <1>0. /\ Slot(r) \in Slots /\ Slot(q) \in Slots
        /\ Stage(q) /\ Stage(r)
    BY JobFacts DEF Stages
  <1>1. job' = job
    BY DEF RunStep, OpenStep, DropStep, LockSlot, GiveUp, TryReuse, Adopt, Distrust,
           FreeLocalPort, NoFreePort, SshForward, SshFails, NameMaster, TruncateEntry,
           WriteEntry, WriteFails, Spawn, PollReady, PollExited, PollDeadline,
           DropKeep, DropCancel, DropChild
  <1>2. /\ pc'[q] = pc[q] /\ teardown'[q] = teardown[q] /\ child'[q] = child[q]
        /\ port'[q] = port[q] /\ made'[q] = made[q] /\ pid'[q] = pid[q]
    BY DEF RunStep, OpenStep, DropStep, LockSlot, GiveUp, TryReuse, Adopt, Distrust,
           FreeLocalPort, NoFreePort, SshForward, SshFails, NameMaster, TruncateEntry,
           WriteEntry, WriteFails, Spawn, PollReady, PollExited, PollDeadline,
           DropKeep, DropCancel, DropChild, ChildGone
  <1>3. HasSlot(q) => HasSlot(q)'
    <2>1. CASE LockSlot(r)
      BY <1>0, <1>1, <2>1, TunnelAssumption DEF LockSlot, HasSlot, Slot
    <2>2. CASE holder' = holder
      BY <1>1, <2>2 DEF HasSlot, Slot
    <2>3. CASE holder' = Unlocked(r)
      BY <1>0, <1>1, <2>3, UnlockedFacts DEF HasSlot, Slot
    <2> QED
      BY <2>1, <2>2, <2>3
         DEF RunStep, OpenStep, DropStep, GiveUp, TryReuse, Adopt, Distrust,
           FreeLocalPort, NoFreePort, SshForward, SshFails, NameMaster, TruncateEntry,
           WriteEntry, WriteFails, Spawn, PollReady, PollExited, PollDeadline,
           DropKeep, DropCancel, DropChild
  <1>4. HasSlot(q) => entry'[Slot(q)] = entry[Slot(q)]
    <2>1. CASE entry' = entry
      BY <2>1
    <2>2. CASE TruncateEntry(r) \/ WriteEntry(r)
      BY <1>0, <2>2, TunnelAssumption
         DEF TruncateEntry, WriteEntry, Stage, Locked, Recording, HasSlot
    <2> QED
      BY <2>1, <2>2
         DEF RunStep, OpenStep, DropStep, LockSlot, GiveUp, TryReuse, Adopt, Distrust,
           FreeLocalPort, NoFreePort, SshForward, SshFails, NameMaster,
           WriteFails, Spawn, PollReady, PollExited, PollDeadline,
           DropKeep, DropCancel, DropChild
  <1> QED
    BY <1>0, <1>1, <1>2, <1>3, <1>4
       DEF Stage, RecordIsMine, Slot, HasSlot, Locked, Recording, Before

\* A step of run r takes r to a stage its new label stands for.
LEMMA OwnStage ==
    ASSUME TypeOK, Stages, NEW r \in Runs, RunStep(r)
    PROVE  Stage(r)'
  <1> USE DEF TypeOK, Stage, Before, Recording, Locked, HasSlot, RecordIsMine, Slot,
              Goto, Fail, Return, Final, locals, registry, net
  <1>0. SlotOf[job[r].pair] \in Slots /\ job[r].mode \in Modes
    BY JobFacts
  <1>s. Stage(r)
    BY DEF Stages
  <1>1. CASE LockSlot(r) BY <1>0, <1>s, <1>1 DEF LockSlot
  <1>2. CASE GiveUp(r) BY <1>s, <1>2 DEF GiveUp
  <1>3. CASE TryReuse(r) BY <1>s, <1>3 DEF TryReuse
  <1>4. CASE Adopt(r)
    <2>1. entry[SlotOf[job[r].pair]] \in Entry
      BY <1>0, <1>s, <1>4 DEF Adopt
    <2> QED BY <1>s, <1>4, <2>1 DEF Adopt, Entry
  <1>5. CASE Distrust(r) BY <1>s, <1>5 DEF Distrust
  <1>6. CASE FreeLocalPort(r) BY <1>s, <1>6 DEF FreeLocalPort
  <1>7. CASE NoFreePort(r) BY <1>s, <1>7 DEF NoFreePort
  <1>8. CASE SshForward(r) BY <1>s, <1>8 DEF SshForward
  <1>9. CASE SshFails(r) BY <1>s, <1>9 DEF SshFails
  <1>10. CASE NameMaster(r)
    <2>1. CheckReplies(Dest(r)) \subseteq Masters \cup {NoMaster}
      BY JobFacts DEF CheckReplies
    <2> QED BY <1>s, <1>10, <2>1 DEF NameMaster
  <1>11. CASE TruncateEntry(r) BY <1>s, <1>11 DEF TruncateEntry
  <1>12. CASE WriteEntry(r) BY <1>s, <1>12 DEF WriteEntry
  <1>13. CASE WriteFails(r) BY <1>s, <1>13 DEF WriteFails
  <1>14. CASE Spawn(r) BY <1>s, <1>14 DEF Spawn
  <1>15. CASE PollReady(r) BY <1>s, <1>15 DEF PollReady
  <1>16. CASE PollExited(r) BY <1>s, <1>16 DEF PollExited
  <1>17. CASE PollDeadline(r) BY <1>s, <1>17 DEF PollDeadline, ChildGone
  <1>18. CASE DropKeep(r) BY <1>s, <1>18 DEF DropKeep
  <1>19. CASE DropCancel(r) BY <1>s, <1>19 DEF DropCancel
  <1>20. CASE DropChild(r) BY <1>s, <1>20 DEF DropChild, ChildGone
  <1> QED
    BY <1>1, <1>2, <1>3, <1>4, <1>5, <1>6, <1>7, <1>8, <1>9, <1>10, <1>11,
       <1>12, <1>13, <1>14, <1>15, <1>16, <1>17, <1>18, <1>19, <1>20
       DEF RunStep, OpenStep, DropStep

LEMMA EnvStage ==
    ASSUME TypeOK, Stages, EnvStep
    PROVE  Stages'
  <1> SUFFICES ASSUME NEW q \in Runs PROVE Stage(q)'
    BY DEF Stages
  <1> USE DEF TypeOK, Stages, Stage, Before, Recording, Locked, HasSlot, RecordIsMine,
              Slot, Goto, Final, locals, registry, net
  <1>1. ASSUME NEW r \in Runs, Kill(r) PROVE Stage(q)'
    <2>1. SlotOf[job[q].pair] \in Slots
      BY JobFacts
    <2> QED BY <1>1, <2>1, UnlockedFacts DEF Kill
  <1>2. ASSUME NEW r \in Runs, ChildListens(r) \/ ChildExits(r) PROVE Stage(q)'
    BY <1>2 DEF ChildListens, ChildExits, ChildGone
  <1>3. ASSUME NEW d \in Dests, MasterExits(d) PROVE Stage(q)'
    BY <1>3 DEF MasterExits
  <1>4. ASSUME NEW f \in fwd, LoneCancel(f) PROVE Stage(q)'
    BY <1>4 DEF LoneCancel
  <1>5. ASSUME NEW p \in Ports, ForeignTakes(p) \/ ForeignLeaves(p) PROVE Stage(q)'
    BY <1>5 DEF ForeignTakes, ForeignLeaves
  <1> QED BY <1>1, <1>2, <1>3, <1>4, <1>5 DEF EnvStep

LEMMA SameVars ==
    ASSUME TypeOK, Stages, UNCHANGED vars
    PROVE  TypeOK' /\ Stages'
  BY DEF vars, TypeOK, Stages, Stage, HasSlot, Slot, RecordIsMine

\* Types and stages are an invariant: whatever fails around it, tunnel.rs never
\* writes a record of a port or pid it does not have, and is inside a slot only
\* with its lock.
THEOREM TunnelType == Spec => [](TypeOK /\ Stages)
  <1>1. Init => TypeOK /\ Stages
    BY InitType
  <1>2. TypeOK /\ Stages /\ [Next]_vars => (TypeOK /\ Stages)'
    <2> SUFFICES ASSUME TypeOK, Stages, [Next]_vars
                 PROVE  (TypeOK /\ Stages)'
      OBVIOUS
    <2>1. ASSUME NEW r \in Runs, RunStep(r) PROVE (TypeOK /\ Stages)'
      <3>1. \A q \in Runs \ {r} : Stage(q)'
        BY <2>1, OthersStage
      <3>2. Stage(r)'
        BY <2>1, OwnStage
      <3> QED BY <2>1, <3>1, <3>2, RunType DEF Stages
    <2>2. CASE EnvStep
      BY <2>2, EnvType, EnvStage
    <2>3. CASE Finished \/ UNCHANGED vars
      BY <2>3, SameVars DEF Finished
    <2> QED BY <2>1, <2>2, <2>3 DEF Next
  <1> QED BY <1>1, <1>2, PTL DEF Spec

\* What is on record in a slot has the types of a record.
THEOREM TypeCorrect == Spec => []TypeOK
  BY TunnelType, PTL

-----------------------------------------------------------------------------
(* Forwards, their owners and the runs that opened them.                    *)

\* The ways a step of the system can touch the live forwards: it keeps a
\* subset of them, or adds one on a free port.
LEMMA RunWires ==
    ASSUME TypeOK, Stages, Wires, NEW r \in Runs, RunStep(r)
    PROVE  Wires'
  <1> SUFFICES ASSUME NEW f \in fwd' PROVE Wire(f)'
    BY DEF Wires
  <1> USE DEF TypeOK, Goto, Fail, Return, locals, registry, net
  <1>s. Stage(r)
    BY DEF Stages
  <1>1. CASE f \in fwd
    <2> DEFINE q == f.opener
    <2>0. /\ Wire(f) /\ f \in Forward /\ q \in Runs /\ Stage(q)
          /\ f.pair[1] \in Dests
      BY <1>1 DEF Wires, Forward, Stages, Pairs
    <2>1. CASE r = q
      <3> USE DEF Wire, Stage, Before, Recording, Locked
      <3>1. pc[r] \notin Before
        BY <2>0, <2>1
      <3>2. f.owner \in Masters \cup Runs
        BY <2>0 DEF Forward
      <3>3. CASE NameMaster(r) BY <1>s, <2>0, <2>1, <3>3 DEF NameMaster
      <3>4. CASE TruncateEntry(r) BY <1>s, <2>0, <2>1, <3>4 DEF TruncateEntry
      <3>5. CASE WriteEntry(r) BY <1>s, <2>0, <2>1, <3>5 DEF WriteEntry
      <3>6. CASE WriteFails(r) BY <1>s, <2>0, <2>1, <3>6 DEF WriteFails
      <3>7. CASE PollReady(r) BY <1>s, <2>0, <2>1, <3>7 DEF PollReady
      <3>8. CASE PollExited(r) BY <1>s, <2>0, <2>1, <3>2, <3>8 DEF PollExited
      <3>9. CASE PollDeadline(r)
        BY <1>s, <2>0, <2>1, <3>2, <3>9 DEF PollDeadline, ChildGone
      <3>10. CASE DropKeep(r) BY <1>s, <2>0, <2>1, <3>10 DEF DropKeep
      <3>11. CASE DropCancel(r)
        <4>1. f.owner \in Masters
          BY <1>s, <2>0, <2>1, <3>2, <3>11 DEF DropCancel
        <4>2. CancelMatches(f, r)
          BY <2>0, <2>1, <4>1 DEF CancelMatches, Dest
        <4> QED BY <3>11, <4>2 DEF DropCancel
      <3>12. CASE DropChild(r)
        BY <1>s, <2>0, <2>1, <3>2, <3>12 DEF DropChild, ChildGone
      <3> QED
        BY <3>1, <3>3, <3>4, <3>5, <3>6, <3>7, <3>8, <3>9, <3>10, <3>11, <3>12
           DEF RunStep, OpenStep, DropStep, LockSlot, GiveUp, TryReuse, Adopt, Distrust,
               FreeLocalPort, NoFreePort, SshForward, SshFails, Spawn
    <2>2. CASE r # q
      <3>1. /\ job' = job
            /\ pc'[q] = pc[q] /\ port'[q] = port[q]
            /\ teardown'[q] = teardown[q] /\ child'[q] = child[q]
        BY <2>0, <2>2
           DEF RunStep, OpenStep, DropStep, LockSlot, GiveUp, TryReuse, Adopt, Distrust,
               FreeLocalPort, NoFreePort, SshForward, SshFails, NameMaster,
               TruncateEntry, WriteEntry, WriteFails, Spawn, PollReady, PollExited,
               PollDeadline, DropKeep, DropCancel, DropChild, ChildGone
      <3>2. f.owner \in Masters => master'[f.pair[1]] = master[f.pair[1]]
        <4>1. CASE SshForward(r)
          BY <2>0, <4>1, JobFacts, TunnelAssumption DEF SshForward, Wire
        <4> QED
          BY <4>1
             DEF RunStep, OpenStep, DropStep, LockSlot, GiveUp, TryReuse, Adopt, Distrust,
               FreeLocalPort, NoFreePort, SshFails, NameMaster,
               TruncateEntry, WriteEntry, WriteFails, Spawn, PollReady, PollExited,
               PollDeadline, DropKeep, DropCancel, DropChild
      <3> QED BY <2>0, <3>1, <3>2 DEF Wire
    <2> QED BY <2>1, <2>2
  <1>2. CASE f \notin fwd
    <2>1. SshForward(r)
      BY <1>2
         DEF RunStep, OpenStep, DropStep, LockSlot, GiveUp, TryReuse, Adopt, Distrust,
             FreeLocalPort, NoFreePort, SshFails, NameMaster, TruncateEntry, WriteEntry,
             WriteFails, Spawn, PollReady, PollExited, PollDeadline,
             DropKeep, DropCancel, DropChild, ChildGone
    <2>2. PICK m \in Masters :
            /\ master' = [master EXCEPT ![Dest(r)] = m]
            /\ fwd' = fwd \cup {[port |-> port[r], pair |-> job[r].pair,
                                 owner |-> m, opener |-> r]}
      BY <2>1 DEF SshForward
    <2>3. /\ f.port = port[r] /\ f.pair = job[r].pair /\ f.owner = m /\ f.opener = r
          /\ master'[f.pair[1]] = m
      BY <1>2, <2>2, JobFacts DEF Dest
    <2>4. pc'[r] \in {"name", "up"} /\ job' = job /\ port' = port
      BY <2>1 DEF SshForward
    <2>5. job[r].mode # "standalone"
      BY <1>s, <2>1 DEF SshForward, Stage
    <2> QED
      BY <2>3, <2>4, <2>5, TunnelAssumption DEF Wire, Before
  <1> QED BY <1>1, <1>2

LEMMA EnvWires ==
    ASSUME TypeOK, Stages, Wires, EnvStep
    PROVE  Wires'
  <1> USE DEF TypeOK, Wires, Wire, Before, Goto, Final, locals, registry, net
  <1>0. \A f \in fwd : f \in Forward /\ f.pair[1] \in Dests /\ f.opener \in Runs
    BY DEF Forward, Pairs
  <1>1. ASSUME NEW r \in Runs, Kill(r) PROVE Wires'
    BY <1>0, <1>1 DEF Kill
  <1>2. ASSUME NEW r \in Runs, ChildListens(r) PROVE Wires'
    <2>1. Stage(r)
      BY DEF Stages
    <2> QED BY <1>0, <1>2, <2>1, TunnelAssumption DEF ChildListens, Stage
  <1>3. ASSUME NEW r \in Runs, ChildExits(r) PROVE Wires'
    BY <1>0, <1>3 DEF ChildExits, ChildGone
  <1>4. ASSUME NEW d \in Dests, MasterExits(d) PROVE Wires'
    BY <1>0, <1>4 DEF MasterExits
  <1>5. ASSUME NEW f \in fwd, LoneCancel(f) PROVE Wires'
    BY <1>5 DEF LoneCancel
  <1>6. ASSUME NEW p \in Ports, ForeignTakes(p) \/ ForeignLeaves(p) PROVE Wires'
    BY <1>6 DEF ForeignTakes, ForeignLeaves
  <1> QED BY <1>1, <1>2, <1>3, <1>4, <1>5, <1>6 DEF EnvStep

THEOREM TunnelWires == Spec => []Wires
  <1>1. Init => Wires
    BY DEF Init, Wires
  <1>2. TypeOK /\ Stages /\ Wires /\ [Next]_vars => Wires'
    <2>1. TypeOK /\ Stages /\ Wires /\ UNCHANGED vars => Wires'
      BY DEF vars, Wires, Wire
    <2> QED BY <2>1, RunWires, EnvWires DEF Next, Finished
  <1> QED BY <1>1, <1>2, TunnelType, PTL DEF Spec

\* A run that ended in the normal way and did not keep its forward leaves none
\* behind, under every fault of the environment (Drop for Tunnel, the failure
\* paths of open_via_master and open_standalone).
THEOREM NothingLeft == Spec => []NothingLeftBehind
  <1>1. Wires => NothingLeftBehind
    BY DEF Wires, Wire, NothingLeftBehind
  <1> QED BY <1>1, TunnelWires, PTL

-----------------------------------------------------------------------------
(* What a record proves.                                                    *)

\* Forwards leave only with their owner or through a cancel, and a pid is
\* never used twice, so what a record vouches for stays vouched for.
LEMMA VouchStays ==
    ASSUME TypeOK, Stages, Wires, MastersDiffer, [Next]_vars,
           NEW p \in Ports, NEW x \in Pairs, NEW o \in Masters, Vouches(p, x, o)
    PROVE  Vouches(p, x, o)'
  <1> USE DEF TypeOK, Vouches, Goto, Fail, Return, Final, locals, registry, net
  <1>0. x[1] \in Dests
    BY DEF Pairs
  <1>1. ASSUME NEW r \in Runs, SshForward(r) PROVE Vouches(p, x, o)'
    <2>1. Dest(r) \in Dests
      BY JobFacts
    <2> QED BY <1>0, <1>1, <2>1 DEF SshForward
  <1>2. ASSUME NEW r \in Runs, DropCancel(r) PROVE Vouches(p, x, o)'
    BY <1>2 DEF DropCancel
  <1>3. ASSUME NEW r \in Runs, PollDeadline(r) \/ DropChild(r) \/ ChildExits(r)
        PROVE  Vouches(p, x, o)'
    BY <1>3, TunnelAssumption DEF PollDeadline, DropChild, ChildExits, ChildGone
  <1>4. ASSUME NEW r \in Runs, ChildListens(r) PROVE Vouches(p, x, o)'
    BY <1>4 DEF ChildListens
  <1>5. ASSUME NEW d \in Dests, MasterExits(d) PROVE Vouches(p, x, o)'
    BY <1>0, <1>5, TunnelAssumption DEF MasterExits, MastersDiffer
  <1>6. ASSUME NEW f \in fwd, LoneCancel(f) PROVE Vouches(p, x, o)'
    BY <1>6 DEF LoneCancel
  <1>7. CASE UNCHANGED <<fwd, master, spent, cancelled>>
    BY <1>7
  <1> QED
    BY <1>1, <1>2, <1>3, <1>4, <1>5, <1>6, <1>7
       DEF Next, EnvStep, RunStep, OpenStep, DropStep, LockSlot, GiveUp, TryReuse, Adopt,
           Distrust, FreeLocalPort, NoFreePort, SshFails, NameMaster, TruncateEntry,
           WriteEntry, WriteFails, Spawn, PollReady, PollExited, DropKeep, Kill,
           ForeignTakes, ForeignLeaves, Finished, vars

LEMMA MastersStay ==
    ASSUME TypeOK, MastersDiffer, [Next]_vars
    PROVE  MastersDiffer'
  <1> USE DEF TypeOK, MastersDiffer, Goto, Fail, Return, Final, locals, registry, net
  <1>1. ASSUME NEW r \in Runs, SshForward(r) PROVE MastersDiffer'
    <2>1. Dest(r) \in Dests
      BY JobFacts
    <2> QED BY <1>1, <2>1 DEF SshForward
  <1>2. ASSUME NEW d \in Dests, MasterExits(d) PROVE MastersDiffer'
    BY <1>2 DEF MasterExits
  <1>3. CASE UNCHANGED <<master, spent>>
    BY <1>3
  <1> QED
    BY <1>1, <1>2, <1>3
       DEF Next, EnvStep, RunStep, OpenStep, DropStep, LockSlot, GiveUp, TryReuse, Adopt,
           Distrust, FreeLocalPort, NoFreePort, SshFails, NameMaster, TruncateEntry,
           WriteEntry, WriteFails, Spawn, PollReady, PollExited, PollDeadline, DropKeep,
           DropCancel, DropChild, Kill, ChildListens, ChildExits, LoneCancel,
           ForeignTakes, ForeignLeaves, Finished, vars

\* A run between ssh -f and its record: its variables are its own.
LEMMA RecordingStays ==
    ASSUME TypeOK, Stages, [Next]_vars, NEW r \in Runs, pc'[r] \in Recording
    PROVE  \/ /\ pc[r] \in Recording
              /\ port'[r] = port[r] /\ job' = job /\ made'[r] = made[r]
           \/ SshForward(r)
  <1> USE DEF TypeOK, Recording, Goto, Fail, Return, Final, locals, registry, net
  <1>1. ASSUME NEW q \in Runs, RunStep(q), q = r
        PROVE  \/ /\ pc[r] \in Recording
                  /\ port'[r] = port[r] /\ job' = job /\ made'[r] = made[r]
               \/ SshForward(r)
    BY <1>1
       DEF RunStep, OpenStep, DropStep, LockSlot, GiveUp, TryReuse, Adopt,
           Distrust, FreeLocalPort, NoFreePort, SshFails, NameMaster, TruncateEntry,
           WriteEntry, WriteFails, Spawn, PollReady, PollExited, PollDeadline, DropKeep,
           DropCancel, DropChild
  <1>2. ASSUME NEW q \in Runs, RunStep(q), q # r
        PROVE  /\ pc[r] \in Recording
               /\ port'[r] = port[r] /\ job' = job /\ made'[r] = made[r]
    BY <1>2
       DEF RunStep, OpenStep, DropStep, LockSlot, GiveUp, TryReuse, Adopt,
           Distrust, FreeLocalPort, NoFreePort, SshForward, SshFails, NameMaster,
           TruncateEntry, WriteEntry, WriteFails, Spawn, PollReady, PollExited,
           PollDeadline, DropKeep, DropCancel, DropChild, ChildGone
  <1>3. CASE EnvStep \/ Finished \/ UNCHANGED vars
    BY <1>3
       DEF EnvStep, Kill, ChildListens, ChildExits, ChildGone, MasterExits, LoneCancel,
           ForeignTakes, ForeignLeaves, Finished, vars
  <1> QED BY <1>1, <1>2, <1>3 DEF Next

\* A slot holds what it held, or what the run that has its lock has opened.
LEMMA EntryStays ==
    ASSUME TypeOK, Stages, [Next]_vars, NEW s \in Slots, entry'[s] # NoEntry
    PROVE  \/ entry'[s] = entry[s]
           \/ \E r \in Runs :
                 /\ pc[r] = "write" /\ s = Slot(r)
                 /\ entry'[s] = [port |-> port[r], pid |-> pid[r],
                                 pair |-> job[r].pair, owner |-> made[r]]
  <1>1. ASSUME NEW r \in Runs, TruncateEntry(r) \/ WriteEntry(r)
        PROVE  \/ entry'[s] = entry[s]
               \/ /\ pc[r] = "write" /\ s = Slot(r)
                  /\ entry'[s] = [port |-> port[r], pid |-> pid[r],
                                  pair |-> job[r].pair, owner |-> made[r]]
    BY <1>1 DEF TypeOK, TruncateEntry, WriteEntry
  <1>2. CASE entry' = entry
    BY <1>2
  <1> QED
    BY <1>1, <1>2
       DEF Next, EnvStep, RunStep, OpenStep, DropStep, LockSlot, GiveUp, TryReuse, Adopt,
           Distrust, FreeLocalPort, NoFreePort, SshForward, SshFails, NameMaster,
           WriteFails, Spawn, PollReady, PollExited, PollDeadline, DropKeep,
           DropCancel, DropChild, Kill, ChildListens, ChildExits, MasterExits, LoneCancel,
           ForeignTakes, ForeignLeaves, Finished, vars, registry, net, locals

LEMMA VouchedStays ==
    ASSUME TypeOK, TypeOK', Stages, Wires, MastersDiffer, Vouched, [Next]_vars
    PROVE  Vouched'
  <1>1. ASSUME NEW s \in Slots, entry'[s] # NoEntry
        PROVE  Vouches(entry[s].port, entry[s].pair, entry[s].owner)'
    <2>1. CASE entry'[s] = entry[s]
      <3>1. entry[s] \in Entry
        BY <1>1, <2>1 DEF TypeOK
      <3> DEFINE e == entry[s]
      <3>2. e.port \in Ports /\ e.pair \in Pairs /\ e.owner \in Masters
        BY <3>1 DEF Entry
      <3>3. Vouches(e.port, e.pair, e.owner)
        BY <1>1, <2>1 DEF Vouched
      <3>4. \A p \in Ports, x \in Pairs, o \in Masters :
               Vouches(p, x, o) => Vouches(p, x, o)'
        BY VouchStays
      <3> QED BY <2>1, <3>2, <3>3, <3>4 DEF Vouches
    <2>2. ASSUME NEW r \in Runs, pc[r] = "write", s = Slot(r),
                 entry'[s] = [port |-> port[r], pid |-> pid[r],
                              pair |-> job[r].pair, owner |-> made[r]]
          PROVE  Vouches(entry[s].port, entry[s].pair, entry[s].owner)'
      <3>1. port[r] \in Ports /\ made[r] \in Masters /\ job[r].pair \in Pairs
        BY <2>2, JobFacts DEF Stages, Stage, Recording
      <3>2. Vouches(port[r], job[r].pair, made[r])
        BY <2>2 DEF Vouched, Recording
      <3>3. \A p \in Ports, x \in Pairs, o \in Masters :
               Vouches(p, x, o) => Vouches(p, x, o)'
        BY VouchStays
      <3> QED BY <2>2, <3>1, <3>2, <3>3 DEF Vouches
    <2> QED BY <1>1, <2>1, <2>2, EntryStays
  <1>2. ASSUME NEW r \in Runs, pc'[r] \in Recording
        PROVE  Vouches(port[r], job[r].pair, made[r])'
    <2>1. CASE /\ pc[r] \in Recording
               /\ port'[r] = port[r] /\ job' = job /\ made'[r] = made[r]
      <3>1. port[r] \in Ports /\ made[r] \in Masters /\ job[r].pair \in Pairs
        BY <2>1, JobFacts DEF Stages, Stage
      <3>2. Vouches(port[r], job[r].pair, made[r])
        BY <2>1 DEF Vouched
      <3>3. \A p \in Ports, x \in Pairs, o \in Masters :
               Vouches(p, x, o) => Vouches(p, x, o)'
        BY VouchStays
      <3> QED BY <2>1, <3>1, <3>2, <3>3 DEF Vouches
    <2>2. CASE SshForward(r)
      <3>1. Dest(r) \in Dests
        BY JobFacts
      <3>2. PICK m \in Masters :
              /\ master' = [master EXCEPT ![Dest(r)] = m]
              /\ spent' = spent \cup {m}
              /\ made' = [made EXCEPT ![r] = m]
              /\ fwd' = fwd \cup {[port |-> port[r], pair |-> job[r].pair,
                                   owner |-> m, opener |-> r]}
        BY <2>2 DEF SshForward
      <3>3. made'[r] = m /\ job' = job /\ port' = port
        BY <2>2, <3>2 DEF SshForward, TypeOK
      <3> DEFINE g == [port |-> port[r], pair |-> job[r].pair, owner |-> m, opener |-> r]
      <3>4. g \in fwd' /\ g.port = port'[r] /\ g.pair = job'[r].pair /\ g.owner = made'[r]
        BY <3>2, <3>3
      <3>5. made'[r] \in spent'
        BY <3>2, <3>3
      <3> HIDE DEF g
      <3> QED BY <3>4, <3>5 DEF Vouches
    <2> QED BY <1>2, <2>1, <2>2, RecordingStays
  <1> QED BY <1>1, <1>2 DEF Vouched

LEMMA TunnelVouched == Spec => [](MastersDiffer /\ Vouched)
  <1>1. Init => MastersDiffer /\ Vouched
    BY DEF Init, MastersDiffer, Vouched, Recording
  <1>2. /\ TypeOK /\ TypeOK' /\ Stages /\ Wires
        /\ MastersDiffer /\ Vouched /\ [Next]_vars
        => (MastersDiffer /\ Vouched)'
    BY MastersStay, VouchedStays
  <1> QED BY <1>1, <1>2, TunnelType, TunnelWires, PTL DEF Spec

\* The three conditions of try_reuse prove ownership whenever the pid on record
\* is the master that opened the forward and nobody cancelled that forward.
THEOREM RecordedOwner == Spec => RecordedOwnerIsProof
  <1>1. ASSUME TypeOK, Stages, Vouched, [Next]_vars, NEW r \in Runs, Adopts(r),
               entry[Slot(r)].pid = entry[Slot(r)].owner,
               <<entry[Slot(r)].port, entry[Slot(r)].owner>> \notin cancelled
        PROVE  LeadsTo(port'[r], job[r].pair)
    <2> DEFINE e == entry[Slot(r)]
    <2> USE DEF TypeOK, Goto, Return, Fail, locals, registry, net
    <2>1. Adopt(r)
      BY <1>1
         DEF Adopts, Next, EnvStep, RunStep, OpenStep, DropStep, LockSlot, GiveUp, TryReuse,
           Distrust, FreeLocalPort, NoFreePort, SshForward, SshFails, NameMaster,
           TruncateEntry, WriteEntry, WriteFails, Spawn, PollReady, PollExited,
           PollDeadline, DropKeep, DropCancel, DropChild, Kill, ChildListens, ChildExits,
           ChildGone, MasterExits, LoneCancel, ForeignTakes, ForeignLeaves, Finished, vars,
           Adopt
    <2>2. Slot(r) \in Slots /\ e # NoEntry /\ e.pair = job[r].pair
      BY <1>1, JobFacts DEF Adopts, Stages, Stage, RecordIsMine
    <2>3. e \in Entry /\ e.owner \in Masters
      BY <1>1, <2>2 DEF Entry
    <2>4. master[Dest(r)] = e.owner
      BY <1>1, <2>1, <2>3, TunnelAssumption DEF Adopt, CheckReplies
    <2>5. Vouches(e.port, e.pair, e.owner)
      BY <1>1, <2>2 DEF Vouched
    <2>6. \E f \in fwd : f.port = e.port /\ f.pair = e.pair
      BY <1>1, <2>2, <2>4, <2>5 DEF Vouches, Dest
    <2>7. port'[r] = e.port
      BY <1>1, <2>1 DEF Adopt
    <2> QED BY <2>2, <2>6, <2>7 DEF LeadsTo
  <1>2. TypeOK /\ Stages /\ Vouched /\ [Next]_vars =>
          [\A r \in Runs :
             LET e == entry[Slot(r)] IN
             Adopts(r) /\ e.pid = e.owner /\ <<e.port, e.owner>> \notin cancelled
                => LeadsTo(port'[r], job[r].pair)]_vars
    BY <1>1
  <1> QED BY <1>2, TunnelType, TunnelVouched, PTL DEF Spec, RecordedOwnerIsProof

-----------------------------------------------------------------------------
(* The lifecycle invariant in a calm environment.                           *)

\* Nothing fails but masters and ssh, every pair has a registry file of its own
\* and every run may reuse.
Calm ==
    /\ Faults = {}
    /\ \A x, y \in Pairs : SlotOf[x] = SlotOf[y] => x = y
    /\ \A j \in Jobs : j.mode = "reuse"

OnRecord(f) ==
    LET e == entry[SlotOf[f.pair]]
    IN  e # NoEntry /\ e.port = f.port /\ e.pid = f.owner /\ e.pair = f.pair

\* Labels between the decision to open a forward and the record of it.
Opening == {"pick", "ssh"} \cup Recording

Single ==
    /\ \A r \in Runs : pc[r] \in Opening =>
          HasSlot(r) /\ \A f \in fwd : f.pair = job[r].pair => f.opener = r
    /\ \A f \in fwd :
          /\ OnRecord(f) \/ pc[f.opener] \in Recording
          /\ pc[f.opener] \in {"truncate", "write"} => pid[f.opener] = f.owner
    /\ AtMostOneForward

LEMMA RunSingle ==
    ASSUME Calm, TypeOK, Stages, Wires, Single, NEW r \in Runs, RunStep(r)
    PROVE  Single'
  <1> USE DEF TypeOK, Goto, Fail, Return, Final, locals, registry, net
  <1>0. /\ Slot(r) \in Slots /\ Dest(r) \in Dests /\ job[r].pair \in Pairs
        /\ \A q \in Runs : /\ job[q].mode = "reuse" /\ job[q].pair \in Pairs
                           /\ Slot(q) \in Slots /\ Stage(q)
        /\ Faults = {}
    BY JobFacts DEF Calm, Stages
  <1>f. ASSUME NEW f \in fwd
        PROVE  /\ f.opener \in Runs /\ f.pair \in Pairs /\ Wire(f) /\ f.owner \in Masters
               /\ f.pair[1] \in Dests /\ SlotOf[f.pair] \in Slots
               /\ f.port \in Ports
    <2>1. f \in Forward /\ Wire(f)
      BY DEF Wires
    <2> QED BY <1>0, <2>1, TunnelAssumption DEF Forward, Wire, Stage, Pairs
  \* While r has its slot, a forward of r's pair is on record or r's own.
  <1>m. ASSUME HasSlot(r), NEW f \in fwd, f.pair = job[r].pair, f.opener # r
        PROVE  OnRecord(f)
    <2>1. f.opener \in Runs /\ job[f.opener].pair = f.pair
      BY <1>f DEF Wire
    <2>2. pc[f.opener] \in Recording => HasSlot(f.opener)
      BY <1>0, <2>1 DEF Stage, Locked
    <2>3. pc[f.opener] \notin Recording
      BY <1>m, <2>1, <2>2 DEF HasSlot, Slot
    <2> QED BY <2>3 DEF Single
  <1>1. CASE LockSlot(r)
    <2>1. \A q \in Runs : HasSlot(q) => HasSlot(q)'
      BY <1>0, <1>1, TunnelAssumption DEF LockSlot, HasSlot, Slot
    <2> QED
      BY <1>0, <1>1, <1>f, <2>1
         DEF LockSlot, Single, AtMostOneForward, OnRecord, Opening, Recording
  <1>2. CASE GiveUp(r)
    BY <1>0, <1>2 DEF GiveUp
  <1>3. CASE TryReuse(r)
    <2>1. HasSlot(r) /\ pc[r] = "probe"
      BY <1>0, <1>3 DEF TryReuse, Stage, Locked
    <2>2. ASSUME NEW f \in fwd, f.pair = job[r].pair
          PROVE  RecordIsMine(r) /\ Occupied(entry[Slot(r)].port)
      <3>1. f.opener # r
        BY <1>f, <2>1 DEF Wire, Before
      <3>2. OnRecord(f)
        BY <1>m, <2>1, <2>2, <3>1
      <3> QED BY <2>2, <3>2 DEF OnRecord, RecordIsMine, Occupied, Slot
    <2>3. pc'[r] = "pick" => \A f \in fwd : f.pair # job[r].pair
      BY <1>3, <2>2 DEF TryReuse
    <2> QED
      BY <1>0, <1>3, <1>f, <2>1, <2>3
         DEF TryReuse, Single, AtMostOneForward, OnRecord, Opening, Recording, HasSlot, Slot
  <1>4. CASE Distrust(r)
    <2>1. HasSlot(r) /\ pc[r] = "ask" /\ entry[Slot(r)].pid # master[Dest(r)]
      BY <1>0, <1>4 DEF Distrust, Stage, Locked, CheckReplies
    <2>2. ASSUME NEW f \in fwd, f.pair = job[r].pair PROVE FALSE
      <3>1. f.opener # r
        BY <1>f, <2>1 DEF Wire, Before
      <3>2. OnRecord(f)
        BY <1>m, <2>1, <2>2, <3>1
      <3> QED BY <1>f, <2>1, <2>2, <3>2 DEF OnRecord, Wire, Slot, Dest
    <2> QED
      BY <1>0, <1>4, <1>f, <2>1, <2>2
         DEF Distrust, Single, AtMostOneForward, OnRecord, Opening, Recording, HasSlot, Slot
  <1>5. CASE SshForward(r)
    <2>1. HasSlot(r) /\ pc'[r] = "name" /\ holder' = holder /\ entry' = entry
          /\ job' = job /\ pid' = pid /\ pc' = [pc EXCEPT ![r] = "name"]
      BY <1>5 DEF SshForward, Single, Opening
    <2>2. \A f \in fwd : f.pair # job[r].pair
      BY <1>5, <1>f DEF SshForward, Single, Opening, Wire, Before
    <2>3. PICK m \in Masters :
            fwd' = fwd \cup {[port |-> port[r], pair |-> job[r].pair,
                             owner |-> m, opener |-> r]}
      BY <1>5 DEF SshForward
    <2>4. \A q \in Runs : pc[q] \in Opening /\ q # r => job[q].pair # job[r].pair
      BY <1>0, <2>1 DEF Single, HasSlot, Slot
    <2>5. AtMostOneForward'
      BY <2>2, <2>3 DEF Single, AtMostOneForward
    <2>6. \A q \in Runs : pc'[q] \in Opening =>
             HasSlot(q)' /\ \A f \in fwd' : f.pair = job'[q].pair => f.opener = q
      BY <1>0, <2>1, <2>2, <2>3, <2>4 DEF Single, HasSlot, Slot
    <2>7. ASSUME NEW f \in fwd'
          PROVE  /\ OnRecord(f)' \/ pc'[f.opener] \in Recording
                 /\ pc'[f.opener] \in {"truncate", "write"} => pid'[f.opener] = f.owner
      <3>1. CASE f \in fwd
        BY <1>f, <2>1, <3>1 DEF Single, OnRecord, Recording
      <3>2. CASE f.opener = r
        BY <2>1, <3>2 DEF Recording
      <3> QED BY <2>3, <2>7, <3>1, <3>2
    <2> QED BY <2>5, <2>6, <2>7 DEF Single
  <1>6. CASE NameMaster(r)
    <2>1. HasSlot(r) /\ pc[r] = "name"
      BY <1>0, <1>6 DEF NameMaster, Stage, Locked, Recording
    <2>2. ASSUME NEW f \in fwd, f.opener = r
          PROVE  pc'[r] = "truncate" /\ pid'[r] = f.owner
      <3>1. f.owner = master[Dest(r)] /\ f.owner # NoMaster
        BY <1>f, <2>2, TunnelAssumption DEF Wire, Dest
      <3> QED BY <1>0, <1>6, <3>1 DEF NameMaster, CheckReplies
    <2>3. \A q \in Runs \ {r} : HasSlot(q) => HasSlot(q)'
      BY <1>0, <1>6, UnlockedFacts DEF NameMaster, HasSlot, Slot
    <2>4. pc'[r] \in Opening => HasSlot(r)'
      BY <1>6, <2>1 DEF NameMaster, HasSlot, Slot, Opening, Recording
    <2>5. \A q \in Runs \ {r} : pc'[q] = pc[q] /\ pid'[q] = pid[q]
      BY <1>6 DEF NameMaster
    <2>6. /\ fwd' = fwd /\ entry' = entry /\ job' = job
          /\ pc[r] \in Opening
      BY <1>6 DEF NameMaster, Opening, Recording
    <2>7. \A q \in Runs : pc'[q] \in Opening =>
             HasSlot(q)' /\ \A f \in fwd' : f.pair = job'[q].pair => f.opener = q
      BY <2>3, <2>4, <2>5, <2>6 DEF Single
    <2>8. ASSUME NEW f \in fwd'
          PROVE  /\ OnRecord(f)' \/ pc'[f.opener] \in Recording
                 /\ pc'[f.opener] \in {"truncate", "write"} => pid'[f.opener] = f.owner
      BY <1>f, <2>2, <2>5, <2>6 DEF Single, OnRecord, Recording
    <2> QED BY <2>6, <2>7, <2>8 DEF Single, AtMostOneForward
  <1>7. CASE TruncateEntry(r) \/ WriteEntry(r)
    <2>1. /\ HasSlot(r) /\ pc[r] \in {"truncate", "write"} /\ pc[r] \in Opening
          /\ pc[r] \in Recording
      BY <1>0, <1>7 DEF TruncateEntry, WriteEntry, Stage, Locked, Recording, Opening
    <2>2. \A q \in Runs \ {r} : HasSlot(q) => HasSlot(q)'
      BY <1>0, <1>7, UnlockedFacts DEF TruncateEntry, WriteEntry, HasSlot, Slot
    <2>3. pc'[r] \in Opening => HasSlot(r)'
      BY <1>7, <2>1 DEF TruncateEntry, WriteEntry, HasSlot, Slot, Opening, Recording
    <2>4. \A q \in Runs \ {r} : pc'[q] = pc[q]
      BY <1>7 DEF TruncateEntry, WriteEntry
    <2>5. fwd' = fwd /\ job' = job /\ pid' = pid
      BY <1>7 DEF TruncateEntry, WriteEntry
    <2>6. \A q \in Runs : pc'[q] \in Opening =>
             HasSlot(q)' /\ \A f \in fwd' : f.pair = job'[q].pair => f.opener = q
      BY <2>1, <2>2, <2>3, <2>4, <2>5 DEF Single
    <2>7. ASSUME NEW f \in fwd
          PROVE  /\ OnRecord(f)' \/ pc'[f.opener] \in Recording
                 /\ pc'[f.opener] \in {"truncate", "write"} => pid'[f.opener] = f.owner
      <3>1. CASE SlotOf[f.pair] # Slot(r)
        <4>1. entry'[SlotOf[f.pair]] = entry[SlotOf[f.pair]]
          BY <1>0, <1>7, <1>f, <3>1 DEF TruncateEntry, WriteEntry
        <4>2. f.opener # r
          BY <1>f, <3>1 DEF Wire, Slot
        <4> QED BY <1>f, <2>4, <2>5, <4>1, <4>2 DEF Single, OnRecord
      <3>2. CASE SlotOf[f.pair] = Slot(r)
        <4>1. f.pair = job[r].pair
          BY <1>0, <1>f, <3>2 DEF Calm, Slot
        <4>2. f.opener = r
          BY <2>1, <4>1 DEF Single
        <4>3. f.port = port[r]
          BY <1>f, <4>2 DEF Wire
        <4>4. pid[r] = f.owner
          BY <2>1, <4>2 DEF Single
        <4>5. CASE TruncateEntry(r)
          BY <2>5, <4>2, <4>4, <4>5 DEF TruncateEntry, Recording
        <4>6. CASE WriteEntry(r)
          <5>1. entry'[Slot(r)] = [port |-> port[r], pid |-> pid[r], pair |-> job[r].pair,
                                   owner |-> made[r]]
            BY <1>0, <4>6 DEF WriteEntry
          <5>2. port[r] \in Ports /\ pid[r] \in Masters /\ made[r] \in Masters
            BY <1>0, <2>1 DEF Stage
          <5>3. entry'[Slot(r)] # NoEntry
            BY <1>0, <5>1, <5>2, NoEntryAssumption DEF Entry
          <5>4. pc'[r] = "up"
            BY <4>6 DEF WriteEntry
          <5> QED BY <3>2, <4>1, <4>2, <4>3, <4>4, <5>1, <5>3, <5>4 DEF OnRecord
        <4> QED BY <1>7, <4>5, <4>6
      <3> QED BY <3>1, <3>2
    <2> QED BY <2>5, <2>6, <2>7 DEF Single, AtMostOneForward
  <1>8. CASE \/ Adopt(r) \/ NoFreePort(r) \/ SshFails(r)
    <2>1. \A q \in Runs \ {r} : HasSlot(q) => HasSlot(q)'
      BY <1>0, <1>8, UnlockedFacts DEF Adopt, NoFreePort, SshFails, HasSlot, Slot
    <2>2. /\ fwd' = fwd /\ job' = job /\ entry' = entry /\ pid' = pid
          /\ pc[r] \notin Recording /\ pc'[r] \notin Opening
          /\ \A q \in Runs \ {r} : pc'[q] = pc[q]
      BY <1>8 DEF Adopt, NoFreePort, SshFails, Opening, Recording
    <2> QED BY <1>f, <2>1, <2>2 DEF Single, AtMostOneForward, OnRecord, Opening, Recording
  <1>9. CASE \/ FreeLocalPort(r) \/ Spawn(r) \/ PollReady(r) \/ PollExited(r)
             \/ PollDeadline(r) \/ DropKeep(r) \/ DropCancel(r) \/ DropChild(r)
    <2>1. /\ fwd' \subseteq fwd /\ job' = job /\ entry' = entry /\ pid' = pid
          /\ holder' = holder /\ pc[r] \notin Recording /\ pc'[r] \notin Recording
          /\ pc'[r] \in Opening => pc[r] \in Opening
          /\ \A q \in Runs \ {r} : pc'[q] = pc[q]
      BY <1>0, <1>9
         DEF FreeLocalPort, Spawn, PollReady, PollExited, PollDeadline, DropKeep,
             DropCancel, DropChild, ChildGone, Opening, Recording, Stage
    <2> QED
      BY <1>f, <2>1 DEF Single, AtMostOneForward, OnRecord, HasSlot, Slot, Recording
  <1>10. CASE WriteFails(r)
    BY <1>0, <1>10 DEF WriteFails
  <1> QED
    BY <1>1, <1>2, <1>3, <1>4, <1>5, <1>6, <1>7, <1>8, <1>9, <1>10
       DEF RunStep, OpenStep, DropStep

LEMMA EnvSingle ==
    ASSUME Calm, TypeOK, Stages, Wires, Single, EnvStep
    PROVE  Single'
  <1> USE DEF TypeOK, locals, registry, net
  <1>1. Faults = {} /\ \A q \in Runs : job[q].mode = "reuse" /\ Stage(q)
    BY DEF Calm, Stages
  <1>2. \A f \in fwd : f.opener \in Runs
    BY DEF Forward
  <1>3. ASSUME NEW r \in Runs, ChildListens(r) PROVE FALSE
    BY <1>1, <1>3 DEF ChildListens, Stage
  <1>4. /\ fwd' \subseteq fwd
        /\ UNCHANGED <<pc, job, entry, pid, holder>>
    BY <1>1, <1>3
       DEF EnvStep, Kill, ChildExits, ChildGone, MasterExits, LoneCancel, ForeignTakes,
           ForeignLeaves
  <1> QED BY <1>2, <1>4 DEF Single, AtMostOneForward, OnRecord, HasSlot, Slot

\* In a calm environment, whatever the masters and ssh do, there is at most one
\* nyet forward per pair, and a kept one is on record (tunnel.rs:21).
LEMMA CalmSingle == ASSUME Calm PROVE Spec => []Single
  <1>1. Init => Single
    BY JobFacts DEF Init, Single, AtMostOneForward, Opening, Recording, Calm
  <1>2. TypeOK /\ Stages /\ Wires /\ Single /\ [Next]_vars => Single'
    <2>1. Single /\ UNCHANGED vars => Single'
      BY DEF vars, Single, AtMostOneForward, OnRecord, HasSlot, Slot
    <2> QED BY <2>1, RunSingle, EnvSingle DEF Next, Finished
  <1> QED BY <1>1, <1>2, TunnelType, TunnelWires, PTL DEF Spec

\* The lifecycle invariant of tunnel.rs, for any number of runs.
THEOREM OneForwardPerPair == ASSUME Calm PROVE Spec => []AtMostOneForward
  <1>1. Single => AtMostOneForward
    BY DEF Single
  <1> QED BY <1>1, CalmSingle, PTL

\* Every forward kept in a calm environment is the one on record for its pair.
THEOREM KeptForwardIsRecorded == ASSUME Calm PROVE Spec => []KeptIsRecorded
  <1>1. TypeOK /\ Stages /\ Single => KeptIsRecorded
    <2> SUFFICES ASSUME TypeOK, Stages, Single, NEW f \in fwd,
                        teardown[f.opener] = "keep"
                 PROVE  OnRecord(f)
      BY DEF KeptIsRecorded, OnRecord
    <2>1. f.opener \in Runs
      BY DEF TypeOK, Forward
    <2> QED BY <2>1 DEF Stages, Stage, Single
  <1> QED BY <1>1, CalmSingle, TunnelType, PTL
=============================================================================
