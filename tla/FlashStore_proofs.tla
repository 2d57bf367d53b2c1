------------------------- MODULE FlashStore_proofs -------------------------
(***************************************************************************)
(* For any settings, sequencer and picture, however often a rewrite is cut *)
(* short: the cache of the configuration is never stale; the buffer stays  *)
(* claimed after a command only when wlan-ap-configure has left it so; the *)
(* mirrors of the sequencer agree; a rewrite changes what it was asked to  *)
(* and nothing else; and the configuration is what ConfigStore promises.   *)
(*                                                                         *)
(* What makes the first two inductive is who holds the buffer when: a      *)
(* session without changes has in it what the sector has, a claimed buffer *)
(* in a session belongs to the configuration, a sector is rewritten only   *)
(* by the user it belongs to, and the abandoned session has changes, so    *)
(* that no request but one for those changes is granted.  The others need  *)
(* what the buffer holds as well, and what Keep makes of a sequence of     *)
(* settings, which is shown along the sequence.                            *)
(***************************************************************************)
EXTENDS FlashStore, FiniteSetTheorems, SequenceTheorems, WellFoundedInduction, TLAPS

IsContent(c) == c = [magic |-> c.magic, data |-> c.data, end |-> c.end]

\* The shape of the buffer, of the sectors and of the job.
Shape ==
  /\ IsContent(ram)
  /\ DOMAIN flash = Sector
  /\ \A s \in Sector : IsContent(flash[s])
  /\ job = [sector |-> job.sector, entry |-> job.entry, held |-> job.held]
  /\ job.sector \in Sector

Unchanged ==
  use \in {"config_cache", "config_write"} =>
    Loaded(ram) = Loaded(flash["config"])

\* Who holds the buffer.
Holder ==
  /\ pc \in {"erase", "write"} =>
       \/ job.sector = "config" /\ use = "config_write_dirty"
       \/ job.sector \in Mirror /\ use = "sequencer"
       \/ job.sector = "rboot" /\ use = "rboot"
  /\ pc = "session" /\ pvt => InSession
  /\ InSession => pvt
  /\ pc = "idle" /\ pvt => abandoned
  /\ abandoned \in BOOLEAN
  /\ abandoned => pvt /\ Dirty

IInv == Shape /\ Unchanged /\ Holder

\* At the start nobody has the buffer.
LEMMA Initially == Init => IInv
<1> SUFFICES ASSUME Init PROVE IInv
  OBVIOUS
<1>1. \A s \in Sector : flash[s] \in {EmptyConfig, Boot, Cleared}
  BY DEF Init, Sector
<1>2. Shape
  BY <1>1 DEF Init, Shape, IsContent, Erased, EmptyConfig, Cleared, Boot, NoJob, Sector
<1>3. Unchanged /\ Holder
  BY DEF Init, Unchanged, Holder, InSession, Dirty
<1> QED  BY <1>2, <1>3 DEF IInv

\* Reading a sector gives a content.
LEMMA LoadedShape ==
  ASSUME NEW c, IsContent(c)
  PROVE  IsContent(Loaded(c)) /\ Loaded(Loaded(c)) = Loaded(c)
  BY DEF IsContent, Loaded, EmptyConfig

\* What With, Final and Torn make of a content is one.
LEMMA WithShape ==
  ASSUME NEW c, IsContent(c), NEW n, NEW v
  PROVE  IsContent(With(c, n, v))
  BY DEF IsContent, With

LEMMA TornShape ==
  ASSUME NEW c, IsContent(c), NEW t \in Torn(c)
  PROVE  IsContent(t)
  BY DEF IsContent, Torn, Erased

\* config_open_read of a coherent buffer.
LEMMA FreshShape ==
  ASSUME IInv
  PROVE  IsContent(Fresh) /\ Loaded(Fresh) = Loaded(flash["config"])
  BY LoadedShape DEF IInv, Shape, Unchanged, Fresh, Sector

-----------------------------------------------------------------------------
\* A step that changes neither sectors nor job, and leaves or makes the
\* buffer a content, keeps the shape.
LEMMA SameShape ==
  ASSUME Shape, UNCHANGED flash, job' = job \/ job' = NoJob, IsContent(ram')
  PROVE  Shape'
  BY DEF Shape, NoJob, IsContent, Sector, Erased

\* A request that is granted finds the buffer not claimed, or claimed by
\* the same user; while a session is abandoned that is nobody.
LEMMA Granted ==
  ASSUME Holder, pc = "idle", NEW u, u # "config_write_dirty", Available(u)
  PROVE  ~pvt /\ ~abandoned
  BY DEF Holder, Available, Dirty

\* What does not touch anything of these keeps them.
LEMMA Stutter ==
  ASSUME IInv, UNCHANGED <<buffer, flash, pc, job, abandoned>>
  PROVE  IInv'
  BY DEF IInv, Shape, Unchanged, Holder, buffer, IsContent, Loaded, InSession, Dirty
-----------------------------------------------------------------------------
LEMMA GetKeeps ==
  ASSUME IInv, config_get_string, abandoned' = (abandoned /\ pvt')
  PROVE  IInv'
<1>1. ~pvt /\ ~abandoned
  BY Granted DEF IInv, config_get_string
<1>2. IsContent(ram')
  BY FreshShape DEF config_get_string, Take, Unreadable, Release, IsContent, Erased
<1>3. Shape'
  BY <1>2, SameShape DEF IInv, config_get_string
<1>4. Unchanged'
  BY FreshShape DEF config_get_string, Take, Unreadable, Release, Unchanged, Loaded
<1>5. Holder'
  BY <1>1 DEF config_get_string, Take, Unreadable, Release, Holder, InSession, Dirty
<1> QED  BY <1>3, <1>4, <1>5 DEF IInv

LEMMA OpenKeeps ==
  ASSUME IInv, NEW c \in Caller, config_open_write(c),
         abandoned' = (abandoned /\ pvt')
  PROVE  IInv'
<1>1. CASE Available("config_read") /\ Take("config_write", TRUE, Fresh) /\ pc' = "session"
  <2>1. IsContent(ram')
    BY <1>1, FreshShape DEF Take
  <2>2. Shape'
    BY <2>1, SameShape DEF IInv, config_open_write
  <2>3. Unchanged'
    BY <1>1, FreshShape DEF config_open_write, Take, Unchanged, Loaded
  <2>4. ~abandoned
    BY <1>1, Granted DEF IInv, config_open_write
  <2>5. Holder'
    BY <1>1, <2>4 DEF config_open_write, Take, Holder, InSession
  <2> QED  BY <2>2, <2>3, <2>5 DEF IInv
<1>2. CASE /\ Available("config_read") /\ Unreadable
           /\ IF c = "blind" THEN pc' = "session" /\ caller' = c ELSE Idle
  <2>1. IsContent(ram')
    BY <1>2 DEF Unreadable, Release, IsContent, Erased
  <2>2. Shape'
    BY <2>1, SameShape DEF IInv, config_open_write
  <2>3. Unchanged' /\ Holder'
    BY <1>2 DEF Unreadable, Release, Unchanged, Holder, Idle, InSession, Dirty
  <2> QED  BY <2>2, <2>3 DEF IInv
<1>3. CASE /\ ~Available("config_read")
           /\ IF c = "aborting" THEN Abort ELSE UNCHANGED buffer
           /\ IF c = "blind" THEN pc' = "session" /\ caller' = c ELSE Idle
  <2>1. pvt /\ abandoned /\ Dirty
    BY <1>3 DEF IInv, Holder, Available, config_open_write
  <2>2. UNCHANGED buffer \/ Release
    BY <1>3, <2>1 DEF Abort, Dirty
  <2>3. IsContent(ram')
    BY <2>2 DEF buffer, Release, IInv, Shape, IsContent, Erased
  <2>4. Shape'
    BY <2>3, SameShape DEF IInv, config_open_write
  <2>5. Unchanged' /\ Holder'
    BY <1>3, <2>1, <2>2
    DEF Release, buffer, Unchanged, Holder, Idle, Dirty, InSession
  <2> QED  BY <2>4, <2>5 DEF IInv
<1> QED  BY <1>1, <1>2, <1>3 DEF config_open_write

LEMMA SetKeeps ==
  ASSUME IInv, NEW n \in Name, NEW v \in Value, config_set_string(n, v),
         abandoned' = (abandoned /\ pvt')
  PROVE  IInv'
<1>1. IsContent(ram')
  BY WithShape DEF IInv, Shape, config_set_string, Take
<1>2. Shape'
  BY <1>1, SameShape DEF IInv, config_set_string
<1>3. Unchanged' /\ Holder'
  BY DEF IInv, config_set_string, Take, Unchanged, Holder, InSession, Dirty
<1> QED  BY <1>2, <1>3 DEF IInv

LEMMA DeleteKeeps ==
  ASSUME IInv, NEW names, config_delete(names),
         abandoned' = (abandoned /\ pvt')
  PROVE  IInv'
<1> DEFINE rest == Without(ram.data, names)
<1>1. ram' = [ram EXCEPT !.data = rest] /\ pvt'
  BY DEF config_delete, Take
<1>2. IsContent(ram')
  BY <1>1 DEF IInv, Shape, IsContent
<1>3. Shape'
  BY <1>2, SameShape DEF IInv, config_delete
<1>4. use' = IF rest = ram.data THEN use ELSE "config_write_dirty"
  BY DEF config_delete, Take
<1>5. Unchanged'
  <2>1. CASE rest = ram.data
    <3>1. ram' = ram
      BY <1>1, <2>1 DEF IInv, Shape, IsContent
    <3> QED  BY <3>1, <2>1, <1>4 DEF IInv, Unchanged, config_delete, Loaded
  <2>2. CASE rest # ram.data
    BY <1>4, <2>2 DEF Unchanged
  <2> QED  BY <2>1, <2>2
<1>6. Holder'
  BY <1>1, <1>4 DEF IInv, config_delete, Holder, InSession, Dirty
<1> QED  BY <1>3, <1>5, <1>6 DEF IInv

LEMMA AbortKeeps ==
  ASSUME IInv, config_abort_write, abandoned' = (abandoned /\ pvt')
  PROVE  IInv'
<1>1. \/ use = "config_write" /\ Take("config_cache", FALSE, ram)
      \/ Dirty /\ Release
      \/ ~InSession /\ UNCHANGED buffer
  BY DEF config_abort_write, Abort, InSession, Dirty
<1>2. IsContent(ram')
  BY <1>1 DEF Take, Release, buffer, IInv, Shape, IsContent, Erased
<1>3. Shape'
  BY <1>2, SameShape DEF IInv, config_abort_write
<1>4. Unchanged'
  BY <1>1 DEF IInv, config_abort_write, Take, Release, buffer, Unchanged, Loaded
<1>5. ~pvt'
  BY <1>1 DEF IInv, config_abort_write, Take, Release, buffer, Holder
<1>6. Holder'
  <2>1. pc' = "idle" /\ ~abandoned'
    BY <1>5 DEF config_abort_write, Idle
  <2>2. use' \notin {"config_write", "config_write_dirty"}
    BY <1>1 DEF Take, Release, buffer, InSession, Dirty
  <2> QED  BY <1>5, <2>1, <2>2 DEF Holder, InSession, Dirty
<1> QED  BY <1>3, <1>4, <1>6 DEF IInv

LEMMA ReopenKeeps ==
  ASSUME IInv, ReopenAp, abandoned' = TRUE
  PROVE  IInv'
<1>1. Shape'
  BY SameShape DEF IInv, Shape, ReopenAp, buffer
<1>2. Unchanged' /\ Holder'
  BY DEF IInv, ReopenAp, buffer, Unchanged, Loaded, Holder, Idle, InSession, Dirty
<1> QED  BY <1>1, <1>2 DEF IInv

LEMMA CloseKeeps ==
  ASSUME IInv, config_close_write, abandoned' = (abandoned /\ pvt')
  PROVE  IInv'
<1>1. CASE use = "config_write" /\ Take("config_cache", FALSE, ram) /\ Idle /\ UNCHANGED job
  <2>1. Shape'
    BY <1>1, SameShape DEF IInv, Shape, config_close_write, Take
  <2>2. Unchanged' /\ Holder'
    BY <1>1 DEF IInv, config_close_write, Take, Unchanged, Loaded, Holder, Idle,
                InSession, Dirty
  <2> QED  BY <2>1, <2>2 DEF IInv
<1>2. CASE Dirty /\ Take(use, TRUE, Final(ram)) /\ pc' = "erase" /\ job' = NoJob
  <2>1. IsContent(ram')
    BY <1>2 DEF IInv, Shape, Take, Final, IsContent
  <2>2. Shape'
    BY <1>2, <2>1, SameShape DEF IInv, config_close_write
  <2>3. Unchanged' /\ Holder'
    BY <1>2 DEF IInv, Take, Unchanged, Holder, NoJob, InSession, Dirty
  <2> QED  BY <2>2, <2>3 DEF IInv
<1>3. CASE ~InSession /\ Idle /\ UNCHANGED <<buffer, job>>
  <2>1. Shape'
    BY <1>3, SameShape DEF IInv, Shape, config_close_write, buffer
  <2>2. Unchanged' /\ Holder'
    BY <1>3 DEF IInv, config_close_write, buffer, Unchanged, Loaded, Holder,
                Idle, InSession, Dirty
  <2> QED  BY <2>1, <2>2 DEF IInv
<1> QED  BY <1>1, <1>2, <1>3 DEF config_close_write
-----------------------------------------------------------------------------
\* A sector of the sequencer with an entry changed is still a content.
LEMMA UpdatedShape ==
  ASSUME Shape, NEW s \in Mirror, NEW i, NEW v
  PROVE  IsContent(Updated(s, i, v))
  BY DEF Shape, Updated, IsContent, Mirror, Sector

\* A released buffer.
LEMMA ReleaseShape == Release => IsContent(ram') /\ use' = "free" /\ ~pvt'
  BY DEF Release, IsContent, Erased

\* A buffer that was released, with nobody running, has no user to care for.
LEMMA FreeKeeps ==
  ASSUME Shape', use' = "free", ~pvt', pc' = "idle", abandoned' = (abandoned /\ pvt')
  PROVE  IInv'
  BY DEF IInv, Unchanged, Holder, InSession, Dirty

LEMMA UpdateKeeps ==
  ASSUME IInv, NEW i \in Slot \cup {0}, NEW v \in Entry \cup {Absent},
         UpdateSequencer(i, v), abandoned' = (abandoned /\ pvt')
  PROVE  IInv'
<1>1. CASE Release /\ UNCHANGED <<pc, job>>
  <2>1. Shape'
    BY <1>1, ReleaseShape, SameShape DEF IInv, UpdateSequencer
  <2> QED  BY <1>1, <2>1, ReleaseShape, FreeKeeps DEF UpdateSequencer
<1>2. CASE /\ Take("sequencer", TRUE, IF i = 0 THEN Cleared
                                     ELSE Updated("sequencer0", i, v))
           /\ pc' = "erase"
           /\ job' = [sector |-> "sequencer0", entry |-> i,
                      held |-> flash["sequencer0"]]
  <2>1. IsContent(ram')
    BY <1>2, UpdatedShape DEF IInv, Take, Mirror, Cleared, IsContent
  <2>2. Shape'
    BY <1>2, <2>1 DEF IInv, UpdateSequencer, Shape, Sector, IsContent
  <2>3. ~abandoned
    BY Granted DEF IInv, UpdateSequencer
  <2>4. Unchanged' /\ Holder'
    BY <1>2, <2>3 DEF Take, Unchanged, Holder, InSession, Dirty, Mirror
  <2> QED  BY <2>2, <2>4 DEF IInv
<1> QED  BY <1>1, <1>2 DEF UpdateSequencer

LEMMA RbootKeeps ==
  ASSUME IInv, rboot_if_write_config, abandoned' = (abandoned /\ pvt')
  PROVE  IInv'
<1>1. CASE Release /\ UNCHANGED <<pc, job>>
  <2>1. Shape'
    BY <1>1, ReleaseShape, SameShape DEF IInv, rboot_if_write_config
  <2> QED  BY <1>1, <2>1, ReleaseShape, FreeKeeps DEF rboot_if_write_config
<1>2. CASE /\ Take("rboot", TRUE, Boot)
           /\ pc' = "erase"
           /\ job' = [sector |-> "rboot", entry |-> 0, held |-> flash["rboot"]]
  <2>1. Shape'
    BY <1>2 DEF IInv, rboot_if_write_config, Take, Shape, Sector, IsContent, Boot
  <2>2. ~abandoned
    BY Granted DEF IInv, rboot_if_write_config
  <2>3. Unchanged' /\ Holder'
    BY <1>2, <2>2 DEF Take, Unchanged, Holder, InSession, Dirty
  <2> QED  BY <2>1, <2>3 DEF IInv
<1> QED  BY <1>1, <1>2 DEF rboot_if_write_config

LEMMA PictureKeeps ==
  ASSUME IInv, display_load_picture_slot \/ display_picture_load_worker,
         abandoned' = (abandoned /\ pvt')
  PROVE  IInv'
<1>1. CASE UNCHANGED buffer
  <2>1. UNCHANGED <<buffer, flash, pc, job>>
    BY <1>1 DEF display_load_picture_slot, display_picture_load_worker
  <2>2. abandoned' = abandoned
    BY <1>1 DEF IInv, Holder, buffer
  <2> QED  BY <2>1, <2>2, Stutter
<1>2. CASE Release /\ display_picture_load_worker
  <2>1. Shape'
    BY <1>2, ReleaseShape, SameShape DEF IInv, display_picture_load_worker
  <2> QED  BY <1>2, <2>1, ReleaseShape, FreeKeeps DEF display_picture_load_worker
<1> QED  BY <1>1, <1>2 DEF display_load_picture_slot, display_picture_load_worker
-----------------------------------------------------------------------------
\* Changing one sector to a content.
LEMMA SectorShape ==
  ASSUME Shape, NEW c, IsContent(c), flash' = [flash EXCEPT ![job.sector] = c],
         IsContent(ram'), job' = job \/ job' = NoJob
  PROVE  Shape'
  BY DEF Shape, NoJob, IsContent, Sector, Erased

LEMMA EraseKeeps ==
  ASSUME IInv, Erase, abandoned' = (abandoned /\ pvt')
  PROVE  IInv'
<1>1. Shape'
  BY SectorShape DEF IInv, Shape, Erase, buffer, IsContent, Erased
<1>2. use \notin {"config_cache", "config_write"}
  BY DEF IInv, Holder, Erase
<1>3. Unchanged' /\ Holder'
  BY <1>2 DEF IInv, Erase, buffer, Unchanged, Holder, InSession, Dirty
<1> QED  BY <1>1, <1>3 DEF IInv

\* A rewrite that failed: whatever the sector holds now, the buffer is free.
LEMMA FailKeeps ==
  ASSUME IInv, EraseFails \/ WriteFails \/ ReadFails,
         abandoned' = (abandoned /\ pvt')
  PROVE  IInv'
<1>1. Release /\ pc' = "idle" /\ job' = NoJob
  BY DEF EraseFails, WriteFails, ReadFails, Fail, Done, Idle
<1>2. Shape'
  <2>1. CASE EraseFails
    <3>1. PICK c \in {Erased, flash[job.sector]} :
            flash' = [flash EXCEPT ![job.sector] = c]
      BY <2>1 DEF EraseFails
    <3>2. IsContent(c)
      BY DEF IInv, Shape, IsContent, Erased
    <3> QED  BY <1>1, <3>1, <3>2, ReleaseShape, SectorShape DEF IInv
  <2>2. CASE WriteFails
    <3>1. PICK c \in Torn(ram) : flash' = [flash EXCEPT ![job.sector] = c]
      BY <2>2 DEF WriteFails
    <3>2. IsContent(c)
      BY TornShape DEF IInv, Shape
    <3> QED  BY <1>1, <3>1, <3>2, ReleaseShape, SectorShape DEF IInv
  <2>3. CASE ReadFails
    BY <1>1, <2>3, ReleaseShape, SameShape DEF IInv, ReadFails
  <2> QED  BY <2>1, <2>2, <2>3
<1> QED  BY <1>1, <1>2, ReleaseShape, FreeKeeps

LEMMA WriteKeeps ==
  ASSUME IInv, Write, abandoned' = (abandoned /\ pvt')
  PROVE  IInv'
<1>1. flash' = [flash EXCEPT ![job.sector] = ram] /\ IsContent(ram)
  BY DEF IInv, Shape, Write
<1>2. CASE job.sector = "config"
  <2>1. Take("config_cache", FALSE, ram) /\ pc' = "idle" /\ job' = NoJob
    BY <1>2 DEF Write, AfterWrite, Done, Idle
  <2>2. Shape'
    BY <1>1, <2>1, SectorShape DEF IInv, Take
  <2>3. flash'["config"] = ram'
    BY <1>1, <1>2, <2>1 DEF IInv, Shape, Take
  <2>4. Unchanged' /\ Holder'
    BY <2>1, <2>3 DEF Take, Unchanged, Loaded, Holder, InSession, Dirty
  <2> QED  BY <2>2, <2>4 DEF IInv
<1>3. CASE job.sector = "sequencer0"
  <2> DEFINE content == IF job.entry = 0 THEN Cleared
                        ELSE Updated("sequencer1", job.entry, ram.data[job.entry])
  <2>1. /\ Take("sequencer", TRUE, content) /\ pc' = "erase"
        /\ job' = [job EXCEPT !.sector = "sequencer1", !.held = flash["sequencer1"]]
    BY <1>3 DEF Write, AfterWrite
  <2>2. IsContent(content)
    BY UpdatedShape DEF IInv, Mirror, Cleared, IsContent
  <2>3. Shape'
    <3>1. job' = [sector |-> "sequencer1", entry |-> job.entry, held |-> flash["sequencer1"]]
      BY <2>1 DEF IInv, Shape
    <3>2. DOMAIN flash' = Sector /\ \A s \in Sector : IsContent(flash'[s])
      BY <1>1 DEF IInv, Shape
    <3>3. IsContent(ram')
      BY <2>1, <2>2 DEF Take
    <3> QED  BY <3>1, <3>2, <3>3 DEF Shape, Sector, IsContent
  <2>4. ~abandoned
    BY <1>3 DEF IInv, Holder, Write, Dirty, Mirror
  <2>5. job'.sector = "sequencer1"
    BY <2>1 DEF IInv, Shape
  <2>6. Unchanged' /\ Holder'
    BY <2>1, <2>4, <2>5 DEF Take, Unchanged, Holder, InSession, Dirty, Mirror
  <2> QED  BY <2>3, <2>6 DEF IInv
<1>4. CASE job.sector \in {"sequencer1", "rboot"}
  <2>1. Release /\ pc' = "idle" /\ job' = NoJob
    BY <1>4 DEF Write, AfterWrite, Done, Idle
  <2>2. Shape'
    BY <1>1, <2>1, ReleaseShape, SectorShape DEF IInv
  <2> QED  BY <2>1, <2>2, ReleaseShape, FreeKeeps
<1> QED  BY <1>2, <1>3, <1>4 DEF IInv, Shape, Sector

LEMMA RestartKeeps ==
  ASSUME IInv, PowerLoss \/ Overrun, abandoned' = (abandoned /\ pvt')
  PROVE  IInv'
<1>1. Release /\ pc' = "idle" /\ job' = NoJob
  BY DEF PowerLoss, Overrun, Restart, Done, Idle
<1>2. Shape'
  <2>1. CASE flash' = flash
    BY <1>1, <2>1, ReleaseShape, SameShape DEF IInv
  <2>2. CASE \E c \in Torn(ram) : flash' = [flash EXCEPT ![job.sector] = c]
    <3>1. PICK c \in Torn(ram) : flash' = [flash EXCEPT ![job.sector] = c]
      BY <2>2
    <3>2. IsContent(c)
      BY TornShape DEF IInv, Shape
    <3> QED  BY <1>1, <3>1, <3>2, ReleaseShape, SectorShape DEF IInv
  <2> QED  BY <2>1, <2>2 DEF PowerLoss, Overrun, Restart
<1> QED  BY <1>1, <1>2, ReleaseShape, FreeKeeps
-----------------------------------------------------------------------------
LEMMA StepKeeps == IInv /\ [Next]_vars => IInv'
<1> SUFFICES ASSUME IInv, [Next]_vars PROVE IInv'
  OBVIOUS
<1>1. CASE UNCHANGED vars
  BY <1>1, Stutter DEF vars, steps
<1>2. CASE ReopenAp /\ abandoned' = TRUE
  BY <1>2, ReopenKeeps
<1>3. CASE Step /\ abandoned' = (abandoned /\ pvt')
  <2>1. CASE \/ config_get_string \/ config_abort_write \/ config_close_write
             \/ rboot_if_write_config
             \/ display_load_picture_slot \/ display_picture_load_worker
    BY <1>3, <2>1, GetKeeps, AbortKeeps, CloseKeeps, RbootKeeps, PictureKeeps
  <2>2. CASE \E c \in Caller : config_open_write(c)
    BY <1>3, <2>2, OpenKeeps
  <2>3. CASE \E n \in Name, v \in Value : config_set_string(n, v)
    BY <1>3, <2>3, SetKeeps
  <2>4. CASE \E names \in (SUBSET Name) \ {{}} : config_delete(names)
    BY <1>3, <2>4, DeleteKeeps
  <2>5. CASE \E i \in Slot \cup {0}, v \in Entry \cup {Absent} : UpdateSequencer(i, v)
    BY <1>3, <2>5, UpdateKeeps
  <2>6. CASE Erase \/ EraseFails \/ Write \/ WriteFails \/ ReadFails \/ PowerLoss \/ Overrun
    BY <1>3, <2>6, EraseKeeps, FailKeeps, WriteKeeps, RestartKeeps
  <2> QED  BY <1>3, <2>1, <2>2, <2>3, <2>4, <2>5, <2>6 DEF Step
<1> QED  BY <1>1, <1>2, <1>3 DEF Next

\* Whatever is done and fails in whatever order, what config_open_read takes
\* for a cache of the configuration is what reading the sector would give.
THEOREM CacheCorrect == Spec => []CacheCoherent
<1>1. IInv => CacheCoherent
  BY DEF IInv, Unchanged, CacheCoherent
<1> QED  BY Initially, StepKeeps, <1>1, PTL DEF Spec

\* No command but wlan-ap-configure leaves the buffer claimed when it ends,
\* successfully or not.
THEOREM BufferReturned == Spec => []PrivateKept
<1>1. IInv => PrivateKept
  BY DEF IInv, Holder, PrivateKept
<1> QED  BY Initially, StepKeeps, <1>1, PTL DEF Spec
-----------------------------------------------------------------------------
(* The sequencer's program.  A mirror is being rewritten:                  *)
Updating == pc \in {"erase", "write"} /\ job.sector \in Mirror

Mirrored == flash["sequencer0"] = flash["sequencer1"] /\ flash["sequencer0"].magic

(* The two mirrors agree between updates.  In an update the buffer holds   *)
(* what mirror 0 is given, and mirror 1, which is the old program still,   *)
(* is going to be given the same.                                          *)
Program ==
  /\ ~Updating /\ ~interrupted => Mirrored /\ valid
  /\ Updating /\ job.entry = 0 =>
       /\ ram = Cleared
       /\ job.sector = "sequencer1" => flash["sequencer0"] = Cleared
  /\ Updating /\ job.entry # 0 /\ ~interrupted =>
       /\ valid /\ ram.magic
       /\ job.sector = "sequencer0" =>
            ram = Updated("sequencer1", job.entry, ram.data[job.entry])
       /\ job.sector = "sequencer1" => flash["sequencer0"] = ram

\* A step that neither begins, continues nor ends an update.
LEMMA OtherStep ==
  ASSUME Program, ~Updating, ~Updating',
         UNCHANGED <<interrupted, valid, flash["sequencer0"], flash["sequencer1"]>>
  PROVE  Program'
  BY DEF Program, Mirrored

\* A failure or restart leaves nothing to show, but for what was interrupted.
LEMMA Ended ==
  ASSUME ~Updating', interrupted' = TRUE
  PROVE  Program'
  BY DEF Program

LEMMA UpdatedEntry ==
  ASSUME Shape, NEW s \in Mirror, NEW i \in Slot, NEW v
  PROVE  /\ Updated(s, i, v).data[i] = v
         /\ Updated(s, i, v).magic = flash[s].magic
  BY DEF Shape, Updated, IsContent, Mirror, Sector

\* The settings, the picture and the boot configuration have nothing to do
\* with an update.
OtherAction ==
  \/ config_get_string \/ config_abort_write \/ config_close_write
  \/ rboot_if_write_config \/ ReopenAp
  \/ display_load_picture_slot \/ display_picture_load_worker
  \/ \E c \in Caller : config_open_write(c)
  \/ \E n \in Name, v \in Value : config_set_string(n, v)
  \/ \E names \in (SUBSET Name) \ {{}} : config_delete(names)

LEMMA OtherActions ==
  ASSUME OtherAction
  PROVE  UNCHANGED <<flash, valid, interrupted>> /\ ~Updating /\ ~Updating'
<1>1. UNCHANGED <<flash, valid, interrupted>>
  BY DEF OtherAction, config_get_string, config_abort_write, config_close_write, history,
         rboot_if_write_config, ReopenAp, display_load_picture_slot,
         display_picture_load_worker, config_open_write, config_set_string,
         config_delete
<1>2. pc \in {"idle", "session"}
  BY DEF OtherAction, config_get_string, config_abort_write, config_close_write,
         rboot_if_write_config, ReopenAp, display_load_picture_slot,
         display_picture_load_worker, config_open_write, config_set_string,
         config_delete
<1>3. pc' \in {"idle", "session"} \/ job'.sector \in {"config", "rboot"}
  <2>1. config_get_string \/ display_load_picture_slot \/ display_picture_load_worker
          => pc' = pc
    BY DEF config_get_string, display_load_picture_slot, display_picture_load_worker
  <2>2. ReopenAp \/ config_abort_write => pc' = "idle"
    BY DEF ReopenAp, config_abort_write, Idle
  <2>3. (\E c \in Caller : config_open_write(c)) => pc' \in {"idle", "session"}
    BY DEF config_open_write, Idle
  <2>4. /\ (\E n \in Name, v \in Value : config_set_string(n, v)) => pc' = pc
        /\ (\E names \in (SUBSET Name) \ {{}} : config_delete(names)) => pc' = pc
    BY Zenon DEF config_set_string, config_delete
  <2>5. config_close_write => pc' = "idle" \/ job' = NoJob
    BY DEF config_close_write, Idle
  <2>6. rboot_if_write_config => pc' = pc \/ job'.sector = "rboot"
    <3>1. rboot_if_write_config
            => \/ pc' = pc
               \/ job' = [sector |-> "rboot", entry |-> 0, held |-> flash["rboot"]]
      BY Zenon DEF rboot_if_write_config
    <3> QED  BY <3>1
  <2> QED  BY <1>2, <2>1, <2>2, <2>3, <2>4, <2>5, <2>6 DEF OtherAction, NoJob
<1>4. ~Updating /\ ~Updating'
  BY <1>2, <1>3 DEF Updating, Mirror
<1> QED  BY <1>1, <1>4

LEMMA UpdateKeepsProgram ==
  ASSUME IInv, Program, NEW i \in Slot \cup {0}, NEW v \in Entry \cup {Absent},
         UpdateSequencer(i, v)
  PROVE  Program'
<1>1. UNCHANGED <<flash, valid, interrupted>> /\ pc = "idle" /\ (i # 0 => valid)
  BY DEF UpdateSequencer, history
<1>2. ~Updating
  BY <1>1 DEF Updating
<1>3. CASE UNCHANGED <<pc, job>>
  BY <1>1, <1>3, OtherStep DEF Updating
<1>4. CASE /\ Take("sequencer", TRUE, IF i = 0 THEN Cleared
                                     ELSE Updated("sequencer0", i, v))
           /\ pc' = "erase"
           /\ job' = [sector |-> "sequencer0", entry |-> i,
                      held |-> flash["sequencer0"]]
  <2>1. Updating' /\ job'.sector = "sequencer0" /\ job'.entry = i
    BY <1>4 DEF Updating, Mirror
  <2>2. CASE i = 0
    BY <1>1, <1>4, <2>1, <2>2 DEF Program, Take
  <2>3. CASE i # 0 /\ ~interrupted
    <3>1. flash["sequencer0"] = flash["sequencer1"] /\ flash["sequencer0"].magic /\ valid
      BY <1>2, <2>3 DEF Program, Mirrored
    <3>2. ram' = Updated("sequencer0", i, v) /\ i \in Slot
      BY <1>4, <2>3 DEF Take
    <3>3. ram'.data[i] = v /\ ram'.magic
      BY <3>1, <3>2, UpdatedEntry DEF IInv, Mirror
    <3>4. ram' = Updated("sequencer1", i, ram'.data[i])
      BY <3>1, <3>2, <3>3 DEF Updated
    <3>5. ram' = Updated("sequencer1", i, ram.data[i])'
      BY <1>1, <3>4 DEF Updated
    <3> QED  BY <1>1, <2>1, <2>3, <3>1, <3>3, <3>5 DEF Program
  <2>4. CASE i # 0 /\ interrupted
    BY <1>1, <2>1, <2>4 DEF Program
  <2> QED  BY <2>2, <2>3, <2>4 DEF Program
<1> QED  BY <1>3, <1>4 DEF UpdateSequencer

LEMMA EraseKeepsProgram ==
  ASSUME IInv, Program, Erase
  PROVE  Program'
<1>1. /\ pc = "erase" /\ pc' = "write"
      /\ UNCHANGED <<ram, job, valid, interrupted>>
      /\ flash' = [flash EXCEPT ![job.sector] = Erased]
  BY DEF Erase, buffer, history
<1>2. CASE job.sector \notin Mirror
  <2>1. UNCHANGED <<flash["sequencer0"], flash["sequencer1"]>>
    BY <1>1, <1>2 DEF Mirror
  <2> QED  BY <1>1, <1>2, <2>1, OtherStep DEF Updating
<1>3. CASE job.sector = "sequencer0"
  <2>1. flash'["sequencer1"] = flash["sequencer1"]
    BY <1>1, <1>3
  <2>2. \A i, v : Updated("sequencer1", i, v)' = Updated("sequencer1", i, v)
    BY <2>1 DEF Updated
  <2>3. Updating /\ Updating'
    BY <1>1, <1>3 DEF Updating, Mirror
  <2>4. Updated("sequencer1", job.entry, ram.data[job.entry])'
          = Updated("sequencer1", job.entry, ram.data[job.entry])
    BY <1>1, <2>1 DEF Updated
  <2> QED  BY <1>1, <1>3, <2>3, <2>4 DEF Program
<1>4. CASE job.sector = "sequencer1"
  <2>1. flash'["sequencer0"] = flash["sequencer0"]
    BY <1>1, <1>4
  <2>2. Updating /\ Updating'
    BY <1>1, <1>4 DEF Updating, Mirror
  <2> QED  BY <1>1, <1>4, <2>1, <2>2 DEF Program
<1> QED  BY <1>2, <1>3, <1>4 DEF Mirror

LEMMA WriteKeepsProgram ==
  ASSUME IInv, Program, Write
  PROVE  Program'
<1>1. /\ pc = "write" /\ AfterWrite
      /\ flash' = [flash EXCEPT ![job.sector] = ram]
      /\ DOMAIN flash = Sector
  BY DEF Write, IInv, Shape
<1>2. CASE job.sector \in {"config", "rboot"}
  <2>1. pc' = "idle" /\ UNCHANGED <<valid, interrupted>>
    BY <1>1, <1>2 DEF AfterWrite, Done, Idle
  <2>2. UNCHANGED <<flash["sequencer0"], flash["sequencer1"]>>
    BY <1>1, <1>2
  <2>3. ~Updating /\ ~Updating'
    BY <1>2, <2>1 DEF Updating, Mirror
  <2> QED  BY <2>1, <2>2, <2>3, OtherStep
<1>3. CASE job.sector = "sequencer0"
  <2>1. /\ pc' = "erase" /\ UNCHANGED <<valid, interrupted>>
        /\ job' = [job EXCEPT !.sector = "sequencer1", !.held = flash["sequencer1"]]
        /\ ram' = IF job.entry = 0 THEN Cleared
                  ELSE Updated("sequencer1", job.entry, ram.data[job.entry])
    BY <1>1, <1>3 DEF AfterWrite, Take
  <2>2. job'.sector = "sequencer1" /\ job'.entry = job.entry
    BY <2>1 DEF IInv, Shape
  <2>3. Updating /\ Updating'
    BY <1>1, <1>3, <2>1, <2>2 DEF Updating, Mirror
  <2>4. flash'["sequencer0"] = ram
    BY <1>1, <1>3 DEF Sector
  <2>5. CASE job.entry = 0
    BY <1>3, <2>1, <2>2, <2>3, <2>4, <2>5 DEF Program
  <2>6. CASE job.entry # 0 /\ ~interrupted
    <3>1. valid /\ ram.magic /\ ram = Updated("sequencer1", job.entry, ram.data[job.entry])
      BY <1>3, <2>3, <2>6 DEF Program
    <3> QED  BY <2>1, <2>2, <2>3, <2>4, <2>6, <3>1 DEF Program
  <2>7. CASE job.entry # 0 /\ interrupted
    BY <2>1, <2>2, <2>3, <2>7 DEF Program
  <2> QED  BY <2>5, <2>6, <2>7 DEF Program
<1>4. CASE job.sector = "sequencer1"
  <2>1. /\ pc' = "idle"
        /\ valid' = (valid \/ job.entry = 0)
        /\ interrupted' = (interrupted /\ job.entry # 0)
    BY <1>1, <1>4 DEF AfterWrite, Done, Idle
  <2>2. Updating /\ ~Updating'
    BY <1>1, <1>4, <2>1 DEF Updating, Mirror
  <2>3. flash'["sequencer1"] = ram /\ flash'["sequencer0"] = flash["sequencer0"]
    BY <1>1, <1>4 DEF Sector
  <2>5. ASSUME ~interrupted' PROVE Mirrored' /\ valid'
    <3>1. CASE job.entry = 0
      <4>1. ram = Cleared /\ flash["sequencer0"] = Cleared
        BY <1>4, <2>2, <3>1 DEF Program
      <4>2. valid'
        BY <2>1, <3>1, Zenon
      <4> QED  BY <2>3, <4>1, <4>2 DEF Mirrored, Cleared
    <3>2. CASE job.entry # 0 /\ ~interrupted
      <4>1. valid /\ ram.magic /\ flash["sequencer0"] = ram
        BY <1>4, <2>2, <3>2 DEF Program
      <4>2. valid'
        BY <2>1, <4>1, Zenon
      <4> QED  BY <2>3, <4>1, <4>2 DEF Mirrored
    <3>3. job.entry = 0 \/ ~interrupted
      BY <2>1, <2>5, Zenon
    <3> QED  BY <3>1, <3>2, <3>3
  <2> QED  BY <2>2, <2>5 DEF Program
<1> QED  BY <1>2, <1>3, <1>4 DEF IInv, Shape, Sector

\* What is cut short is an update that is remembered, or none.
LEMMA CutShortKeepsProgram ==
  ASSUME IInv, Program, pc \in {"erase", "write"}, CutShort, pc' = "idle",
         NEW c, flash' \in {flash, [flash EXCEPT ![job.sector] = c]},
         valid' = valid \/ \E s \in Mirror : valid' = flash'[s].magic
  PROVE  Program'
<1>1. ~Updating'
  BY DEF Updating
<1>2. interrupted' = (interrupted \/ job.sector \in Mirror)
  BY DEF CutShort
<1>3. CASE job.sector \in Mirror
  BY <1>1, <1>2, <1>3, Ended
<1>4. CASE job.sector \notin Mirror
  <2>1. UNCHANGED <<flash["sequencer0"], flash["sequencer1"]>>
    BY <1>4 DEF IInv, Shape, Sector, Mirror
  <2>2. ~Updating
    BY <1>4 DEF Updating
  <2>3. ASSUME ~interrupted' PROVE Mirrored' /\ valid'
    <3>1. ~interrupted /\ Mirrored /\ valid
      BY <1>2, <2>2, <2>3 DEF Program
    <3> QED  BY <2>1, <3>1 DEF Mirrored, Mirror
  <2> QED  BY <1>1, <2>3 DEF Program
<1> QED  BY <1>3, <1>4

LEMMA FailKeepsProgram ==
  ASSUME IInv, Program, EraseFails \/ WriteFails \/ ReadFails
  PROVE  Program'
<1>1. /\ pc \in {"erase", "write"} /\ CutShort /\ pc' = "idle" /\ valid' = valid
      /\ \E c : flash' \in {flash, [flash EXCEPT ![job.sector] = c]}
  BY DEF EraseFails, WriteFails, ReadFails, Fail, Done, Idle
<1> QED  BY <1>1, CutShortKeepsProgram

LEMMA RestartKeepsProgram ==
  ASSUME IInv, Program, PowerLoss \/ Overrun
  PROVE  Program'
<1>1. pc' = "idle" /\ \E s \in Mirror : valid' = flash'[s].magic
  BY DEF PowerLoss, Overrun, Restart, Done, Idle
<1>2. CASE pc \in {"erase", "write"}
  <2>1. CutShort /\ \E c : flash' \in {flash, [flash EXCEPT ![job.sector] = c]}
    BY <1>2 DEF PowerLoss, Overrun, Restart
  <2> QED  BY <1>1, <1>2, <2>1, CutShortKeepsProgram
<1>3. CASE pc \notin {"erase", "write"}
  <2>1. flash' = flash /\ UNCHANGED interrupted
    BY <1>3 DEF PowerLoss, Overrun, Restart
  <2>2. ~Updating /\ ~Updating'
    BY <1>1, <1>3 DEF Updating
  <2>3. ASSUME ~interrupted' PROVE Mirrored' /\ valid'
    BY <1>1, <2>1, <2>2, <2>3 DEF Program, Mirrored, Mirror
  <2> QED  BY <2>2, <2>3 DEF Program
<1> QED  BY <1>2, <1>3

\* A step, as far as the sequencer's program is concerned.
LEMMA Steps ==
  ASSUME [Next]_vars
  PROVE  \/ UNCHANGED vars \/ OtherAction
         \/ \E i \in Slot \cup {0}, v \in Entry \cup {Absent} : UpdateSequencer(i, v)
         \/ Erase \/ Write \/ EraseFails \/ WriteFails \/ ReadFails
         \/ PowerLoss \/ Overrun
  BY Zenon DEF Next, Step, OtherAction

LEMMA ProgramKept == IInv /\ Program /\ [Next]_vars => Program'
<1> SUFFICES ASSUME IInv, Program, [Next]_vars PROVE Program'
  OBVIOUS
<1>1. CASE UNCHANGED vars
  <2>1. UNCHANGED <<flash, valid, interrupted, ram, job, pc>>
    BY <1>1 DEF vars, steps, buffer, history
  <2>2. UNCHANGED <<Updating, Mirrored, Updated("sequencer1", job.entry, ram.data[job.entry])>>
    BY <2>1 DEF Updating, Mirrored, Updated
  <2> QED  BY <2>1, <2>2 DEF Program
<1>2. CASE OtherAction
  BY <1>2, OtherActions, OtherStep
<1>3. ASSUME NEW i \in Slot \cup {0}, NEW v \in Entry \cup {Absent}, UpdateSequencer(i, v)
      PROVE  Program'
  BY <1>3, UpdateKeepsProgram
<1>4. CASE Erase \/ Write
  BY <1>4, EraseKeepsProgram, WriteKeepsProgram
<1>5. CASE EraseFails \/ WriteFails \/ ReadFails \/ PowerLoss \/ Overrun
  BY <1>5, FailKeepsProgram, RestartKeepsProgram
<1> QED  BY <1>1, <1>2, <1>3, <1>4, <1>5, Steps

\* When no update was cut short it does not matter which image is booted:
\* the two mirrors hold the same valid program whenever no command runs.
THEOREM MirrorsCorrect == Spec => []MirrorsAgree
<1>1. Init => Program
  BY DEF Init, Program, Updating, Mirrored, Sector, Cleared
<1>2. Program => MirrorsAgree
  BY DEF Program, Updating, Mirrored, MirrorsAgree
<1> QED  BY Initially, StepKeeps, ProgramKept, <1>1, <1>2, PTL DEF Spec
-----------------------------------------------------------------------------
Item == Entry \cup {Absent, Blank}

(* What an update writes for the other entries is what the sector held     *)
(* for them.                                                               *)
Entries ==
  /\ \A s \in Mirror : flash[s].data \in Seq(Item)
  /\ Updating =>
       /\ ram.data \in [Slot -> Item]
       /\ job.entry \in Slot \cup {0}
       /\ job.entry # 0 =>
            \A k \in Slot \ {job.entry} :
              ram.data[k] = IF k \in DOMAIN job.held.data THEN job.held.data[k]
                                                          ELSE Blank

LEMMA Slots == \E n \in Nat : Slot = 1 .. n /\ [Slot -> Item] \subseteq Seq(Item)
<1>1. Cardinality(Slot) \in Nat /\ Slot = 1 .. Cardinality(Slot)
  BY FlashStoreAssumption, FS_CardinalityType
<1> QED  BY <1>1

LEMMA UpdatedItems ==
  ASSUME Shape, Entries, NEW s \in Mirror, NEW i \in Slot, NEW v \in Item
  PROVE  /\ Updated(s, i, v).data \in [Slot -> Item]
         /\ \A k \in Slot \ {i} :
              Updated(s, i, v).data[k] =
                IF k \in DOMAIN flash[s].data THEN flash[s].data[k] ELSE Blank
<1> DEFINE d == flash[s].data
           u == [k \in Slot |-> IF k = i THEN v ELSE IF k <= Len(d) THEN d[k] ELSE Blank]
<1>1. d \in Seq(Item) /\ Blank \in Item
  BY DEF Entries, Item
<1>2. Updated(s, i, v).data = u
  BY DEF Updated, Shape, IsContent, Mirror, Sector
<1>3. \A k \in Slot : k <= Len(d) <=> k \in DOMAIN d
  BY <1>1, Slots
<1>4. \A k \in DOMAIN d : d[k] \in Item
  BY <1>1
<1> HIDE DEF d
<1>5. u \in [Slot -> Item]
  BY <1>1, <1>3, <1>4
<1>6. \A k \in Slot \ {i} : u[k] = IF k \in DOMAIN d THEN d[k] ELSE Blank
  BY <1>3
<1> QED  BY <1>2, <1>5, <1>6 DEF d

\* What may be left of a mirror's new content.
LEMMA TornItems ==
  ASSUME ram.data \in [Slot -> Item], NEW c \in Torn(ram), IsContent(ram)
  PROVE  /\ c.data \in Seq(Item)
         /\ DOMAIN c.data \subseteq Slot
         /\ \A k \in DOMAIN c.data : c.data[k] = ram.data[k]
<1>1. PICK n \in Nat : Slot = 1 .. n /\ [Slot -> Item] \subseteq Seq(Item)
  BY Slots
<1>2. ram.data \in Seq(Item) /\ Len(ram.data) = n
  BY <1>1
<1>3. CASE c = Erased
  BY <1>3 DEF Erased
<1>4. CASE c = ram
  BY <1>1, <1>2, <1>4
<1>5. ASSUME NEW k \in 0 .. Len(ram.data), c = [ram EXCEPT !.data = SubSeq(ram.data, 1, k), !.end = "none"]
      PROVE  /\ c.data \in Seq(Item)
             /\ DOMAIN c.data \subseteq Slot
             /\ \A j \in DOMAIN c.data : c.data[j] = ram.data[j]
  <2>1. c.data = SubSeq(ram.data, 1, k)
    BY <1>5 DEF IsContent
  <2>2. k \in 0 .. n
    BY <1>2
  <2>3. SubSeq(ram.data, 1, k) = [j \in 1 .. k |-> ram.data[j]]
    BY <1>2, <2>2
  <2>4. \A j \in 1 .. k : ram.data[j] \in Item /\ j \in Slot
    BY <1>1, <2>2
  <2> QED  BY <2>1, <2>2, <2>3, <2>4
<1> QED  BY <1>3, <1>4, <1>5 DEF Torn

LEMMA EntriesKept == IInv /\ Entries /\ [Next]_vars => Entries'
<1> SUFFICES ASSUME IInv, Entries, [Next]_vars PROVE Entries'
  OBVIOUS
<1>1. CASE UNCHANGED vars
  <2>1. UNCHANGED <<flash, ram, job, pc>>
    BY <1>1 DEF vars, steps, buffer
  <2> QED  BY <2>1 DEF Entries, Updating
<1>2. CASE OtherAction
  BY <1>2, OtherActions DEF Entries
<1>3. ASSUME NEW i \in Slot \cup {0}, NEW v \in Entry \cup {Absent}, UpdateSequencer(i, v)
      PROVE  Entries'
  <2>1. pc = "idle" /\ UNCHANGED flash
    BY <1>3 DEF UpdateSequencer
  <2>2. CASE UNCHANGED <<pc, job>>
    BY <2>1, <2>2 DEF Entries, Updating
  <2>3. CASE /\ Take("sequencer", TRUE, IF i = 0 THEN Cleared
                                       ELSE Updated("sequencer0", i, v))
             /\ job' = [sector |-> "sequencer0", entry |-> i,
                        held |-> flash["sequencer0"]]
    <3>1. job'.entry = i /\ job'.held = flash["sequencer0"]
      BY <2>3
    <3>2. CASE i = 0
      <4>1. ram'.data = [k \in Slot |-> Absent]
        BY <2>3, <3>2 DEF Take, Cleared
      <4>2. ram'.data \in [Slot -> Item]
        BY <4>1 DEF Item
      <4> QED  BY <2>1, <3>1, <3>2, <4>2 DEF Entries
    <3>3. CASE i # 0
      <4>1. i \in Slot /\ v \in Item /\ "sequencer0" \in Mirror
        BY <3>3 DEF Item, Mirror
      <4>2. ram' = Updated("sequencer0", i, v)
        BY <2>3, <3>3 DEF Take
      <4> QED  BY <2>1, <3>1, <4>1, <4>2, UpdatedItems DEF Entries, IInv
    <3> QED  BY <3>2, <3>3
  <2> QED  BY <1>3, <2>2, <2>3 DEF UpdateSequencer
<1>4. CASE Erase
  <2>1. /\ flash' = [flash EXCEPT ![job.sector] = Erased]
        /\ UNCHANGED <<ram, job>> /\ pc = "erase"
    BY <1>4 DEF Erase, buffer
  <2>2. \A s \in Mirror : flash'[s].data \in Seq(Item)
    BY <2>1 DEF Entries, Erased, IInv, Shape, Mirror, Sector
  <2>3. Updating' => Updating
    BY <2>1 DEF Updating
  <2> QED  BY <2>1, <2>2, <2>3 DEF Entries
<1>5. CASE Write
  <2>1. flash' = [flash EXCEPT ![job.sector] = ram] /\ pc = "write" /\ AfterWrite
    BY <1>5 DEF Write
  <2>2. \A s \in Mirror : flash'[s].data \in Seq(Item)
    BY <2>1, Slots DEF Entries, Updating, IInv, Shape, Mirror, Sector
  <2>3. CASE job.sector = "sequencer0"
    <3>1. /\ job' = [job EXCEPT !.sector = "sequencer1", !.held = flash["sequencer1"]]
          /\ ram' = IF job.entry = 0 THEN Cleared
                    ELSE Updated("sequencer1", job.entry, ram.data[job.entry])
      BY <2>1, <2>3 DEF AfterWrite, Take
    <3>2. job'.entry = job.entry /\ job'.held = flash["sequencer1"]
      BY <3>1 DEF IInv, Shape
    <3>3. job.entry \in Slot \cup {0} /\ ram.data \in [Slot -> Item]
      BY <2>1, <2>3 DEF Entries, Updating, Mirror
    <3>4. CASE job.entry = 0
      <4>1. ram'.data = [k \in Slot |-> Absent]
        BY <3>1, <3>4 DEF Cleared
      <4>2. ram'.data \in [Slot -> Item]
        BY <4>1 DEF Item
      <4> QED  BY <2>2, <3>2, <3>4, <4>2 DEF Entries
    <3>5. CASE job.entry # 0
      <4>1. job.entry \in Slot /\ ram.data[job.entry] \in Item /\ "sequencer1" \in Mirror
        BY <3>3, <3>5 DEF Mirror
      <4>2. ram' = Updated("sequencer1", job.entry, ram.data[job.entry])
        BY <3>1, <3>5
      <4> QED  BY <2>2, <3>2, <4>1, <4>2, UpdatedItems DEF Entries, IInv
    <3> QED  BY <3>4, <3>5
  <2>4. CASE job.sector # "sequencer0"
    <3>1. pc' = "idle"
      BY <2>1, <2>4 DEF AfterWrite, Done, Idle, IInv, Shape, Sector
    <3> QED  BY <2>2, <3>1 DEF Entries, Updating
  <2> QED  BY <2>3, <2>4
<1>6. CASE EraseFails \/ WriteFails \/ ReadFails \/ PowerLoss \/ Overrun
  <2>1. ~Updating'
    BY <1>6 DEF EraseFails, WriteFails, ReadFails, Fail, PowerLoss, Overrun,
                Restart, Done, Idle, Updating
  <2>2. \/ flash' = flash
        \/ \E c \in {Erased, flash[job.sector]} : flash' = [flash EXCEPT ![job.sector] = c]
        \/ pc = "write" /\ \E c \in Torn(ram) : flash' = [flash EXCEPT ![job.sector] = c]
    BY <1>6 DEF EraseFails, WriteFails, ReadFails, PowerLoss, Overrun, Restart
  <2>3. \A s \in Mirror : flash'[s].data \in Seq(Item)
    <3>1. CASE flash' = flash
      BY <3>1 DEF Entries
    <3>2. CASE \E c \in {Erased, flash[job.sector]} : flash' = [flash EXCEPT ![job.sector] = c]
      <4>1. PICK c \in {Erased, flash[job.sector]} : flash' = [flash EXCEPT ![job.sector] = c]
        BY <3>2
      <4>2. job.sector \in Mirror => c.data \in Seq(Item)
        <5>1. Erased.data \in Seq(Item)
          BY DEF Erased
        <5>2. job.sector \in Mirror => flash[job.sector].data \in Seq(Item)
          BY DEF Entries
        <5> QED  BY <4>1, <5>1, <5>2
      <4> QED  BY <4>1, <4>2 DEF Entries, IInv, Shape, Mirror, Sector
    <3>3. ASSUME pc = "write", NEW c \in Torn(ram), flash' = [flash EXCEPT ![job.sector] = c]
          PROVE  \A s \in Mirror : flash'[s].data \in Seq(Item)
      <4>1. job.sector \in Mirror => c.data \in Seq(Item)
        BY <3>3, TornItems DEF Entries, Updating, IInv, Shape
      <4> QED  BY <3>3, <4>1 DEF Entries, IInv, Shape, Mirror, Sector
    <3> QED  BY <2>2, <3>1, <3>2, <3>3
  <2> QED  BY <2>1, <2>3 DEF Entries
<1> QED  BY <1>1, <1>2, <1>3, <1>4, <1>5, <1>6, Steps

\* Whatever a rewrite of a mirror leaves of another entry is what was there.
THEOREM OtherEntriesKept == Spec => KeepsOtherEntries
<1>1. Init => Entries
  <2>1. [Slot -> Item] \subseteq Seq(Item)
    BY Slots
  <2> QED  BY <2>1 DEF Init, Entries, Updating, Sector, Mirror, Cleared, Item
<1>2. ASSUME IInv, Entries, [Next]_vars, ~UNCHANGED vars,
             pc = "write", job.sector \in Mirror, job.entry # 0
      PROVE  LET new == flash'[job.sector].data
             IN  \A k \in DOMAIN new \ {job.entry} :
                   new[k] \in {Blank, IF k \in DOMAIN job.held.data
                                        THEN job.held.data[k] ELSE Blank}
  <2>1. Write \/ WriteFails \/ PowerLoss
    BY <1>2, Steps, OtherActions
    DEF Updating, UpdateSequencer, Erase, EraseFails, ReadFails, Overrun
  <2>2. PICK c \in Torn(ram) : flash' = [flash EXCEPT ![job.sector] = c]
    BY <1>2, <2>1 DEF Write, WriteFails, PowerLoss, Restart, Torn
  <2>3. flash'[job.sector] = c
    BY <1>2, <2>2 DEF IInv, Shape
  <2>4. /\ ram.data \in [Slot -> Item]
        /\ \A k \in Slot \ {job.entry} :
             ram.data[k] = IF k \in DOMAIN job.held.data THEN job.held.data[k]
                                                         ELSE Blank
    BY <1>2 DEF Entries, Updating
  <2>5. /\ DOMAIN c.data \subseteq Slot
        /\ \A k \in DOMAIN c.data : c.data[k] = ram.data[k]
    BY <1>2, <2>4, TornItems DEF IInv, Shape
  <2> QED  BY <2>3, <2>4, <2>5
<1>3. IInv /\ Entries /\ [Next]_vars =>
        [pc = "write" /\ job.sector \in Mirror /\ job.entry # 0 =>
           LET new == flash'[job.sector].data
           IN  \A k \in DOMAIN new \ {job.entry} :
                 new[k] \in {Blank, IF k \in DOMAIN job.held.data
                                      THEN job.held.data[k] ELSE Blank}]_vars
  BY <1>2
<1> QED  BY Initially, StepKeeps, EntriesKept, <1>1, <1>3, PTL DEF Spec, KeepsOtherEntries
-----------------------------------------------------------------------------
(* Sequences.  The library's induction theorems have an operator as a      *)
(* parameter, which the provers can't instantiate; here what is to be      *)
(* shown is a set that holds the members of Nat or of Seq(U), and the      *)
(* least member that was not in it would have a predecessor.               *)

\* What holds of 0, and of n + 1 when of n, holds of every natural number.
LEMMA CountingUp ==
  ASSUME NEW G, 0 \in G, \A n \in Nat : n \in G => n + 1 \in G
  PROVE  Nat \subseteq G
<1> DEFINE T == Nat \ G
<1> SUFFICES ASSUME T # {} PROVE FALSE
  OBVIOUS
<1>1. PICK n \in T : \A m \in T : <<m, n>> \notin OpToRel(<, Nat)
  BY WFMin, NatLessThanWellFounded, Zenon
<1>2. n \in Nat \ {0}
  OBVIOUS
<1>3. n - 1 \in Nat /\ n - 1 < n
  BY <1>2
<1>4. <<n - 1, n>> \in OpToRel(<, Nat)
  BY <1>2, <1>3 DEF OpToRel
<1>5. n - 1 \in G
  BY <1>1, <1>3, <1>4
<1>6. n \in G
  BY <1>3, <1>5, <1>2
<1> QED BY <1>6

\* The same for sequences, that grow at their ends.
LEMMA Growing ==
  ASSUME NEW U, NEW G, << >> \in G,
         \A s \in Seq(U), x \in U : s \in G => Append(s, x) \in G
  PROVE  Seq(U) \subseteq G
<1> DEFINE H == {n \in Nat : \A s \in Seq(U) : Len(s) = n => s \in G}
<1>1. 0 \in H
  OBVIOUS
<1>2. ASSUME NEW n \in Nat, n \in H PROVE n + 1 \in H
  <2> SUFFICES ASSUME NEW s \in Seq(U), Len(s) = n + 1 PROVE s \in G
    OBVIOUS
  <2>1. s # << >>
    OBVIOUS
  <2>2. PICK t \in Seq(U), x \in U : s = Append(t, x)
    BY <2>1, SequenceEmptyOrAppend
  <2>3. Len(t) = n
    BY <2>2
  <2> QED BY <1>2, <2>2, <2>3
<1>3. Nat \subseteq H
  <2> HIDE DEF H
  <2> QED BY <1>1, <1>2, CountingUp
<1> QED BY <1>3

\* f is what Keep computes along data.
Filter(f, data, S) ==
  f = [k \in 0 .. Len(data) |->
        IF k = 0 THEN << >>
        ELSE IF data[k] \in S THEN Append(f[k - 1], data[k]) ELSE f[k - 1]]

LEMMA FilterGrows ==
  ASSUME NEW U, NEW S, NEW s \in Seq(U), NEW x \in U, NEW f, Filter(f, s, S)
  PROVE  LET last == IF x \in S THEN Append(f[Len(s)], x) ELSE f[Len(s)]
             g == [k \in 0 .. Len(s) + 1 |-> IF k = Len(s) + 1 THEN last ELSE f[k]]
         IN Filter(g, Append(s, x), S)
<1> DEFINE t == Append(s, x)
           n == Len(s)
           last == IF x \in S THEN Append(f[n], x) ELSE f[n]
           g == [k \in 0 .. n + 1 |-> IF k = n + 1 THEN last ELSE f[k]]
           h == [k \in 0 .. Len(t) |->
             IF k = 0 THEN << >>
             ELSE IF t[k] \in S THEN Append(g[k - 1], t[k]) ELSE g[k - 1]]
<1>1. n \in Nat /\ Len(t) = n + 1 /\ t[n + 1] = x
      /\ \A k \in 1 .. n : t[k] = s[k]
  BY AppendProperties
<1>2. \A k \in 0 .. n : f[k] = IF k = 0 THEN << >>
        ELSE IF s[k] \in S THEN Append(f[k - 1], s[k]) ELSE f[k - 1]
  BY DEF Filter
<1> HIDE DEF n, t, last
<1>3. \A k \in 0 .. n + 1 : g[k] = h[k]
  <2> SUFFICES ASSUME NEW k \in 0 .. n + 1 PROVE g[k] = h[k]
    OBVIOUS
  <2>1. CASE k = 0
    BY <2>1, <1>1, <1>2
  <2>2. CASE k \in 1 .. n
    BY <2>2, <1>1, <1>2
  <2>3. CASE k = n + 1
    <3>1. t[k] = x /\ k # 0 /\ k - 1 = n /\ k \in 0 .. Len(t)
      BY <2>3, <1>1
    <3>2. h[k] = IF t[k] \in S THEN Append(g[k - 1], t[k]) ELSE g[k - 1]
      BY <3>1
    <3>3. g[k - 1] = f[n]
      BY <1>1, <3>1
    <3>4. h[k] = last
      BY <3>1, <3>2, <3>3 DEF last
    <3>5. g[k] = last
      BY <2>3
    <3> HIDE DEF g, h
    <3> QED BY <3>4, <3>5
  <2> QED BY <2>1, <2>2, <2>3, <1>1
<1>4. g = h
  BY <1>3, <1>1
<1> QED BY <1>4 DEF Filter, n, t, last

LEMMA FilterUnique ==
  ASSUME NEW U, NEW S, NEW s \in Seq(U), NEW f, NEW g, Filter(f, s, S), Filter(g, s, S)
  PROVE  f = g
<1> DEFINE G == {k \in Nat : k <= Len(s) => f[k] = g[k]}
<1>1. 0 \in G
  BY DEF Filter
<1>2. ASSUME NEW k \in Nat, k \in G, k + 1 <= Len(s) PROVE f[k + 1] = g[k + 1]
  <2>1. f[k] = g[k] /\ k + 1 \in 0 .. Len(s) /\ k + 1 # 0 /\ (k + 1) - 1 = k
    BY <1>2
  <2>2. f[k + 1] = IF s[k + 1] \in S THEN Append(f[(k + 1) - 1], s[k + 1])
                                     ELSE f[(k + 1) - 1]
    BY <2>1, Zenon DEF Filter
  <2>3. g[k + 1] = IF s[k + 1] \in S THEN Append(g[(k + 1) - 1], s[k + 1])
                                     ELSE g[(k + 1) - 1]
    BY <2>1, Zenon DEF Filter
  <2> QED BY <2>1, <2>2, <2>3
<1>3. Nat \subseteq G
  <2>1. \A k \in Nat : k \in G => k + 1 \in G
    BY <1>2
  <2> HIDE DEF G
  <2> QED BY <1>1, <2>1, CountingUp
<1>4. \A k \in 0 .. Len(s) : f[k] = g[k]
  BY <1>3
<1>5. f = [k \in 0 .. Len(s) |-> f[k]]
  BY Zenon DEF Filter
<1>6. g = [k \in 0 .. Len(s) |-> g[k]]
  BY Zenon DEF Filter
<1> HIDE DEF G
<1> QED BY <1>4, <1>5, <1>6, Zenon

LEMMA FilterExists ==
  ASSUME NEW U, NEW S, NEW s \in Seq(U)
  PROVE  \E f : Filter(f, s, S)
<1> DEFINE G == {t \in Seq(U) : \E f : Filter(f, t, S)}
<1>1. << >> \in G
  <2>1. Filter([k \in 0 .. 0 |-> << >>], << >>, S)
    BY DEF Filter
  <2> QED BY <2>1
<1>2. ASSUME NEW t \in G, NEW x \in U PROVE Append(t, x) \in G
  <2>1. PICK f : Filter(f, t, S)
    OBVIOUS
  <2>2. \E g : Filter(g, Append(t, x), S)
    BY <2>1, FilterGrows, Zenon
  <2> QED BY <2>2
<1>3. Seq(U) \subseteq G
  <2> HIDE DEF G
  <2> QED BY <1>1, <1>2, Growing
<1> QED BY <1>3

LEMMA KeepFilter ==
  ASSUME NEW U, NEW S, NEW s \in Seq(U), NEW f, Filter(f, s, S)
  PROVE  Keep(s, S) = f[Len(s)]
<1> DEFINE g == CHOOSE h : Filter(h, s, S)
<1>1. Filter(g, s, S)
  BY Zenon
<1>2. f = g
  <2> HIDE DEF g
  <2> QED BY <1>1, FilterUnique
<1>3. Keep(s, S) = g[Len(s)]
  BY Zenon DEF Keep, Filter
<1> QED BY <1>2, <1>3

LEMMA KeepEmpty == ASSUME NEW S PROVE Keep(<< >>, S) = << >>
<1>1. Filter([k \in 0 .. 0 |-> << >>], << >>, S) /\ << >> \in Seq({})
  BY DEF Filter
<1>2. Keep(<< >>, S) = [k \in 0 .. 0 |-> << >>][Len(<< >>)]
  BY <1>1, KeepFilter
<1> QED  BY <1>2

LEMMA KeepAppend ==
  ASSUME NEW U, NEW S, NEW s \in Seq(U), NEW x \in U
  PROVE  Keep(Append(s, x), S) = IF x \in S THEN Append(Keep(s, S), x) ELSE Keep(s, S)
<1>1. PICK f : Filter(f, s, S)
  BY FilterExists
<1> DEFINE last == IF x \in S THEN Append(f[Len(s)], x) ELSE f[Len(s)]
           g == [k \in 0 .. Len(s) + 1 |-> IF k = Len(s) + 1 THEN last ELSE f[k]]
<1>2. Filter(g, Append(s, x), S)
  BY <1>1, FilterGrows
<1>3. Append(s, x) \in Seq(U) /\ Len(Append(s, x)) = Len(s) + 1 /\ Len(s) \in Nat
  BY AppendProperties
<1>4. Keep(Append(s, x), S) = g[Len(s) + 1]
  <2> HIDE DEF g
  <2> QED  BY <1>2, <1>3, KeepFilter
<1>5. Keep(s, S) = f[Len(s)]
  BY <1>1, KeepFilter
<1> QED  BY <1>3, <1>4, <1>5

(* Lookup is what Settings says of one name.                               *)
Setting == Name \X Value

Lookup(data, n) ==
  LET found == Keep(data, {n} \X Value)
  IN  IF found = << >> THEN Absent ELSE found[1][2]

LEMMA SettingsLookup ==
  ASSUME NEW c
  PROVE  Settings(c) = [n \in Name |-> Lookup(c.data, n)]
  BY Zenon DEF Settings, Lookup

\* What is kept of a sequence is a sequence of what it is kept for.
LEMMA KeepType ==
  ASSUME NEW U, NEW S, NEW s \in Seq(U)
  PROVE  Keep(s, S) \in Seq(U \cap S)
<1> DEFINE G == {t \in Seq(U) : Keep(t, S) \in Seq(U \cap S)}
<1>1. << >> \in G
  <2>1. Keep(<< >>, S) = << >> /\ << >> \in Seq(U) /\ << >> \in Seq(U \cap S)
    BY KeepEmpty
  <2> QED  BY <2>1
<1>2. ASSUME NEW t \in G, NEW x \in U PROVE Append(t, x) \in G
  <2>1. Keep(Append(t, x), S) = IF x \in S THEN Append(Keep(t, S), x) ELSE Keep(t, S)
    BY KeepAppend
  <2>2. x \in S => Append(Keep(t, S), x) \in Seq(U \cap S)
    OBVIOUS
  <2>3. Keep(Append(t, x), S) \in Seq(U \cap S) /\ Append(t, x) \in Seq(U)
    BY <2>1, <2>2
  <2> QED  BY <2>3
<1>3. Seq(U) \subseteq G
  <2>1. \A t \in Seq(U), x \in U : t \in G => Append(t, x) \in G
    BY <1>2
  <2> HIDE DEF G
  <2> QED  BY <1>1, <2>1, Growing
<1> QED  BY <1>3

\* Keeping twice is keeping what is in both sets, and only what can be in
\* the sequence counts.
LEMMA KeepTwice ==
  ASSUME NEW U, NEW A, NEW B, NEW C, \A x \in U : x \in C <=> x \in A /\ x \in B,
         NEW s \in Seq(U)
  PROVE  Keep(Keep(s, A), B) = Keep(s, C)
<1> DEFINE G == {t \in Seq(U) : Keep(Keep(t, A), B) = Keep(t, C)}
<1>1. << >> \in G
  BY KeepEmpty
<1>2. ASSUME NEW t \in G, NEW x \in U PROVE Append(t, x) \in G
  <2>1. Keep(t, A) \in Seq(U)
    <3>1. Keep(t, A) \in Seq(U \cap A)
      BY KeepType
    <3> QED  BY <3>1, SeqMonotonic
  <2>2. Keep(Append(t, x), A) = IF x \in A THEN Append(Keep(t, A), x) ELSE Keep(t, A)
    BY KeepAppend
  <2>3. Keep(Append(Keep(t, A), x), B)
          = IF x \in B THEN Append(Keep(Keep(t, A), B), x) ELSE Keep(Keep(t, A), B)
    BY <2>1, KeepAppend
  <2>4. Keep(Append(t, x), C) = IF x \in C THEN Append(Keep(t, C), x) ELSE Keep(t, C)
    BY KeepAppend
  <2>5. Keep(Keep(t, A), B) = Keep(t, C)
    OBVIOUS
  <2>6. Keep(Keep(Append(t, x), A), B) = Keep(Append(t, x), C)
    <3>1. CASE x \in A
      <4>1. Keep(Append(t, x), A) = Append(Keep(t, A), x)
        BY <2>2, <3>1
      <4>2. x \in C <=> x \in B
        BY <3>1
      <4> QED  BY <2>3, <2>4, <2>5, <4>1, <4>2, Zenon
    <3>2. CASE x \notin A
      <4>1. Keep(Append(t, x), A) = Keep(t, A) /\ Keep(Append(t, x), C) = Keep(t, C)
        BY <2>2, <2>4, <3>2
      <4> QED  BY <2>5, <4>1, Zenon
    <3> QED  BY <3>1, <3>2
  <2> QED  BY <2>6
<1>3. Seq(U) \subseteq G
  <2>1. \A t \in Seq(U), x \in U : t \in G => Append(t, x) \in G
    BY <1>2
  <2> HIDE DEF G
  <2> QED  BY <1>1, <2>1, Growing
<1> QED  BY <1>3

\* Nothing is kept for what is not there.
LEMMA KeepNone ==
  ASSUME NEW U, NEW A, \A x \in U : x \notin A, NEW s \in Seq(U)
  PROVE  Keep(s, A) = << >>
<1>1. Keep(s, A) \in Seq(U \cap A) /\ U \cap A = {}
  BY KeepType
<1> QED  BY <1>1

\* The first that is kept of a part is the first that is kept of the whole.
LEMMA KeepPart ==
  ASSUME NEW U, NEW A, NEW s \in Seq(U), NEW k \in 0 .. Len(s)
  PROVE  \/ Keep(SubSeq(s, 1, k), A) = << >>
         \/ /\ Keep(s, A) # << >>
            /\ Keep(SubSeq(s, 1, k), A)[1] = Keep(s, A)[1]
<1> DEFINE part(t, j) == \/ Keep(SubSeq(t, 1, j), A) = << >>
                         \/ /\ Keep(t, A) # << >>
                            /\ Keep(SubSeq(t, 1, j), A)[1] = Keep(t, A)[1]
           G == {t \in Seq(U) : \A j \in 0 .. Len(t) : part(t, j)}
<1>1. << >> \in G
  <2>1. Keep(<< >>, A) = << >> /\ << >> \in Seq(U) /\ Len(<< >>) = 0
    BY KeepEmpty
  <2>2. SubSeq(<< >>, 1, 0) = << >>
    OBVIOUS
  <2>3. part(<< >>, 0)
    BY <2>1, <2>2
  <2>4. \A j \in 0 .. Len(<< >>) : j = 0
    BY <2>1
  <2> HIDE DEF part
  <2> QED  BY <2>1, <2>3, <2>4
<1>2. ASSUME NEW t \in G, NEW x \in U PROVE Append(t, x) \in G
  <2> DEFINE u == Append(t, x)
  <2>1. u \in Seq(U) /\ Len(u) = Len(t) + 1 /\ Len(t) \in Nat
    OBVIOUS
  <2>2. Keep(u, A) = IF x \in A THEN Append(Keep(t, A), x) ELSE Keep(t, A)
    BY KeepAppend
  <2>3. Keep(t, A) \in Seq(U \cap A)
    BY KeepType
  <2>4. Keep(t, A) # << >> => Keep(u, A) # << >> /\ Keep(u, A)[1] = Keep(t, A)[1]
    BY <2>2, <2>3
  <2>5. ASSUME NEW j \in 0 .. Len(u) PROVE part(u, j)
    <3>1. CASE j = Len(u)
      <4>1. SubSeq(u, 1, j) = u
        BY <2>1, <3>1, SubSeqFull
      <4> HIDE DEF u
      <4> QED  BY <4>1
    <3>2. CASE j \in 0 .. Len(t)
      <4>1. SubSeq(u, 1, j) = SubSeq(t, 1, j)
        BY <2>1, <3>2
      <4>2. part(t, j)
        BY <3>2
      <4> HIDE DEF u
      <4> QED  BY <2>4, <4>1, <4>2
    <3> QED  BY <2>1, <3>1, <3>2
  <2> HIDE DEF part
  <2> QED  BY <2>1, <2>5
<1>3. Seq(U) \subseteq G
  <2>1. \A t \in Seq(U), x \in U : t \in G => Append(t, x) \in G
    BY <1>2
  <2> HIDE DEF G
  <2> QED  BY <1>1, <2>1, Growing
<1>4. s \in G
  BY <1>3
<1> QED  BY <1>4
-----------------------------------------------------------------------------
LEMMA LookupType ==
  ASSUME NEW data \in Seq(Setting), NEW n \in Name
  PROVE  Lookup(data, n) \in Value \cup {Absent}
<1>1. Keep(data, {n} \X Value) \in Seq(Setting \cap ({n} \X Value))
  BY KeepType
<1>2. Keep(data, {n} \X Value) # << >>
        => Keep(data, {n} \X Value)[1] \in {n} \X Value
  BY <1>1
<1> QED  BY <1>2 DEF Lookup

LEMMA WithoutType ==
  ASSUME NEW data \in Seq(Setting), NEW names
  PROVE  Without(data, names) \in Seq(Setting)
<1>1. Without(data, names) \in Seq(Setting \cap ((Name \ names) \X Value))
  BY KeepType DEF Without
<1> QED  BY <1>1, SeqMonotonic

LEMMA LookupWithout ==
  ASSUME NEW data \in Seq(Setting), NEW names, NEW n \in Name
  PROVE  Lookup(Without(data, names), n)
           = IF n \in names THEN Absent ELSE Lookup(data, n)
<1> DEFINE A == (Name \ names) \X Value
           B == {n} \X Value
<1>1. CASE n \in names
  <2>1. \A x \in Setting : x \in {} <=> x \in A /\ x \in B
    BY <1>1
  <2>2. Keep(Keep(data, A), B) = Keep(data, {})
    BY <2>1, KeepTwice
  <2>3. Keep(data, {}) = << >>
    BY KeepNone
  <2> QED  BY <1>1, <2>2, <2>3 DEF Lookup, Without
<1>2. CASE n \notin names
  <2>1. \A x \in Setting : x \in B <=> x \in A /\ x \in B
    BY <1>2 DEF Setting
  <2>2. Keep(Keep(data, A), B) = Keep(data, B)
    BY <2>1, KeepTwice
  <2> QED  BY <1>2, <2>2 DEF Lookup, Without
<1> QED  BY <1>1, <1>2

LEMMA LookupAppend ==
  ASSUME NEW data \in Seq(Setting), NEW n \in Name, NEW v \in Value,
         Lookup(data, n) = Absent, NEW m \in Name
  PROVE  Lookup(Append(data, <<n, v>>), m) = IF m = n THEN v ELSE Lookup(data, m)
<1> DEFINE A == {m} \X Value
<1>1. <<n, v>> \in Setting
  BY DEF Setting
<1>2. Keep(Append(data, <<n, v>>), A)
        = IF <<n, v>> \in A THEN Append(Keep(data, A), <<n, v>>) ELSE Keep(data, A)
  BY <1>1, KeepAppend
<1>3. <<n, v>> \in A <=> m = n
  OBVIOUS
<1>4. CASE m = n
  <2>1. Keep(data, A) = << >>
    <3>1. Keep(data, A) \in Seq(Setting \cap A)
      BY KeepType
    <3>2. Keep(data, A) # << >> => Keep(data, A)[1][2] \in Value
      BY <3>1
    <3> QED  BY <1>4, <3>2, FlashStoreAssumption DEF Lookup
  <2>2. Keep(Append(data, <<n, v>>), A) = Append(<< >>, <<n, v>>)
    BY <1>2, <1>3, <1>4, <2>1, Zenon
  <2>3. Append(<< >>, <<n, v>>) # << >> /\ Append(<< >>, <<n, v>>)[1] = <<n, v>>
    OBVIOUS
  <2> HIDE DEF A
  <2>4. Lookup(Append(data, <<n, v>>), m) = <<n, v>>[2]
    BY <2>2, <2>3, Zenon DEF Lookup, A
  <2> QED  BY <1>4, <2>4
<1>5. CASE m # n
  BY <1>2, <1>3, <1>5 DEF Lookup
<1> QED  BY <1>4, <1>5

LEMMA LookupPart ==
  ASSUME NEW data \in Seq(Setting), NEW k \in 0 .. Len(data), NEW n \in Name
  PROVE  Lookup(SubSeq(data, 1, k), n) \in {Lookup(data, n), Absent}
  BY KeepPart DEF Lookup

LEMMA LookupNothing ==
  ASSUME NEW n
  PROVE  Lookup(<< >>, n) = Absent
  BY KeepEmpty DEF Lookup
-----------------------------------------------------------------------------
\* What config_set_string makes of a configuration with its end in place.
LEMMA WithLine ==
  ASSUME NEW c, IsContent(c), c.data \in Seq(Setting), c.end = "line",
         NEW n \in Name, NEW v \in Value
  PROVE  LET rest == Without(c.data, {n})
         IN  \/ With(c, n, v) = [magic |-> c.magic, data |-> Append(rest, <<n, v>>), end |-> "line"]
             \/ With(c, n, v) = [magic |-> c.magic, data |-> rest, end |-> "nul"]
<1> DEFINE rest == Without(c.data, {n})
           more == Append(rest, <<n, v>>)
<1>1. rest \in Seq(Setting) /\ <<n, v>> \in Setting
  BY WithoutType DEF Setting
<1>2. \/ With(c, n, v) = [magic |-> c.magic, data |-> more, end |-> "line"]
      \/ With(c, n, v) = [magic |-> c.magic, data |-> rest, end |-> "nul"]
  <2> DEFINE shorter == [c EXCEPT !.data = rest]
  <2>1. shorter.data = rest /\ shorter = [magic |-> c.magic, data |-> rest, end |-> "line"]
    <3> HIDE DEF rest
    <3> QED  BY DEF IsContent
  <2>2. Used(more) \in Nat /\ Capacity \in Nat
    <3>1. more \in Seq(Setting)
      BY <1>1
    <3>2. Keep(more, Name \X Long) \in Seq(Setting \cap (Name \X Long))
      <4> HIDE DEF more
      <4> QED  BY <3>1, KeepType
    <3> HIDE DEF more
    <3> QED  BY <3>1, <3>2, FlashStoreAssumption DEF Used
  <2>3. Append(shorter.data, <<n, v>>) = more
    BY <2>1
  <2>4. With(c, n, v) =
          LET m == Append(shorter.data, <<n, v>>)
          IN  CASE c.end = "line" /\ Used(m) <= Capacity -> [shorter EXCEPT !.data = m]
                [] c.end = "line" /\ Used(m) > Capacity -> [shorter EXCEPT !.end = "nul"]
                [] c.end = "nul" -> [magic |-> FALSE, data |-> << >>, end |-> "line"]
                [] OTHER -> shorter
    BY Zenon DEF With
  <2>5. With(c, n, v) =
          CASE c.end = "line" /\ Used(more) <= Capacity -> [shorter EXCEPT !.data = more]
            [] c.end = "line" /\ Used(more) > Capacity -> [shorter EXCEPT !.end = "nul"]
            [] c.end = "nul" -> [magic |-> FALSE, data |-> << >>, end |-> "line"]
            [] OTHER -> shorter
    <3> HIDE DEF rest, more, shorter
    <3> QED  BY <2>3, <2>4, Zenon
  <2> HIDE DEF rest, more, shorter
  <2>6. Used(more) <= Capacity => With(c, n, v) = [shorter EXCEPT !.data = more]
    BY <2>2, <2>5
  <2>7. Used(more) > Capacity => With(c, n, v) = [shorter EXCEPT !.end = "nul"]
    BY <2>2, <2>5
  <2>8. [shorter EXCEPT !.data = more] = [magic |-> c.magic, data |-> more, end |-> "line"]
    BY <2>1
  <2>9. [shorter EXCEPT !.end = "nul"] = [magic |-> c.magic, data |-> rest, end |-> "nul"]
    BY <2>1
  <2> QED  BY <2>2, <2>6, <2>7, <2>8, <2>9
<1> QED  BY <1>2

(* A setting is set.                                                       *)
LEMMA SettingsWith ==
  ASSUME NEW c, IsContent(c), c.data \in Seq(Setting), c.end = "line",
         NEW n \in Name, NEW v \in Value
  PROVE  \/ /\ Settings(With(c, n, v)) = [Settings(c) EXCEPT ![n] = v]
            /\ With(c, n, v).end = "line" /\ With(c, n, v).magic = c.magic
         \/ With(c, n, v).end = "nul" /\ With(c, n, v).magic = c.magic
<1> DEFINE rest == Without(c.data, {n})
           more == Append(rest, <<n, v>>)
<1>1. rest \in Seq(Setting) /\ <<n, v>> \in Setting
  BY WithoutType DEF Setting
<1>2. \A m \in Name : Lookup(rest, m) = IF m = n THEN Absent ELSE Lookup(c.data, m)
  BY LookupWithout
<1>3. ASSUME NEW m \in Name
      PROVE  Lookup(more, m) = IF m = n THEN v ELSE Lookup(c.data, m)
  <2>1. Lookup(rest, n) = Absent
    BY <1>2
  <2>2. Lookup(more, m) = IF m = n THEN v ELSE Lookup(rest, m)
    <3> HIDE DEF rest
    <3> QED  BY <1>1, <2>1, LookupAppend
  <2> QED  BY <1>2, <2>2
<1>4. \/ With(c, n, v) = [magic |-> c.magic, data |-> more, end |-> "line"]
      \/ With(c, n, v) = [magic |-> c.magic, data |-> rest, end |-> "nul"]
  BY WithLine
<1>5. CASE With(c, n, v) = [magic |-> c.magic, data |-> more, end |-> "line"]
  <2>1. With(c, n, v).data = more /\ With(c, n, v).end = "line" /\ With(c, n, v).magic = c.magic
    BY <1>5 DEF IsContent
  <2>2. Settings(With(c, n, v)) = [m \in Name |-> Lookup(more, m)]
    BY <2>1, SettingsLookup
  <2>3. [Settings(c) EXCEPT ![n] = v] = [m \in Name |-> IF m = n THEN v ELSE Lookup(c.data, m)]
    BY SettingsLookup
  <2> QED  BY <1>3, <2>1, <2>2, <2>3
<1>6. CASE With(c, n, v) = [magic |-> c.magic, data |-> rest, end |-> "nul"]
  BY <1>6 DEF IsContent
<1> QED  BY <1>4, <1>5, <1>6
-----------------------------------------------------------------------------
(* The settings of a configuration.                                        *)
Nothing == [n \in Name |-> Absent]

IsSettings(c) ==
  /\ IsContent(c) /\ c.data \in Seq(Setting) /\ c.end \in {"line", "nul", "none"}

(* What is in the buffer during a session, and in the sector, is a         *)
(* configuration, and what is being written has an end that is not a nul.  *)
(* A session without changes has what the sector has, and what a write is  *)
(* replacing is in the sector until it is erased.                          *)
Configs ==
  /\ IsSettings(flash["config"]) /\ flash["config"].end # "nul"
  /\ InSession \/ use = "config_cache" => IsSettings(ram)
  /\ use = "config_write" => ram = Loaded(flash["config"])
  /\ Writing => ram.end # "nul"
  /\ Writing /\ pc = "erase" => old = Loaded(flash["config"])

LEMMA LoadedSettings ==
  ASSUME NEW c, IsSettings(c)
  PROVE  /\ IsSettings(Loaded(c)) /\ Loaded(c).magic
         /\ c.end # "nul" => Loaded(c).end # "nul"
<1>1. IsSettings(EmptyConfig) /\ EmptyConfig.magic /\ EmptyConfig.end = "line"
  BY DEF IsSettings, EmptyConfig, IsContent
<1> QED  BY <1>1 DEF Loaded

LEMMA WithSettings ==
  ASSUME NEW c, IsSettings(c), NEW n \in Name, NEW v \in Value
  PROVE  /\ IsSettings(With(c, n, v))
         /\ c.end = "none" => With(c, n, v).end = "none"
         /\ c.end = "nul" => With(c, n, v) = [magic |-> FALSE, data |-> << >>, end |-> "line"]
<1>1. IsContent(With(c, n, v))
  BY WithShape DEF IsSettings
<1>2. CASE c.end = "line"
  <2> DEFINE rest == Without(c.data, {n})
  <2>1. rest \in Seq(Setting) /\ <<n, v>> \in Setting
    BY WithoutType DEF IsSettings, Setting
  <2>2. \/ With(c, n, v) = [magic |-> c.magic, data |-> Append(rest, <<n, v>>), end |-> "line"]
        \/ With(c, n, v) = [magic |-> c.magic, data |-> rest, end |-> "nul"]
    BY <1>2, WithLine DEF IsSettings
  <2>3. Append(rest, <<n, v>>) \in Seq(Setting)
    BY <2>1
  <2> HIDE DEF rest
  <2>4. /\ With(c, n, v).data \in Seq(Setting)
        /\ With(c, n, v).end \in {"line", "nul"}
    BY <2>1, <2>2, <2>3
  <2> QED  BY <1>1, <1>2, <2>4 DEF IsSettings
<1>3. CASE c.end = "nul"
  <2>1. With(c, n, v) = [magic |-> FALSE, data |-> << >>, end |-> "line"]
    BY <1>3 DEF With
  <2> QED  BY <1>1, <1>3, <2>1 DEF IsSettings
<1>4. CASE c.end = "none"
  <2>1. With(c, n, v) = [c EXCEPT !.data = Without(c.data, {n})]
    BY <1>4 DEF With
  <2>2. With(c, n, v).data = Without(c.data, {n}) /\ With(c, n, v).end = "none"
    BY <1>4, <2>1 DEF IsSettings, IsContent
  <2> QED  BY <1>1, <1>4, <2>2, WithoutType DEF IsSettings
<1> QED  BY <1>2, <1>3, <1>4 DEF IsSettings

\* What closing a session makes of the buffer.
LEMMA FinalSettings ==
  ASSUME NEW c, IsSettings(c)
  PROVE  /\ IsSettings(Final(c)) /\ Final(c).end # "nul" /\ Final(Final(c)) = Final(c)
         /\ c.end = "nul" => Settings(Loaded(Final(c))) = Nothing
         /\ c.end # "nul" => Final(c) = c
         /\ ~c.magic => Settings(Loaded(Final(c))) = Nothing
         /\ c.magic => Settings(Loaded(c)) = Settings(c)
<1>1. CASE c.end = "nul"
  <2>1. Final(c) = [magic |-> c.magic, data |-> << >>, end |-> "none"]
    BY <1>1 DEF Final, IsSettings, IsContent
  <2>2. Loaded(Final(c)).data = << >>
    BY <2>1 DEF Loaded, EmptyConfig
  <2>3. Settings(Loaded(Final(c))) = Nothing
    BY <2>2, SettingsLookup, LookupNothing DEF Nothing
  <2> QED  BY <1>1, <2>1, <2>3 DEF IsSettings, IsContent, Final, Loaded
<1>2. CASE c.end # "nul"
  <2>1. Final(c) = c
    BY <1>2 DEF Final
  <2>2. ~c.magic => Loaded(c).data = << >>
    BY DEF Loaded, EmptyConfig
  <2>3. ~c.magic => Settings(Loaded(c)) = Nothing
    BY <2>2, SettingsLookup, LookupNothing DEF Nothing
  <2> QED  BY <1>2, <2>1, <2>3 DEF Loaded
<1> QED  BY <1>1, <1>2

LEMMA SettingsType ==
  ASSUME NEW c, IsSettings(c)
  PROVE  Settings(Loaded(c)) \in Store!Settings
<1>1. Loaded(c).data \in Seq(Setting)
  BY LoadedSettings DEF IsSettings
<1> QED  BY <1>1, SettingsLookup, LookupType DEF Store!Settings

\* What is left when writing c was cut short.
LEMMA TornSettings ==
  ASSUME NEW c, IsSettings(c), c.end # "nul", NEW t \in Torn(c)
  PROVE  /\ IsSettings(t) /\ t.end # "nul"
         /\ Settings(Loaded(t)) \in Store!Remains(Settings(Loaded(c)))
<1> DEFINE remains == {r \in Store!Settings :
                         \A n \in Name : r[n] \in {Settings(Loaded(c))[n], Absent}}
<1>1. Store!Remains(Settings(Loaded(c))) = remains
  BY DEF Store!Remains
<1>2. Settings(Loaded(c)) \in Store!Settings
  BY SettingsType
<1>3. Nothing \in remains
  BY DEF Nothing, Store!Settings
<1>4. CASE t = c
  <2>1. Settings(Loaded(c)) \in remains
    BY <1>2
  <2> QED  BY <1>1, <1>4, <2>1
<1>5. CASE t = Erased
  <2>1. IsSettings(Erased) /\ Erased.end = "none" /\ ~Erased.magic
    BY DEF IsSettings, Erased, IsContent
  <2>2. Settings(Loaded(Erased)) = Nothing
    BY <2>1, FinalSettings
  <2> QED  BY <1>1, <1>3, <1>5, <2>1, <2>2
<1>6. ASSUME NEW k \in 0 .. Len(c.data),
             t = [c EXCEPT !.data = SubSeq(c.data, 1, k), !.end = "none"]
      PROVE  IsSettings(t) /\ t.end # "nul" /\ Settings(Loaded(t)) \in remains
  <2> DEFINE part == SubSeq(c.data, 1, k)
  <2>1. c.data \in Seq(Setting) /\ part \in Seq(Setting)
    BY DEF IsSettings
  <2>2. t.data = part /\ t.end = "none" /\ t.magic = c.magic
    BY <1>6 DEF IsSettings, IsContent
  <2>3. IsContent(t)
    BY TornShape DEF IsSettings
  <2>4. IsSettings(t)
    BY <2>1, <2>2, <2>3 DEF IsSettings
  <2>5. CASE c.magic
    <3>1. Settings(Loaded(c)) = [n \in Name |-> Lookup(c.data, n)]
      BY <2>5, SettingsLookup DEF Loaded
    <3>2. Settings(Loaded(t)) = [n \in Name |-> Lookup(part, n)]
      BY <2>2, <2>5, SettingsLookup DEF Loaded
    <3>3. \A n \in Name : Lookup(part, n) \in {Lookup(c.data, n), Absent}
      BY <2>1, LookupPart
    <3>4. Settings(Loaded(t)) \in Store!Settings
      BY <2>4, SettingsType
    <3> HIDE DEF part
    <3> QED  BY <2>2, <2>4, <3>1, <3>2, <3>3, <3>4
  <2>6. CASE ~c.magic
    <3>1. Settings(Loaded(t)) = Nothing
      BY <2>2, <2>4, <2>6, FinalSettings
    <3> QED  BY <1>3, <2>2, <2>4, <3>1
  <2> QED  BY <2>5, <2>6
<1> QED  BY <1>1, <1>4, <1>5, <1>6 DEF Torn
-----------------------------------------------------------------------------
(* How steps look to ConfigStore.                                          *)
StoreStep == [Store!Next]_(Store!vars)

\* What the sector says, without regard to what is going on.
Kept == Settings(Loaded(flash["config"]))

LEMMA StoreStates ==
  /\ Open \in BOOLEAN /\ Open' \in BOOLEAN
  /\ (Writing => Open) /\ (Writing => Open)'
  /\ ~Writing => Stored = Kept
  /\ (~Writing => Stored = Kept)'
  /\ ~Open => Draft = Kept
  /\ (~Open => Draft = Kept)'
  BY DEF Open, Stored, Draft, Kept

LEMMA Stays ==
  ASSUME Open <=> Open', Stored' = Stored, Draft' = Draft
  PROVE  StoreStep
  BY StoreStates DEF StoreStep, Store!vars

\* Nothing is going on before and after, and the sector stays what it is.
LEMMA Quiet ==
  ASSUME ~Open, ~Open', flash'["config"] = flash["config"]
  PROVE  StoreStep
<1>1. Kept' = Kept
  BY DEF Kept, Settings, Loaded, EmptyConfig, Keep
<1> QED  BY <1>1, Stays, StoreStates

LEMMA Abandons ==
  ASSUME Open, ~Open', Stored' = Stored
  PROVE  StoreStep
<1>1. Draft' = Stored'
  BY StoreStates
<1> QED  BY <1>1, StoreStates DEF StoreStep, Store!Next, Store!Abandon

\* A session or a write ends, and the sector is what it was.
LEMMA Forgets ==
  ASSUME Configs, Open, ~Open', flash'["config"] = flash["config"], pc # "write"
  PROVE  StoreStep
<1>1. Stored' = Kept'
  BY StoreStates
<1>2. Kept' = Kept
  BY DEF Kept, Settings, Loaded, EmptyConfig, Keep
<1>3. Stored = Kept
  <2>1. CASE Writing
    BY <2>1 DEF Configs, Stored, Kept, Writing
  <2> QED  BY <2>1, StoreStates
<1> QED  BY <1>1, <1>2, <1>3, Abandons

LEMMA Opens ==
  ASSUME ~Open, Open', Stored' = Stored, Draft' = Draft
  PROVE  StoreStep
  BY StoreStates DEF StoreStep, Store!Next, Store!Open

LEMMA Sets ==
  ASSUME Open, Open', Stored' = Stored, NEW n \in Name, NEW v \in Value,
         Draft' \in {[Draft EXCEPT ![n] = v], Nothing}
  PROVE  StoreStep
<1>1. Draft' \in {[Draft EXCEPT ![n] = v], Store!Nothing}
  BY DEF Nothing, Store!Nothing
<1> QED  BY <1>1, StoreStates DEF StoreStep, Store!Next, Store!Set

LEMMA Deletes ==
  ASSUME Open, Open', Stored' = Stored, NEW names \in SUBSET Name,
         Draft' = [n \in Name |-> IF n \in names THEN Absent ELSE Draft[n]]
  PROVE  StoreStep
  BY StoreStates DEF StoreStep, Store!Next, Store!Delete

LEMMA Closes ==
  ASSUME Open, ~Open', Stored' = Draft
  PROVE  StoreStep
<1>1. Draft' = Stored'
  BY StoreStates
<1> QED  BY <1>1, StoreStates DEF StoreStep, Store!Next, Store!Close

LEMMA Damages ==
  ASSUME Open, ~Open', Stored' \in Store!Remains(Draft)
  PROVE  StoreStep
<1>1. Draft' = Stored'
  BY StoreStates
<1> QED  BY <1>1, StoreStates DEF StoreStep, Store!Next, Store!Damage

\* Draft and Kept in the next state.
LEMMA NextDraft ==
  /\ Draft' = IF Writing' \/ (InSession' /\ ram'.end # "none")
              THEN Settings(Loaded(Final(ram'))) ELSE Kept'
  /\ Kept' = Settings(Loaded(flash'["config"]))
<1>1. Kept' = Settings(Loaded(flash'["config"]))
  BY Zenon DEF Kept, Settings, Loaded, EmptyConfig, Keep
<1>2. Settings(Loaded(Final(ram)))' = Settings(Loaded(Final(ram')))
  BY Zenon DEF Settings, Loaded, Final, EmptyConfig, Keep
<1>3. Draft' = IF Writing' \/ (InSession' /\ ram'.end # "none")
               THEN Settings(Loaded(Final(ram)))' ELSE Kept'
  BY Zenon DEF Draft, Kept
<1> QED  BY <1>1, <1>2, <1>3, Zenon

\* What is stored when the sector of the configuration is left as c.
LEMMA Left ==
  ASSUME ~Open', NEW c, flash'["config"] = c
  PROVE  Stored' = Settings(Loaded(c))
<1>1. Stored' = Kept'
  BY StoreStates
<1> QED  BY <1>1, NextDraft, Zenon
-----------------------------------------------------------------------------
(* The steps of the configuration.                                         *)
LEMMA FreshSettings ==
  ASSUME IInv, Configs
  PROVE  /\ IsSettings(Fresh) /\ Fresh = Loaded(flash["config"])
         /\ Fresh.magic /\ Fresh.end # "nul"
<1>1. CASE use = "config_cache"
  <2>1. Loaded(ram) = Loaded(flash["config"])
    BY <1>1 DEF IInv, Unchanged
  <2> QED  BY <1>1, <2>1, LoadedSettings DEF Configs, Fresh
<1>2. CASE use # "config_cache"
  BY <1>2, LoadedSettings DEF Configs, Fresh
<1> QED  BY <1>1, <1>2

\* Nobody who is granted the buffer takes it from a session.
LEMMA GrantedClosed ==
  ASSUME IInv, pc = "idle", NEW u, u # "config_write_dirty", Available(u)
  PROVE  ~Open
<1>1. ~pvt
  BY Granted DEF IInv
<1> QED  BY <1>1 DEF IInv, Holder, Open, Writing

LEMMA GetMaps ==
  ASSUME IInv, Configs, config_get_string
  PROVE  Configs' /\ StoreStep
<1>1. ~Open
  BY GrantedClosed DEF config_get_string
<1>2. /\ pc' = "idle" /\ UNCHANGED flash
      /\ \/ use' = "config_cache" /\ ram' = Fresh
         \/ use' = "free"
  BY DEF config_get_string, Take, Unreadable, Release
<1>3. ~InSession' /\ ~Writing'
  BY <1>2 DEF InSession, Writing
<1>4. Configs'
  <2>1. use' = "config_cache" => IsSettings(ram')
    BY <1>2, FreshSettings
  <2> QED  BY <1>2, <1>3, <2>1 DEF Configs, InSession, IsSettings, IsContent
<1> QED  BY <1>1, <1>2, <1>3, <1>4, Quiet DEF Open

LEMMA OpenMaps ==
  ASSUME IInv, Configs, NEW c \in Caller, config_open_write(c)
  PROVE  Configs' /\ StoreStep
<1>1. /\ pc = "idle" /\ pc' \in {"idle", "session"} /\ UNCHANGED <<flash, job, old>>
  BY DEF config_open_write, history, Idle
<1>2. ~Writing /\ ~Writing'
  BY <1>1 DEF Writing
<1>3. Kept' = Kept
  BY <1>1 DEF Kept, Settings, Loaded, EmptyConfig, Keep
<1>4. CASE Available("config_read") /\ Take("config_write", TRUE, Fresh)
  <2>1. ~Open
    BY <1>1, <1>4, GrantedClosed
  <2>2. use' = "config_write" /\ ram' = Fresh
    BY <1>4 DEF Take
  <2>3. InSession' /\ Open'
    BY <2>2 DEF InSession, Open
  <2>4. Loaded(flash["config"]) = ram' /\ IsSettings(ram') /\ ram'.end # "nul" /\ ram'.magic
    BY <2>2, FreshSettings
  <2>5. Configs'
    BY <1>1, <1>2, <2>2, <2>4 DEF Configs, IsSettings, IsContent, Loaded
  <2>6. Draft' = Kept
    <3>1. Draft' = Settings(Loaded(Final(ram'))) \/ Draft' = Kept'
      BY DEF Draft, Kept
    <3>2. Final(ram') = ram' /\ Loaded(ram') = ram'
      BY <2>4, FinalSettings DEF Loaded
    <3> QED  BY <1>3, <2>4, <3>1, <3>2 DEF Kept
  <2>7. Stored' = Stored /\ Draft = Kept
    BY <1>2, <1>3, <2>1, StoreStates
  <2> QED  BY <2>1, <2>3, <2>5, <2>6, <2>7, Opens
<1>5. CASE Release
  <2>1. use' = "free" /\ ~InSession' /\ ~Open'
    BY <1>2, <1>5 DEF Release, InSession, Open
  <2>2. Configs'
    BY <1>1, <1>2, <2>1 DEF Configs, IsSettings, IsContent
  <2>3. StoreStep
    BY <1>1, <2>1, Quiet, Forgets
  <2> QED  BY <2>2, <2>3
<1>6. CASE UNCHANGED buffer
  <2>1. UNCHANGED <<use, ram, flash>>
    BY <1>1, <1>6 DEF buffer
  <2>2. UNCHANGED <<Open, Stored, Draft>> /\ UNCHANGED InSession
    <3>1. InSession' = InSession /\ Open' = Open
      BY <1>2, <2>1 DEF InSession, Open
    <3>2. Stored' = Stored
      BY <1>2, <1>3, StoreStates
    <3>3. Draft = IF InSession /\ ram.end # "none" THEN Settings(Loaded(Final(ram))) ELSE Kept
      BY <1>2, Zenon DEF Draft, Kept
    <3>4. Draft' = IF InSession' /\ ram'.end # "none" THEN Settings(Loaded(Final(ram'))) ELSE Kept'
      BY <1>2, NextDraft, Zenon
    <3>5. Draft' = Draft
      BY <1>3, <2>1, <3>1, <3>3, <3>4, Zenon
    <3> QED  BY <3>1, <3>2, <3>5
  <2>3. Configs'
    BY <1>1, <1>2, <2>1, <2>2 DEF Configs, IsSettings, IsContent, Loaded
  <2> QED  BY <2>2, <2>3, Stays
<1>7. Available("config_read") /\ Unreadable => Release
  BY DEF Unreadable
<1>8. ~Available("config_read") /\ Abort => Release \/ UNCHANGED buffer
  BY <1>1 DEF IInv, Holder, Available, Abort, Dirty
<1> QED  BY <1>4, <1>5, <1>6, <1>7, <1>8 DEF config_open_write

\* The session goes on, and its buffer becomes b.
LEMMA SessionGoesOn ==
  ASSUME IInv, Configs, pc = "session", InSession, InSession', use' # "config_write",
         UNCHANGED <<flash, pc>>, IsSettings(ram')
  PROVE  /\ Configs' /\ Open /\ Open' /\ Stored' = Stored
         /\ Draft = IF ram.end # "none" THEN Settings(Loaded(Final(ram))) ELSE Kept
         /\ Draft' = IF ram'.end # "none" THEN Settings(Loaded(Final(ram'))) ELSE Kept
<1>1. ~Writing /\ ~Writing'
  BY DEF Writing
<1>2. Open /\ Open'
  BY DEF Open
<1>3. Kept' = Kept
  BY NextDraft, Zenon DEF Kept
<1>4. Stored' = Stored
  BY <1>1, <1>3, StoreStates
<1>5. Draft = IF ram.end # "none" THEN Settings(Loaded(Final(ram))) ELSE Kept
  BY <1>1, Zenon DEF Draft, Kept
<1>6. Draft' = IF ram'.end # "none" THEN Settings(Loaded(Final(ram'))) ELSE Kept
  BY <1>1, <1>3, NextDraft, Zenon
<1>7. Configs'
  BY <1>1 DEF Configs, IsSettings, IsContent
<1> QED  BY <1>2, <1>4, <1>5, <1>6, <1>7

LEMMA SetMaps ==
  ASSUME IInv, Configs, NEW n \in Name, NEW v \in Value, config_set_string(n, v)
  PROVE  Configs' /\ StoreStep
<1>1. /\ pc = "session" /\ InSession /\ UNCHANGED <<flash, pc>>
      /\ use' = "config_write_dirty" /\ ram' = With(ram, n, v)
  BY DEF config_set_string, Take
<1>2. IsSettings(ram)
  BY <1>1 DEF Configs
<1>3. InSession' /\ use' # "config_write" /\ IsSettings(ram')
  BY <1>1, <1>2, WithSettings DEF InSession
<1>4. /\ Configs' /\ Open /\ Open' /\ Stored' = Stored
      /\ Draft = IF ram.end # "none" THEN Settings(Loaded(Final(ram))) ELSE Kept
      /\ Draft' = IF ram'.end # "none" THEN Settings(Loaded(Final(ram'))) ELSE Kept
  BY <1>1, <1>3, SessionGoesOn
<1>5. CASE ram.end = "none"
  <2>1. Draft' = Draft
    BY <1>1, <1>2, <1>4, <1>5, WithSettings
  <2> QED  BY <1>4, <2>1, Stays
<1>6. CASE ram.end # "none" /\ Draft' = Nothing
  BY <1>4, <1>6, Sets
<1>7. CASE ram.end = "nul"
  <2>1. ram' = [magic |-> FALSE, data |-> << >>, end |-> "line"]
    BY <1>1, <1>2, <1>7, WithSettings
  <2>2. ~ram'.magic /\ ram'.end # "none"
    BY <2>1
  <2>3. Draft' = Nothing
    BY <1>3, <1>4, <2>2, FinalSettings
  <2> QED  BY <1>6, <1>7, <2>3
<1>8. CASE ram.end = "line"
  <2>1. \/ Settings(ram') = [Settings(ram) EXCEPT ![n] = v] /\ ram'.end = "line" /\ ram'.magic = ram.magic
        \/ ram'.end = "nul" /\ ram'.magic = ram.magic
    BY <1>1, <1>2, <1>8, SettingsWith DEF IsSettings
  <2>2. CASE ram'.end = "nul" \/ ~ram'.magic
    <3>1. Draft' = Nothing
      BY <1>3, <1>4, <2>1, <2>2, FinalSettings
    <3> QED  BY <1>6, <1>8, <3>1
  <2>3. CASE ram'.end # "nul" /\ ram'.magic
    <3>1. Draft' = Settings(ram') /\ Draft = Settings(ram)
      BY <1>2, <1>3, <1>4, <1>8, <2>1, <2>3, FinalSettings
    <3> QED  BY <1>4, <2>1, <2>3, <3>1, Sets
  <2> QED  BY <2>2, <2>3
<1> QED  BY <1>2, <1>4, <1>5, <1>7, <1>8 DEF IsSettings

LEMMA DeleteMaps ==
  ASSUME IInv, Configs, NEW names \in SUBSET Name, config_delete(names)
  PROVE  Configs' /\ StoreStep
<1> DEFINE rest == Without(ram.data, names)
<1>1. /\ pc = "session" /\ InSession /\ UNCHANGED <<flash, pc>>
      /\ use' = IF rest = ram.data THEN use ELSE "config_write_dirty"
      /\ ram' = [ram EXCEPT !.data = rest]
  BY DEF config_delete, Take
<1>2. IsSettings(ram)
  BY <1>1 DEF Configs
<1>3. /\ ram'.data = rest /\ ram'.end = ram.end /\ ram'.magic = ram.magic
      /\ IsSettings(ram')
  BY <1>1, <1>2, WithoutType DEF IsSettings, IsContent
<1>4. CASE rest = ram.data /\ use = "config_write"
  <2>1. UNCHANGED <<use, ram, flash, pc>>
    BY <1>1, <1>2, <1>4 DEF IsSettings, IsContent
  <2>2. ~Writing /\ ~Writing' /\ InSession' = InSession /\ Open' = Open
    BY <1>1, <2>1 DEF Writing, InSession, Open
  <2>3. Kept' = Kept
    BY <2>1, NextDraft, Zenon DEF Kept
  <2>4. Stored' = Stored
    BY <2>2, <2>3, StoreStates
  <2>5. Draft' = Draft
    BY <2>1, <2>2, <2>3, NextDraft, Zenon DEF Draft, Kept
  <2>6. Configs'
    BY <2>1, <2>2 DEF Configs, IsSettings, IsContent, Loaded
  <2> QED  BY <2>2, <2>4, <2>5, <2>6, Stays
<1>5. CASE ~(rest = ram.data /\ use = "config_write")
  <2>1. use' # "config_write" /\ InSession'
    BY <1>1, <1>5 DEF InSession
  <2>2. /\ Configs' /\ Open /\ Open' /\ Stored' = Stored
        /\ Draft = IF ram.end # "none" THEN Settings(Loaded(Final(ram))) ELSE Kept
        /\ Draft' = IF ram'.end # "none" THEN Settings(Loaded(Final(ram'))) ELSE Kept
    BY <1>1, <1>3, <2>1, SessionGoesOn
  <2>3. CASE ram.end = "none" \/ ram.end = "nul" \/ ~ram.magic
    <3>1. Draft' = Draft
      BY <1>2, <1>3, <2>2, <2>3, FinalSettings
    <3> QED  BY <2>2, <3>1, Stays
  <2>4. CASE ram.end = "line" /\ ram.magic
    <3>1. Draft' = Settings(ram') /\ Draft = Settings(ram)
      BY <1>2, <1>3, <2>2, <2>4, FinalSettings
    <3>2. \A n \in Name : Lookup(rest, n) = IF n \in names THEN Absent ELSE Lookup(ram.data, n)
      BY <1>2, LookupWithout DEF IsSettings
    <3>3. Settings(ram') = [n \in Name |-> Lookup(rest, n)]
      BY <1>3, SettingsLookup
    <3>4. Settings(ram) = [n \in Name |-> Lookup(ram.data, n)]
      BY SettingsLookup
    <3> HIDE DEF rest
    <3>5. Draft' = [n \in Name |-> IF n \in names THEN Absent ELSE Draft[n]]
      BY <3>1, <3>2, <3>3, <3>4
    <3> QED  BY <2>2, <3>5, Deletes
  <2> QED  BY <1>2, <2>3, <2>4 DEF IsSettings
<1> QED  BY <1>4, <1>5

\* The end of a session that is not going to be written.
LEMMA AbortMaps ==
  ASSUME IInv, Configs, config_abort_write
  PROVE  Configs' /\ StoreStep
<1>1. pc = "session" /\ pc' = "idle" /\ UNCHANGED flash
  BY DEF config_abort_write, Idle
<1>2. \/ use = "config_write" /\ use' = "config_cache" /\ ram' = ram
      \/ Dirty /\ use' = "free"
      \/ ~InSession /\ UNCHANGED <<use, ram>>
  BY DEF config_abort_write, Abort, Take, Release, InSession, Dirty, buffer
<1>3. ~InSession' /\ ~Writing' /\ ~Open'
  BY <1>1, <1>2 DEF InSession, Writing, Open
<1>4. Configs'
  <2>1. use' = "config_cache" => IsSettings(ram')
    BY <1>2 DEF Configs, InSession
  <2> QED  BY <1>1, <1>3, <2>1 DEF Configs, InSession, IsSettings, IsContent
<1> QED  BY <1>1, <1>3, <1>4, Quiet, Forgets

LEMMA ReopenMaps ==
  ASSUME IInv, Configs, ReopenAp
  PROVE  Configs' /\ StoreStep
<1>1. pc = "session" /\ pc' = "idle" /\ UNCHANGED <<flash, use, ram>>
  BY DEF ReopenAp, Idle, buffer
<1>2. ~Writing /\ ~Writing' /\ InSession' = InSession /\ Open' = Open
  BY <1>1 DEF Writing, InSession, Open
<1>3. Kept' = Kept
  BY <1>1, NextDraft, Zenon DEF Kept
<1>4. Stored' = Stored
  BY <1>2, <1>3, StoreStates
<1>5. Draft' = Draft
  BY <1>1, <1>2, <1>3, NextDraft, Zenon DEF Draft, Kept
<1>6. Configs'
  BY <1>1, <1>2 DEF Configs, IsSettings, IsContent, Loaded
<1> QED  BY <1>2, <1>4, <1>5, <1>6, Stays

LEMMA CloseMaps ==
  ASSUME IInv, Configs, config_close_write
  PROVE  Configs' /\ StoreStep
<1>1. pc = "session" /\ UNCHANGED flash /\ ~Writing
  BY DEF config_close_write, Writing
<1>2. CASE use = "config_write" /\ Take("config_cache", FALSE, ram) /\ Idle
  <2>1. use' = "config_cache" /\ ram' = ram /\ pc' = "idle"
    BY <1>2 DEF Take, Idle
  <2>2. ~InSession' /\ ~Writing' /\ ~Open'
    BY <2>1 DEF InSession, Writing, Open
  <2>3. Configs'
    BY <1>1, <1>2, <2>1, <2>2 DEF Configs, InSession, IsSettings, IsContent
  <2> QED  BY <1>1, <2>2, <2>3, Quiet, Forgets
<1>3. CASE /\ Dirty /\ ram.end # "none" /\ Take(use, TRUE, Final(ram))
           /\ pc' = "erase" /\ job' = NoJob /\ old' = Loaded(flash["config"])
  <2>1. use' = use /\ ram' = Final(ram) /\ Dirty /\ InSession /\ IsSettings(ram)
    BY <1>3 DEF Take, Dirty, InSession, Configs
  <2>2. Writing' /\ Open /\ Open' /\ use' # "config_write"
    BY <1>3, <2>1 DEF Writing, NoJob, Open, InSession, Dirty
  <2>3. IsSettings(ram') /\ ram'.end # "nul" /\ Final(ram') = ram'
    BY <2>1, FinalSettings
  <2>4. Configs'
    BY <1>1, <1>3, <2>2, <2>3 DEF Configs, IsSettings, IsContent, Loaded
  <2>5. Draft = Settings(Loaded(Final(ram)))
    BY <1>3, <2>1, Zenon DEF Draft
  <2>6. Draft' = Settings(Loaded(Final(ram)))
    BY <2>1, <2>2, <2>3, NextDraft, Zenon
  <2>7. Stored' = Settings(Loaded(flash["config"]))
    <3>1. Stored' = Settings(old)'
      BY <2>2, Zenon DEF Stored
    <3>2. Settings(old)' = Settings(old')
      BY Zenon DEF Settings, Keep
    <3> QED  BY <1>3, <3>1, <3>2, Zenon
  <2>8. Stored = Settings(Loaded(flash["config"]))
    BY <1>1, Zenon DEF Stored
  <2> QED  BY <2>2, <2>4, <2>5, <2>6, <2>7, <2>8, Stays
<1>4. CASE ~InSession /\ Idle /\ UNCHANGED <<buffer, job, old>>
  <2>1. UNCHANGED <<use, ram>> /\ pc' = "idle"
    BY <1>4 DEF buffer, Idle
  <2>2. ~InSession' /\ ~Writing' /\ ~Open' /\ ~Open
    BY <1>1, <1>4, <2>1 DEF InSession, Writing, Open
  <2>3. Configs'
    BY <1>1, <2>1, <2>2 DEF Configs, InSession, IsSettings, IsContent
  <2> QED  BY <1>1, <2>2, <2>3, Quiet
<1> QED  BY <1>2, <1>3, <1>4 DEF config_close_write
-----------------------------------------------------------------------------
(* The other users of the buffer, and what is done to the flash.           *)

\* Nothing is going on after a step that leaves the buffer to others.
LEMMA OthersMap ==
  ASSUME IInv, Configs, ~Open, use' \in {"free", "sequencer", "rboot"},
         ~Writing', flash'["config"] = flash["config"]
  PROVE  Configs' /\ StoreStep
<1>1. ~InSession' /\ ~Open'
  BY DEF InSession, Open
<1>2. Configs'
  BY <1>1 DEF Configs, IsSettings, IsContent
<1> QED  BY <1>1, <1>2, Quiet

LEMMA UserMaps ==
  ASSUME IInv, Configs,
         \/ \E i \in Slot \cup {0}, v \in Entry \cup {Absent} : UpdateSequencer(i, v)
         \/ rboot_if_write_config
         \/ display_picture_load_worker /\ Available("display_picture")
  PROVE  Configs' /\ StoreStep
<1>1. CASE \E i \in Slot \cup {0}, v \in Entry \cup {Absent} : UpdateSequencer(i, v)
  <2>1. /\ pc = "idle" /\ Available("sequencer") /\ UNCHANGED flash
        /\ \/ use' = "free" /\ pc' = pc
           \/ use' = "sequencer" /\ job'.sector = "sequencer0"
    BY <1>1 DEF UpdateSequencer, Take, Release
  <2>2. ~Open
    BY <2>1, GrantedClosed
  <2> QED  BY <2>1, <2>2, OthersMap DEF Writing
<1>2. CASE rboot_if_write_config
  <2>1. /\ pc = "idle" /\ Available("rboot") /\ UNCHANGED flash
        /\ \/ use' = "free" /\ pc' = pc
           \/ /\ use' = "rboot"
              /\ job' = [sector |-> "rboot", entry |-> 0, held |-> flash["rboot"]]
    BY <1>2, Zenon DEF rboot_if_write_config, Take, Release
  <2>2. ~Open
    BY <2>1, GrantedClosed
  <2>3. ~Writing'
    BY <2>1 DEF Writing
  <2> QED  BY <2>1, <2>2, <2>3, OthersMap
<1>3. CASE display_picture_load_worker /\ Available("display_picture")
  <2>1. pc = "idle" /\ pc' = pc /\ use' = "free" /\ UNCHANGED flash
    BY <1>3 DEF display_picture_load_worker, Release
  <2>2. ~Open
    BY <1>3, <2>1, GrantedClosed
  <2> QED  BY <2>1, <2>2, OthersMap DEF Writing
<1> QED  BY <1>1, <1>2, <1>3

LEMMA UnchangedMaps ==
  ASSUME Configs, UNCHANGED <<buffer, flash, pc, job, old>>
  PROVE  Configs' /\ StoreStep
<1>1. UNCHANGED <<use, ram, flash, pc, job, old>>
  BY DEF buffer
<1>2. Writing' = Writing /\ InSession' = InSession /\ Open' = Open
  BY <1>1 DEF Writing, InSession, Open
<1>3. Kept' = Kept
  BY <1>1, NextDraft, Zenon DEF Kept
<1>4. Stored' = Stored
  <2>1. Stored' = IF Writing' THEN Settings(old)' ELSE Kept'
    BY Zenon DEF Stored, Kept
  <2>2. Settings(old)' = Settings(old')
    BY Zenon DEF Settings, Keep
  <2>3. Stored = IF Writing THEN Settings(old) ELSE Kept
    BY Zenon DEF Stored, Kept
  <2> QED  BY <1>1, <1>2, <1>3, <2>1, <2>2, <2>3, Zenon
<1>5. Draft' = Draft
  BY <1>1, <1>2, <1>3, NextDraft, Zenon DEF Draft, Kept
<1>6. Configs'
  BY <1>1, <1>2 DEF Configs, IsSettings, IsContent, Loaded
<1> QED  BY <1>2, <1>4, <1>5, <1>6, Stays

LEMMA PictureMaps ==
  ASSUME IInv, Configs, display_load_picture_slot \/ display_picture_load_worker
  PROVE  Configs' /\ StoreStep
<1>1. CASE display_picture_load_worker /\ Available("display_picture")
  BY <1>1, UserMaps
<1>2. CASE ~(display_picture_load_worker /\ Available("display_picture"))
  <2>1. UNCHANGED <<buffer, flash, pc, job, old>>
    BY <1>2 DEF display_load_picture_slot, display_picture_load_worker, history
  <2> QED  BY <2>1, UnchangedMaps
<1> QED  BY <1>1, <1>2

\* While a sector is rewritten either it is that of the configuration and
\* its session has the buffer, or nothing of the configuration is going on.
LEMMA WhoWrites ==
  ASSUME IInv, Configs, pc \in {"erase", "write"}
  PROVE  \/ /\ job.sector = "config" /\ Writing /\ Open /\ use = "config_write_dirty"
            /\ IsSettings(ram) /\ ram.end # "nul"
            /\ Draft = Settings(Loaded(ram)) /\ Stored = Settings(old)
         \/ /\ job.sector # "config" /\ ~Writing /\ ~Open
            /\ use \in {"sequencer", "rboot"}
<1>1. CASE job.sector = "config"
  <2>1. Writing /\ use = "config_write_dirty"
    BY <1>1 DEF IInv, Holder, Writing, Mirror
  <2>2. IsSettings(ram) /\ ram.end # "nul"
    BY <2>1 DEF Configs, InSession
  <2>3. Draft = Settings(Loaded(Final(ram))) /\ Final(ram) = ram
    BY <2>1, <2>2, FinalSettings DEF Draft
  <2> QED  BY <1>1, <2>1, <2>2, <2>3 DEF Open, Stored
<1>2. CASE job.sector # "config"
  BY <1>2 DEF IInv, Holder, Writing, Open, InSession
<1> QED  BY <1>1, <1>2

LEMMA EraseMaps ==
  ASSUME IInv, Configs, Erase
  PROVE  Configs' /\ StoreStep
<1>1. /\ pc = "erase" /\ pc' = "write" /\ UNCHANGED <<use, ram, job, old>>
      /\ flash' = [flash EXCEPT ![job.sector] = Erased]
      /\ DOMAIN flash = Sector
  BY DEF Erase, buffer, history, IInv, Shape
<1>2. CASE job.sector = "config"
  <2>1. /\ Writing /\ Open /\ use = "config_write_dirty"
        /\ IsSettings(ram) /\ ram.end # "nul"
        /\ Draft = Settings(Loaded(ram)) /\ Stored = Settings(old)
    BY <1>1, <1>2, WhoWrites
  <2>2. Writing' /\ Open'
    BY <1>1, <1>2 DEF Writing, Open
  <2>3. flash'["config"] = Erased
    BY <1>1, <1>2 DEF Sector
  <2>4. IsSettings(Erased) /\ Erased.end = "none"
    BY DEF Erased, IsSettings, IsContent
  <2>5. Configs'
    BY <1>1, <2>1, <2>3, <2>4 DEF Configs, IsSettings, IsContent
  <2>6. Stored' = Stored
    <3>1. Stored' = Settings(old)'
      BY <2>2, Zenon DEF Stored
    <3>2. Settings(old)' = Settings(old')
      BY Zenon DEF Settings, Keep
    <3> QED  BY <1>1, <2>1, <3>1, <3>2, Zenon
  <2>7. Draft' = Draft
    <3>1. Draft' = Settings(Loaded(Final(ram)))
      BY <1>1, <2>2, NextDraft, Zenon
    <3>2. Draft = Settings(Loaded(Final(ram)))
      BY <2>1, Zenon DEF Draft
    <3> QED  BY <3>1, <3>2
  <2> QED  BY <2>1, <2>2, <2>5, <2>6, <2>7, Stays
<1>3. CASE job.sector # "config"
  <2>1. ~Writing /\ ~Open /\ use \in {"sequencer", "rboot"}
    BY <1>1, <1>3, WhoWrites
  <2>2. ~Writing' /\ flash'["config"] = flash["config"]
    BY <1>1, <1>3 DEF Writing, Sector
  <2> QED  BY <1>1, <2>1, <2>2, OthersMap
<1> QED  BY <1>2, <1>3

LEMMA WriteMaps ==
  ASSUME IInv, Configs, Write
  PROVE  Configs' /\ StoreStep
<1>1. /\ pc = "write" /\ AfterWrite /\ flash' = [flash EXCEPT ![job.sector] = ram]
      /\ DOMAIN flash = Sector /\ job.sector \in Sector
  BY DEF Write, IInv, Shape
<1>2. CASE job.sector = "config"
  <2>1. /\ Writing /\ Open /\ IsSettings(ram) /\ ram.end # "nul"
        /\ Draft = Settings(Loaded(ram))
    BY <1>1, <1>2, WhoWrites
  <2>2. use' = "config_cache" /\ ram' = ram /\ pc' = "idle"
    BY <1>1, <1>2 DEF AfterWrite, Take, Done, Idle
  <2>3. ~InSession' /\ ~Writing' /\ ~Open'
    BY <2>2 DEF InSession, Writing, Open
  <2>4. flash'["config"] = ram
    BY <1>1, <1>2
  <2>5. Configs'
    BY <2>1, <2>2, <2>3, <2>4 DEF Configs, InSession, IsSettings, IsContent
  <2>6. Stored' = Draft
    BY <2>1, <2>3, <2>4, Left
  <2> QED  BY <2>1, <2>3, <2>5, <2>6, Closes
<1>3. CASE job.sector # "config"
  <2>1. ~Writing /\ ~Open
    BY <1>1, <1>3, WhoWrites
  <2>2. flash'["config"] = flash["config"]
    BY <1>1, <1>3 DEF Sector
  <2>3. CASE job.sector = "sequencer0"
    <3>1. /\ use' = "sequencer"
          /\ job' = [job EXCEPT !.sector = "sequencer1", !.held = flash["sequencer1"]]
      BY <1>1, <2>3 DEF AfterWrite, Take
    <3>2. job'.sector = "sequencer1"
      BY <3>1 DEF IInv, Shape
    <3>3. ~Writing'
      BY <3>2 DEF Writing
    <3> QED  BY <2>1, <2>2, <3>1, <3>3, OthersMap
  <2>4. CASE job.sector \in {"sequencer1", "rboot"}
    <3>1. use' = "free" /\ pc' = "idle"
      BY <1>1, <2>4 DEF AfterWrite, Release, Done, Idle
    <3>2. ~Writing'
      BY <3>1 DEF Writing
    <3> QED  BY <2>1, <2>2, <3>1, <3>2, OthersMap
  <2> QED  BY <1>1, <1>3, <2>3, <2>4 DEF Sector
<1> QED  BY <1>2, <1>3

\* A rewrite that is cut short, and a restart.
LEMMA CutShortMaps ==
  ASSUME IInv, Configs,
         EraseFails \/ WriteFails \/ ReadFails \/ PowerLoss \/ Overrun
  PROVE  Configs' /\ StoreStep
<1>1. use' = "free" /\ pc' = "idle"
  BY DEF EraseFails, WriteFails, ReadFails, Fail, PowerLoss, Overrun, Restart,
         Release, Done, Idle
<1>2. ~InSession' /\ ~Writing' /\ ~Open'
  BY <1>1 DEF InSession, Writing, Open
<1>3. DOMAIN flash = Sector
  BY DEF IInv, Shape
<1>4. CASE flash'["config"] = flash["config"] /\ pc # "write"
  <2>1. Configs'
    BY <1>1, <1>2, <1>4 DEF Configs, IsSettings, IsContent
  <2> QED  BY <1>2, <1>4, <2>1, Quiet, Forgets
<1>5. ASSUME NEW c \in Torn(ram), pc \in {"erase", "write"},
             flash' = [flash EXCEPT ![job.sector] = c]
      PROVE  Configs' /\ StoreStep
  <2>1. CASE job.sector = "config"
    <3>1. /\ Open /\ IsSettings(ram) /\ ram.end # "nul" /\ Draft = Settings(Loaded(ram))
      BY <1>5, <2>1, WhoWrites
    <3>2. flash'["config"] = c
      BY <1>3, <1>5, <2>1 DEF Sector
    <3>3. /\ IsSettings(c) /\ c.end # "nul"
          /\ Settings(Loaded(c)) \in Store!Remains(Draft)
      BY <3>1, TornSettings
    <3>4. Configs'
      BY <1>1, <1>2, <3>2, <3>3 DEF Configs, IsSettings, IsContent
    <3>5. Stored' \in Store!Remains(Draft)
      BY <1>2, <3>2, <3>3, Left
    <3> QED  BY <1>2, <3>1, <3>4, <3>5, Damages
  <2>2. CASE job.sector # "config"
    <3>1. ~Open
      BY <1>5, <2>2, WhoWrites
    <3>2. flash'["config"] = flash["config"]
      BY <1>5, <2>2
    <3> QED  BY <1>1, <1>2, <3>1, <3>2, OthersMap
  <2> QED  BY <2>1, <2>2
<1>6. CASE EraseFails
  <2>1. PICK c \in {Erased, flash[job.sector]} : flash' = [flash EXCEPT ![job.sector] = c]
    BY <1>6 DEF EraseFails
  <2>2. pc = "erase"
    BY <1>6 DEF EraseFails
  <2>3. CASE c = Erased
    <3>1. Erased \in Torn(ram)
      BY DEF Torn
    <3> QED  BY <1>5, <2>1, <2>2, <2>3, <3>1
  <2>4. CASE c = flash[job.sector]
    <3>1. flash'["config"] = flash["config"]
      BY <1>3, <2>1, <2>4 DEF Sector
    <3> QED  BY <1>4, <2>2, <3>1
  <2> QED  BY <2>1, <2>3, <2>4
<1>7. CASE WriteFails
  <2>1. pc = "write" /\ \E c \in Torn(ram) : flash' = [flash EXCEPT ![job.sector] = c]
    BY <1>7 DEF WriteFails
  <2> QED  BY <1>5, <2>1
<1>8. CASE ReadFails
  <2>1. pc = "erase" /\ flash' = flash
    BY <1>8 DEF ReadFails
  <2> QED  BY <1>4, <2>1
<1>9. CASE PowerLoss
  <2>1. \/ pc # "write" /\ flash' = flash
        \/ pc = "write" /\ \E c \in Torn(ram) : flash' = [flash EXCEPT ![job.sector] = c]
    BY <1>9 DEF PowerLoss, Restart
  <2> QED  BY <1>4, <1>5, <2>1
<1>10. CASE Overrun
  <2>1. pc = "session" /\ flash' = flash
    BY <1>10 DEF Overrun, Restart
  <2> QED  BY <1>4, <2>1
<1> QED  BY <1>6, <1>7, <1>8, <1>9, <1>10
-----------------------------------------------------------------------------
LEMMA StepMaps == IInv /\ Configs /\ [Next]_vars => Configs' /\ StoreStep
<1> SUFFICES ASSUME IInv, Configs, [Next]_vars PROVE Configs' /\ StoreStep
  OBVIOUS
<1>1. CASE UNCHANGED vars
  <2>1. UNCHANGED <<buffer, flash, pc, job, old>>
    BY <1>1 DEF vars, steps, history
  <2> QED  BY <2>1, UnchangedMaps
<1>2. CASE config_get_string \/ config_abort_write \/ config_close_write \/ ReopenAp
  BY <1>2, GetMaps, AbortMaps, CloseMaps, ReopenMaps
<1>3. CASE \E c \in Caller : config_open_write(c)
  BY <1>3, OpenMaps
<1>4. CASE \E n \in Name, v \in Value : config_set_string(n, v)
  BY <1>4, SetMaps
<1>5. CASE \E names \in (SUBSET Name) \ {{}} : config_delete(names)
  BY <1>5, DeleteMaps
<1>6. CASE \/ rboot_if_write_config
           \/ \E i \in Slot \cup {0}, v \in Entry \cup {Absent} : UpdateSequencer(i, v)
  BY <1>6, UserMaps
<1>7. CASE display_load_picture_slot \/ display_picture_load_worker
  BY <1>7, PictureMaps
<1>8. CASE Erase \/ Write
  BY <1>8, EraseMaps, WriteMaps
<1>9. CASE EraseFails \/ WriteFails \/ ReadFails \/ PowerLoss \/ Overrun
  BY <1>9, CutShortMaps
<1> QED  BY <1>1, <1>2, <1>3, <1>4, <1>5, <1>6, <1>7, <1>8, <1>9, Steps DEF OtherAction

LEMMA ConfigsAtStart == Init => Configs /\ Store!Init
<1> SUFFICES ASSUME Init PROVE Configs /\ Store!Init
  OBVIOUS
<1>1. /\ flash["config"] = EmptyConfig /\ use = "free" /\ pc = "idle"
  BY DEF Init, Sector
<1>2. IsSettings(EmptyConfig) /\ EmptyConfig.end # "nul"
  BY DEF IsSettings, IsContent, EmptyConfig
<1>3. ~InSession /\ ~Writing /\ ~Open
  BY <1>1 DEF InSession, Writing, Open
<1>4. Configs
  BY <1>1, <1>2, <1>3 DEF Configs, IsSettings, IsContent
<1>5. Stored = Draft /\ Stored = Settings(Loaded(EmptyConfig))
  BY <1>1, <1>3, StoreStates DEF Kept
<1>6. Stored \in Store!Settings
  BY <1>2, <1>5, SettingsType
<1>7. Open = FALSE
  BY <1>3, StoreStates
<1> QED  BY <1>4, <1>5, <1>6, <1>7 DEF Store!Init

(* The configuration is the abstract one of ConfigStore, whatever else     *)
(* uses the buffer and whatever fails: a session takes effect as a whole   *)
(* when it is closed or not at all, and only a write that is cut short     *)
(* leaves less than either (config.c).                                     *)
THEOREM ConfigRefines == Spec => ImplementsConfigStore
<1>1. IInv /\ Configs /\ [Next]_vars => Configs'
  BY StepMaps
<1>2. IInv /\ Configs /\ [Next]_vars => [Store!Next]_(Store!vars)
  BY StepMaps DEF StoreStep
<1> QED  BY Initially, StepKeeps, ConfigsAtStart, <1>1, <1>2, PTL
         DEF Spec, ImplementsConfigStore, Store!Spec

(* A setting that is set is found with its new value, in front of any      *)
(* other, and the others are what they were, unless it does not fit.       *)
THEOREM SettingIsSet == Spec => SetsWhatIsAsked
<1>1. ASSUME Configs, pc' = "session" /\ ram.magic /\ ram.end = "line",
             NEW n \in Name, NEW v \in Value, config_set_string(n, v)
      PROVE  \/ Settings(ram') = [Settings(ram) EXCEPT ![n] = v]
             \/ ram'.end = "nul"
  <2>1. InSession /\ ram' = With(ram, n, v)
    BY <1>1 DEF config_set_string, Take
  <2>2. IsSettings(ram)
    BY <1>1, <2>1 DEF Configs
  <2> QED  BY <1>1, <2>1, <2>2, SettingsWith DEF IsSettings
<1>2. Configs =>
        [pc' = "session" /\ ram.magic /\ ram.end = "line" =>
           \A n \in Name, v \in Value : config_set_string(n, v) =>
             \/ Settings(ram') = [Settings(ram) EXCEPT ![n] = v]
             \/ ram'.end = "nul"]_vars
  BY <1>1
<1>3. IInv /\ Configs /\ [Next]_vars => Configs'
  BY StepMaps
<1> QED  BY Initially, StepKeeps, ConfigsAtStart, <1>2, <1>3, PTL
         DEF Spec, SetsWhatIsAsked

(* Both: a rewrite has the effect it was asked for and no other.           *)
THEOREM RewritesAreExact == Spec => RewritesExactly
  BY OtherEntriesKept, SettingIsSet, PTL DEF RewritesExactly
=============================================================================
