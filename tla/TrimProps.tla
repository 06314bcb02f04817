------------------------------ MODULE TrimProps ------------------------------
(* What a trimmed trace must be. *)
EXTENDS Trim

CmdSeqs == UNION {[1..n -> Buf \cup Cb] : n \in 0..MaxCmds}

Worlds == [
    mem : [Mem -> {"none", "idle", "mapped"}],
    for : [Mem -> Buf \cup {Nothing}],
    buf : [Buf -> {"none", "unbound", "lost"} \cup Mem],
    pool : SUBSET Pool,
    cb : [Cb -> [pool : Pool \cup {Nothing},
                 state : {"none", "initial", "recording", "executable", "invalid"},
                 cmds : CmdSeqs]]]

(* The parts of a tracker, its packet lists by their length: a recording is one
   vkBeginCommandBuffer, commands, one vkEndCommandBuffer. *)
IsTracker(t) ==
    /\ t.mem \in [Mem -> {"none", "idle", "mapped"}]
    /\ t.for \in [Mem -> Buf \cup {Nothing}]
    /\ t.buf \in [Buf -> {"none", "unbound"} \cup Mem]
    /\ t.pool \subseteq Pool
    /\ t.count \in [Pool -> [Levels -> 0..(CountModulus - 1)]]
    /\ t.cb \in [Cb -> Pool \cup {Nothing}]
    /\ \A c \in Cb : Len(t.packets[c]) <= MaxCmds + 2

(* The type of the state: every variable holds a value of its kind, and the packets
   kept of a command buffer are those of one recording (StateTracker). *)
TypeOK ==
    /\ opt \in Options
    /\ mode \in {"pre", "in", "post"}
    /\ app \in Worlds
    /\ IsTracker(tk) /\ IsTracker(snap)
    /\ marks.ref \subseteq Everything /\ marks.checked \subseteq Cb
    /\ Len(calls) <= MaxCalls
    /\ file.world \in Worlds

(* What the tracker says is what the application has, after any history of calls, before
   and in the range: the objects that exist, each in the state it is in, and every command
   buffer on its pool as long as that pool lives (remove_CommandPool_object).  A buffer
   whose memory is gone keeps it.  The counts that recreation and destruction take for the
   length of their arrays are those of the command buffers tracked. *)
TrackerAgrees == mode # "post" =>
    /\ tk.mem = app.mem /\ tk.for = app.for /\ tk.pool = app.pool
    /\ \A b \in Buf : IF app.buf[b] = "lost" THEN tk.buf[b] \in Mem ELSE tk.buf[b] = app.buf[b]
    /\ \A c \in Cb : tk.cb[c] = app.cb[c].pool
    /\ ~opt.mixed => \A p \in Pool, l \in Levels :
            tk.count[p][l] = Cardinality(TrackedCbs(tk, p, l))

(* A trimmed trace can be played: whatever the range begins with, every packet that
   start(), the interceptors and stop() write is a legal call where the replay gets to
   it, and a submission runs the commands that it ran for the application.  Post-
   processing may drop the beginning of a recording that the range does not submit
   (mark_CommandBuffer_reference); the rest of that recording is then in vain. *)
TraceIsLegal == file.failed \subseteq (IF opt.post THEN {"Cmd", "EndCommandBuffer"} ELSE {})

(* In the range the replay has exactly the objects of the application, as it has them:
   what start() recreates and what the interceptors write from then on add up to the
   state that the application's own calls made (write_all_referenced_object_calls).
   Command buffers that the application must record anew may differ in what they hold. *)
StateAgrees == mode = "in" /\ ~opt.post =>
    /\ file.world.mem = app.mem
    /\ file.world.for = app.for
    /\ file.world.buf = app.buf
    /\ file.world.pool = app.pool
    /\ \A c \in Cb : IF c \in Dead THEN file.world.cb[c].pool = app.cb[c].pool
                     ELSE file.world.cb[c] = app.cb[c]

(* The trace destroys all that it creates: when stop() returns, no object of the replay
   is left (write_destroy_packets), although the application keeps its own. *)
NothingLeft == mode = "post" => file.world = NoObjects
==============================================================================
