------------------------------ MODULE Shutdown ------------------------------
(***************************************************************************)
(* pulley's process lifetime after start-up (src/pulley/src/main.rs,       *)
(* src/pulley/src/lib.rs DylibStore).  DylibStore::new makes a temporary   *)
(* directory (temp_path); load_dylib_nfs unpacks every user-space NF into  *)
(* a second one (elf_path).  One thread per core, and in ExtraThread mode  *)
(* a disposal thread, each hold a reader of a broadcast bus.  On ctrl-c    *)
(* main broadcasts, removes temp_path and returns, which ends the process  *)
(* and every thread still in it.                                           *)
(***************************************************************************)
EXTENDS Naturals, FiniteSets

CONSTANTS
  MaxCores,  \* the largest xdp_cores
  Extra      \* the disposal thread of ExtraThread mode

VARIABLES
  cores,     \* xdp_cores
  extra,     \* umem_mode = ExtraThread
  main,      \* "serving", "broadcast" (sent), "cleaned" (cleanup done), "exited"
  inbox,     \* inbox[t]: the broadcast is waiting in t's bus reader
  running,   \* the threads still in their loop
  tempDir,   \* temp_path: "present" or "removed"
  elfDir     \* elf_path, holding the unpacked dylibs

vars == <<cores, extra, main, inbox, running, tempDir, elfDir>>

\* The threads main spawned: one per core, and the disposal thread.
Threads(n, x) == (0 .. n - 1) \cup (IF x THEN {Extra} ELSE {})

Init ==
  /\ cores \in 1 .. MaxCores
  /\ extra \in BOOLEAN
  /\ main = "serving"
  /\ inbox = [t \in Threads(cores, extra) |-> FALSE]
  /\ running = Threads(cores, extra)
  /\ tempDir = "present"
  /\ elfDir = "present"

\* The top of a core loop: kill_rx.try_recv() is Ok (or Disconnected).
CoreCheck(t) ==
  /\ main # "exited"
  /\ t \in running \ {Extra}
  /\ inbox[t]
  /\ inbox' = [inbox EXCEPT ![t] = FALSE]
  /\ running' = running \ {t}
  /\ UNCHANGED <<cores, extra, main, tempDir, elfDir>>

\* The end of a disposal-thread pass: rx.try_recv().is_ok().
ExtraCheck ==
  /\ main # "exited"
  /\ Extra \in running
  /\ inbox[Extra]
  /\ inbox' = [inbox EXCEPT ![Extra] = FALSE]
  /\ running' = running \ {Extra}
  /\ UNCHANGED <<cores, extra, main, tempDir, elfDir>>

\* ctrl_c() returns; bus.broadcast(()) reaches every reader.
CtrlC ==
  /\ main = "serving"
  /\ main' = "broadcast"
  /\ inbox' = [t \in DOMAIN inbox |-> TRUE]
  /\ UNCHANGED <<cores, extra, running, tempDir, elfDir>>

\* g_dylibs.cleanup(): remove_dir_all(temp_path).
Cleanup ==
  /\ main = "broadcast"
  /\ main' = "cleaned"
  /\ tempDir' = "removed"
  /\ UNCHANGED <<cores, extra, inbox, running, elfDir>>

\* main returns Ok(()): the process ends with whatever threads still run.
Exit ==
  /\ main = "cleaned"
  /\ main' = "exited"
  /\ UNCHANGED <<cores, extra, inbox, running, tempDir, elfDir>>

Next ==
  \/ \E t \in 0 .. cores - 1 : CoreCheck(t)
  \/ ExtraCheck
  \/ CtrlC
  \/ Cleanup
  \/ Exit

Spec == Init /\ [][Next]_vars

TypeOK ==
  /\ cores \in 1 .. MaxCores
  /\ extra \in BOOLEAN
  /\ main \in {"serving", "broadcast", "cleaned", "exited"}
  /\ inbox \in [Threads(cores, extra) -> BOOLEAN]
  /\ running \subseteq Threads(cores, extra)
  /\ tempDir \in {"present", "removed"}
  /\ elfDir \in {"present", "removed"}

\* Spec 4.I: once main has cleaned up, every dataplane and disposal thread
\* has left its loop (they were joined) and the directory the dylibs were
\* unpacked into has been removed (main.rs 193-200, lib.rs 484-505).
CleanShutdown ==
  main \in {"cleaned", "exited"} =>
    /\ running = {}
    /\ elfDir = "removed"

=============================================================================
