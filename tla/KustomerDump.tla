---------------------------- MODULE KustomerDump ----------------------------
(***************************************************************************)
(* The command line tool kustomer-dump (cmd/kustomer-dump/main.go) with an *)
(* instance of its own, of which it knows what module Instance promises:   *)
(* the tool and the instance are composed by EXTENDS.  The tool prints the *)
(* product claims once, or with -watch after every update until a signal.  *)
(*                                                                         *)
(* Three goroutines: main, the one that runs NotifyWhenUpdated, and the    *)
(* one that prints updates.  updateCh has no capacity, so that a send and  *)
(* its receive are one step.  The context is context.Background: only      *)
(* Uninitialize ends NotifyWhenUpdated, after main has stopped listening   *)
(* to errCh, on which its goroutine then stays blocked.                    *)
(*                                                                         *)
(* A mistake one could make stands before the correct form: DumpAtOnce,    *)
(* PrintFirst, SignalAlways.                                               *)
(***************************************************************************)
EXTENDS Instance, Sequences

CONSTANT MaxUpdates \* bound: publications of the instance

ASSUME DumpAssumption == MaxInit = 1 /\ MaxVersion \in Nat /\ MaxUpdates \in Nat

VARIABLES
  watch,   \* the flag -watch
  main,    \* where main is
  notify,  \* where the goroutine of NotifyWhenUpdated is
  seen,    \* the channel that it has read from k.updated
  printer, \* where the goroutine that prints updates is
  shown,   \* the versions printed so far
  cause    \* why the process ends, if not regularly

tool == <<watch, main, notify, seen, printer, shown, cause>>
dumpVars == <<vars, tool>>

DumpInit ==
  /\ Init
  /\ autoRefresh = TRUE
  /\ watch \in BOOLEAN
  /\ main = "start"
  /\ notify = "none"
  /\ seen = 0
  /\ printer = "none"
  /\ shown = <<>>
  /\ cause = "none"

-----------------------------------------------------------------------------
(* main *)

\* initialize; with -watch a goroutine is started before the wait
Start ==
  /\ main = "start"
  /\ Initialize
  /\ main' = IF watch THEN "first" ELSE "wait"
  /\ notify' = IF watch THEN "top" ELSE "none"
  /\ UNCHANGED <<watch, seen, printer, shown, cause>>

\* WaitUntilReady(timeoutCtx); the context of the instance is not done here
DumpAtOnce == TRUE
Ready == readyClosed[gen]

WaitUntilReady ==
  /\ main = "wait"
  /\ Ready
  /\ main' = "dump"
  /\ UNCHANGED <<vars, watch, notify, seen, printer, shown, cause>>

\* <-updateCh
FirstUpdate ==
  /\ main = "first"
  /\ notify = "send"
  /\ main' = "dump"
  /\ notify' = "top"
  /\ UNCHANGED <<vars, watch, seen, printer, shown, cause>>

\* The 30 seconds are over: main panics, which runs the deferred calls.
Timeout ==
  /\ main \in {"wait", "first"}
  /\ main' = "exit"
  /\ cause' = "timeout"
  /\ UNCHANGED <<vars, watch, notify, seen, printer, shown>>

PrintFirst == IF shown = <<>> THEN kpc.version ELSE shown[1]
Printed == kpc.version

\* Only -watch waits for a signal.
SignalAlways == "signal"
AfterDump == IF watch THEN "signal" ELSE "exit"

Dump ==
  /\ main = "dump"
  /\ shown' = Append(shown, Printed)
  /\ main' = AfterDump
  /\ printer' = IF watch THEN "range" ELSE "none"
  /\ UNCHANGED <<vars, watch, notify, seen, cause>>

\* <-signalCh
Signal ==
  /\ main = "signal"
  /\ main' = "exit"
  /\ UNCHANGED <<vars, watch, notify, seen, printer, shown, cause>>

\* uninitialize: instance.Uninitialize(), then instance = nil; then the process ends.
Exit ==
  /\ main = "exit"
  /\ Uninitialize
  /\ main' = "uninitialized"
  /\ UNCHANGED <<watch, notify, seen, printer, shown, cause>>

Forget ==
  /\ main = "uninitialized"
  /\ main' = "nil"
  /\ UNCHANGED <<vars, watch, notify, seen, printer, shown, cause>>

Return ==
  /\ main = "nil"
  /\ main' = "ended"
  /\ UNCHANGED <<vars, watch, notify, seen, printer, shown, cause>>

-----------------------------------------------------------------------------
(* The goroutines that -watch starts. *)

\* The goroutine's own look at `instance` is not told apart: it finds nil only when
\* main is on its way out with a panic.
NotifyTop ==
  /\ notify = "top"
  /\ IF initialized
       THEN notify' = "select" /\ seen' = updated
       ELSE notify' = "error" /\ UNCHANGED seen
  /\ UNCHANGED <<vars, watch, main, printer, shown, cause>>

NotifySelect ==
  /\ notify = "select"
  /\ \/ updated # seen /\ notify' = "send"
     \/ ctxDone[gen] /\ notify' = "error"
  /\ UNCHANGED <<vars, watch, main, seen, printer, shown, cause>>

\* range updateCh
PrinterReceive ==
  /\ printer = "range"
  /\ notify = "send"
  /\ notify' = "top"
  /\ printer' = "dump"
  /\ UNCHANGED <<vars, watch, main, seen, shown, cause>>

\* dump reads the variable `instance`, which main may have set to nil.
PrinterDump ==
  /\ printer = "dump"
  /\ IF main = "nil"
       THEN /\ cause' = "crash"
            /\ main' = "ended"
            /\ UNCHANGED <<printer, shown>>
       ELSE /\ shown' = Append(shown, Printed)
            /\ printer' = "range"
            /\ UNCHANGED <<main, cause>>
  /\ UNCHANGED <<vars, watch, notify, seen>>

-----------------------------------------------------------------------------
Update == \E g \in Gens : updated < MaxUpdates /\ Publish(g) /\ UNCHANGED tool
Announce == \E g \in Gens : SignalReady(g) /\ UNCHANGED tool

Main == WaitUntilReady \/ FirstUpdate \/ Dump \/ Exit \/ Forget \/ Return
Notify == NotifyTop \/ NotifySelect
Printer == PrinterReceive \/ PrinterDump

DumpNext ==
  /\ main # "ended"
  /\ \/ Start \/ Main \/ Timeout \/ Signal
     \/ Notify \/ Printer
     \/ Update \/ Announce

DumpSpec == DumpInit /\ [][DumpNext]_dumpVars

\* Goroutines that can go on do so; the timer, the signal and what the instance
\* publishes are under no obligation.
FairDumpSpec ==
  /\ DumpSpec
  /\ WF_dumpVars(main # "ended" /\ Main)
  /\ WF_dumpVars(main # "ended" /\ Notify)
  /\ WF_dumpVars(main # "ended" /\ Printer)

-----------------------------------------------------------------------------
(* Properties. *)

InstanceTypeOK ==
  /\ autoRefresh \in BOOLEAN
  /\ initialized \in BOOLEAN
  /\ gen \in 0..1
  /\ kpc \in [gen : 0..1, version : 0..MaxVersion]
  /\ updated \in Nat
  /\ ctxDone \in [Gens -> BOOLEAN]
  /\ readyClosed \in [Gens -> BOOLEAN]
  /\ fetched \subseteq Gens

ToolTypeOK ==
  /\ watch \in BOOLEAN
  /\ main \in {"start", "wait", "first", "dump", "signal", "exit",
               "uninitialized", "nil", "ended"}
  /\ notify \in {"none", "top", "select", "send", "error"}
  /\ seen \in 0..updated
  /\ printer \in {"none", "range", "dump"}
  /\ shown \in Seq(0..MaxVersion)
  /\ cause \in {"none", "timeout", "crash"}
  /\ ~watch => main \notin {"first", "signal"} /\ notify = "none" /\ printer = "none"

\* Every variable has its type, the instance is initialized once, the channel that
\* NotifyWhenUpdated waits on is one that k.updated has held, and without -watch the
\* tool starts no goroutine and waits for no signal (main.go:22-29, 92-129).
DumpTypeOK == InstanceTypeOK /\ ToolTypeOK

\* What is printed was fetched, never the empty claims of a new instance, and
\* goes forward: whoever reads the output of -watch ends up with the newest
\* claims that were printed (main.go:59-72, 101-119).
ShownInOrder ==
  \A i, j \in DOMAIN shown : i <= j => 0 < shown[i] /\ shown[i] <= shown[j]

Ending == main \in {"exit", "uninitialized", "nil", "ended"}

\* An update that NotifyWhenUpdated was waiting for is printed, unless the tool
\* ends (main.go:95-113, kustomer.go:367-369).
UpdatesAreShown ==
  \A v \in Versions :
    (notify \in {"select", "send"} /\ updated # seen /\ kpc.version >= v)
      ~> ((\E i \in DOMAIN shown : shown[i] >= v) \/ Ending)

=============================================================================
