------------------------- MODULE KustomerDumpProofs -------------------------
(***************************************************************************)
(* Proofs about kustomer-dump: what -watch prints is fetched and goes      *)
(* forward.  They use of the instance no more than module Instance says,   *)
(* which module KustomerRefines proves of the goroutines.                  *)
(***************************************************************************)
EXTENDS KustomerDump, TLAPS

(* Main's own steps, without those that concern a printed or awaited update. *)
Steps == WaitUntilReady \/ Timeout \/ Signal \/ Forget \/ Return

-----------------------------------------------------------------------------
(* Types. *)

LEMMA DumpTypeInit == DumpInit => DumpTypeOK
<1> SUFFICES ASSUME DumpInit PROVE InstanceTypeOK /\ ToolTypeOK
  BY DEF DumpTypeOK
<1>1. InstanceTypeOK
  <2>1. kpc \in [gen : 0..1, version : 0..MaxVersion]
    BY DumpAssumption DEF DumpInit, Init
  <2>2. updated \in Nat /\ gen \in 0..1
    BY DEF DumpInit, Init
  <2>3. /\ autoRefresh \in BOOLEAN /\ initialized \in BOOLEAN /\ fetched \subseteq Gens
        /\ ctxDone \in [Gens -> BOOLEAN] /\ readyClosed \in [Gens -> BOOLEAN]
    BY DEF DumpInit, Init
  <2> QED
    BY <2>1, <2>2, <2>3 DEF InstanceTypeOK
<1>2. ToolTypeOK
  BY DumpAssumption DEF DumpInit, Init, ToolTypeOK
<1> QED
  BY <1>1, <1>2

LEMMA DumpTypeStep == DumpTypeOK /\ [DumpNext]_dumpVars => DumpTypeOK'
<1> SUFFICES ASSUME DumpTypeOK, [DumpNext]_dumpVars
             PROVE  InstanceTypeOK' /\ ToolTypeOK'
  BY DEF DumpTypeOK
<1> USE DumpAssumption DEF DumpTypeOK, tool, vars
<1>1. CASE UNCHANGED dumpVars
  BY <1>1 DEF dumpVars, InstanceTypeOK, ToolTypeOK
<1>2. CASE Start
  <2>1. gen' \in 0..1
    BY <1>2 DEF Start, Initialize, InstanceTypeOK
  <2>2. /\ main' = (IF watch THEN "first" ELSE "wait")
        /\ notify' = (IF watch THEN "top" ELSE "none")
        /\ UNCHANGED <<autoRefresh, kpc, updated, ctxDone, readyClosed, fetched>>
        /\ UNCHANGED <<watch, seen, printer, shown, cause>>
        /\ initialized' = TRUE
    BY <1>2 DEF Start, Initialize
  <2> QED
    BY <2>1, <2>2 DEF InstanceTypeOK, ToolTypeOK
<1>3. CASE Steps
  BY <1>3 DEF Steps, WaitUntilReady, Timeout, Signal, Forget, Return,
              InstanceTypeOK, ToolTypeOK
<1>4. CASE Exit
  BY <1>4 DEF Exit, Uninitialize, InstanceTypeOK, ToolTypeOK
<1>5. CASE FirstUpdate \/ PrinterReceive
  BY <1>5 DEF FirstUpdate, PrinterReceive, InstanceTypeOK, ToolTypeOK
<1>6. CASE Dump \/ PrinterDump
  <2>1. Printed \in 0..MaxVersion
    BY DEF Printed, InstanceTypeOK
  <2>2. shown' = shown \/ shown' = Append(shown, Printed)
    BY <1>6 DEF Dump, PrinterDump
  <2>3. shown' \in Seq(0..MaxVersion)
    <3> DEFINE S == 0..MaxVersion
    <3>1. Printed \in S /\ shown \in Seq(S)
      BY <2>1 DEF ToolTypeOK
    <3> HIDE DEF S
    <3>2. shown' \in Seq(S)
      BY <3>1, <2>2
    <3> QED
      BY <3>2 DEF S
  <2> QED
    BY <1>6, <2>3 DEF Dump, AfterDump, PrinterDump, InstanceTypeOK, ToolTypeOK
<1>7. CASE Notify
  BY <1>7 DEF Notify, NotifyTop, NotifySelect, InstanceTypeOK, ToolTypeOK
<1>8. CASE Update
  <2>1. PICK g \in Gens : Publish(g) /\ UNCHANGED tool
    BY <1>8 DEF Update
  <2>2. g = 1
    BY <2>1 DEF Gens
  <2> QED
    BY <2>1, <2>2 DEF Publish, Versions, InstanceTypeOK, ToolTypeOK
<1>9. CASE Announce
  BY <1>9 DEF Announce, SignalReady, InstanceTypeOK, ToolTypeOK
<1> QED
  BY <1>1, <1>2, <1>3, <1>4, <1>5, <1>6, <1>7, <1>8, <1>9
  DEF DumpNext, Main, Printer, Steps

(* Every variable of kustomer-dump keeps its type, its NotifyWhenUpdated waits on a
   channel that k.updated has held, and without -watch it starts no goroutine and
   waits for no signal (main.go:22-29, 92-129). *)
THEOREM DumpTypeCorrect == DumpSpec => []DumpTypeOK
<1> QED
  BY DumpTypeInit, DumpTypeStep, PTL DEF DumpSpec

-----------------------------------------------------------------------------
(* Order of what is printed. *)

Fetched == kpc.gen = 1 /\ kpc.version > 0

\* Claims are there before anybody is told of them.
AwaitInv ==
  /\ kpc.gen = 0 => kpc.version = 0
  /\ updated > 0 \/ fetched # {} => Fetched
  /\ \A g \in Gens : readyClosed[g] => g \in fetched
  /\ gen = 0 => main = "start"
  /\ main = "dump" \/ notify = "send" \/ printer = "dump" => Fetched

ShownInv ==
  /\ \A i \in DOMAIN shown : shown[i] <= kpc.version
  /\ ShownInOrder

LEMMA ShownInit == DumpInit => AwaitInv /\ ShownInv
<1> SUFFICES ASSUME DumpInit PROVE AwaitInv /\ ShownInv
  OBVIOUS
<1>1. AwaitInv
  BY DEF DumpInit, Init, AwaitInv
<1>2. shown = <<>> /\ DOMAIN shown = {}
  BY DEF DumpInit
<1>3. ShownInv
  BY <1>2 DEF ShownInv, ShownInOrder
<1> QED
  BY <1>1, <1>3

LEMMA AwaitStep ==
  DumpTypeOK /\ AwaitInv /\ [DumpNext]_dumpVars => AwaitInv'
<1> SUFFICES ASSUME DumpTypeOK, AwaitInv, [DumpNext]_dumpVars
             PROVE  AwaitInv'
  OBVIOUS
<1> USE DumpAssumption DEF DumpTypeOK, InstanceTypeOK, ToolTypeOK, tool, vars,
        AwaitInv, Fetched
<1>1. CASE UNCHANGED dumpVars
  BY <1>1 DEF dumpVars
<1>2. CASE Start
  <2>1. gen' > 0 /\ main' # "start" /\ main' # "dump" /\ notify' # "send"
    BY <1>2 DEF Start, Initialize
  <2>2. UNCHANGED <<kpc, updated, readyClosed, fetched, printer>>
    BY <1>2 DEF Start, Initialize
  <2> QED
    BY <2>1, <2>2
<1>3. CASE WaitUntilReady
  <2>1. gen = 1
    BY <1>3 DEF WaitUntilReady
  <2>2. 1 \in Gens
    BY DEF Gens
  <2>3. Fetched
    BY <1>3, <2>1, <2>2 DEF WaitUntilReady, Ready
  <2> QED
    BY <1>3, <2>3 DEF WaitUntilReady
<1>4. CASE Timeout \/ Signal \/ Forget \/ Return
  BY <1>4 DEF Timeout, Signal, Forget, Return
<1>5. CASE Exit
  BY <1>5 DEF Exit, Uninitialize
<1>6. CASE FirstUpdate \/ PrinterReceive
  BY <1>6 DEF FirstUpdate, PrinterReceive
<1>7. CASE Dump \/ PrinterDump
  BY <1>7 DEF Dump, AfterDump, PrinterDump
<1>8. CASE NotifyTop
  BY <1>8 DEF NotifyTop
<1>9. CASE NotifySelect
  BY <1>9 DEF NotifySelect
<1>10. CASE Update
  <2>1. PICK g \in Gens : Publish(g) /\ UNCHANGED tool
    BY <1>10 DEF Update
  <2>2. g = 1
    BY <2>1 DEF Gens
  <2> QED
    BY <2>1, <2>2 DEF Publish, Versions
<1>11. CASE Announce
  <2>1. PICK g \in Gens : SignalReady(g) /\ UNCHANGED tool
    BY <1>11 DEF Announce
  <2> QED
    BY <2>1 DEF SignalReady
<1> QED
  BY <1>1, <1>2, <1>3, <1>4, <1>5, <1>6, <1>7, <1>8, <1>9, <1>10, <1>11
  DEF DumpNext, Main, Notify, Printer

\* Versions never go back, since there is one generation.
LEMMA VersionStep ==
  ASSUME DumpTypeOK, AwaitInv, [DumpNext]_dumpVars
  PROVE  kpc.version <= kpc'.version
<1> USE DumpAssumption DEF DumpTypeOK, InstanceTypeOK, tool, vars
<1>1. CASE Update
  <2>1. PICK g \in Gens : Publish(g)
    BY <1>1 DEF Update
  <2>2. g = 1
    BY <2>1 DEF Gens
  <2> QED
    BY <2>1, <2>2 DEF Publish, Versions, AwaitInv
<1>2. CASE ~Update
  <2>1. kpc' = kpc
    BY <1>2 DEF dumpVars, DumpNext, Start, Initialize, Main, WaitUntilReady, FirstUpdate,
       Dump, Exit, Uninitialize, Forget, Return, Timeout, Signal, Notify, NotifyTop,
       NotifySelect, Printer, PrinterReceive, PrinterDump, Announce, SignalReady
  <2> QED
    BY <2>1
<1> QED
  BY <1>1, <1>2

LEMMA ShownStep ==
  DumpTypeOK /\ AwaitInv /\ ShownInv /\ [DumpNext]_dumpVars => ShownInv'
<1> SUFFICES ASSUME DumpTypeOK, AwaitInv, ShownInv, [DumpNext]_dumpVars
             PROVE  ShownInv'
  OBVIOUS
<1>1. /\ kpc.version \in Nat /\ kpc'.version \in Nat
      /\ kpc.version <= kpc'.version
  BY VersionStep, DumpTypeStep, DumpAssumption DEF DumpTypeOK, InstanceTypeOK
<1>2. shown \in Seq(Nat)
  BY DumpAssumption DEF DumpTypeOK, ToolTypeOK
<1>3. CASE shown' = Append(shown, kpc.version) /\ kpc.version > 0 /\ kpc' = kpc
  <2>1. /\ Len(shown') = Len(shown) + 1
        /\ shown'[Len(shown) + 1] = kpc.version
        /\ \A i \in 1..Len(shown) : shown'[i] = shown[i] /\ shown[i] \in Nat
        /\ DOMAIN shown = 1..Len(shown) /\ DOMAIN shown' = 1..(Len(shown) + 1)
        /\ Len(shown) \in Nat
    BY <1>2, <1>3, <1>1
  <2>2. ASSUME NEW i \in DOMAIN shown'
        PROVE  shown'[i] \in Nat /\ 0 < shown'[i] /\ shown'[i] <= kpc.version
    <3>1. CASE i = Len(shown) + 1
      BY <3>1, <2>1, <1>1, <1>3
    <3>2. CASE i \in 1..Len(shown)
      <4>1. i \in DOMAIN shown /\ shown'[i] = shown[i] /\ shown[i] \in Nat /\ i <= i
        BY <3>2, <2>1
      <4>2. 0 < shown[i] /\ shown[i] <= kpc.version
        BY <4>1 DEF ShownInv, ShownInOrder
      <4> QED
        BY <4>1, <4>2
    <3> QED
      BY <2>2, <2>1, <3>1, <3>2
  <2>3. ASSUME NEW i \in DOMAIN shown', NEW j \in DOMAIN shown', i <= j
        PROVE  shown'[i] <= shown'[j]
    <3>1. CASE j = Len(shown) + 1
      BY <3>1, <2>1, <2>2
    <3>2. CASE j \in 1..Len(shown)
      <4>1. i \in DOMAIN shown /\ j \in DOMAIN shown
        BY <2>3, <3>2, <2>1
      <4> QED
        BY <4>1, <2>1, <2>3 DEF ShownInv, ShownInOrder
    <3> QED
      BY <2>3, <2>1, <3>1, <3>2
  <2> QED
    BY <2>2, <2>3, <1>3 DEF ShownInv, ShownInOrder
<1>4. CASE shown' = shown
  <2>1. \A i \in DOMAIN shown : shown[i] \in Nat
    BY <1>2
  <2> QED
    BY <1>1, <1>4, <2>1 DEF ShownInv, ShownInOrder
<1>5. shown' = shown
        \/ (shown' = Append(shown, kpc.version) /\ kpc.version > 0 /\ kpc' = kpc)
  <2> USE DEF tool, vars
  <2>1. CASE Dump \/ PrinterDump
    BY <2>1 DEF Dump, PrinterDump, Printed, AwaitInv, Fetched
  <2>2. CASE ~(Dump \/ PrinterDump)
    BY <2>2 DEF dumpVars, DumpNext, Start, Main, WaitUntilReady, FirstUpdate, Exit,
       Forget, Return, Timeout, Signal, Notify, NotifyTop, NotifySelect, Printer,
       PrinterReceive, Announce, Update
  <2> QED
    BY <2>1, <2>2
<1> QED
  BY <1>3, <1>4, <1>5

(* What kustomer-dump prints was fetched and never goes back to older claims,
   however updates and prints interleave (main.go:59-72, 101-119). *)
THEOREM PrintedInOrder == DumpSpec => []ShownInOrder
<1>1. DumpInit => DumpTypeOK /\ AwaitInv /\ ShownInv
  BY DumpTypeInit, ShownInit
<1>2. DumpTypeOK /\ AwaitInv /\ ShownInv /\ [DumpNext]_dumpVars
        => (DumpTypeOK /\ AwaitInv /\ ShownInv)'
  BY DumpTypeStep, AwaitStep, ShownStep
<1>3. DumpTypeOK /\ AwaitInv /\ ShownInv => ShownInOrder
  BY DEF ShownInv
<1> QED
  BY <1>1, <1>2, <1>3, PTL DEF DumpSpec

=============================================================================
