---------------------------- MODULE AddonProofs -----------------------------
(***************************************************************************)
(* Proofs about module AddonLoader, for every set of hosts and versions,   *)
(* whatever is on disk and whatever require makes of it.                   *)
(***************************************************************************)
EXTENDS AddonLoader, SequenceTheorems, TLAPS

(* Every platform gives requireNative something to try, or to say.         *)
LEMMA PlanType ==
    ASSUME NEW h \in Targets, NEW musl \in BOOLEAN
    PROVE  Plan(h, musl) \in Seq(Candidates) /\ Plan(h, musl) # <<>>
<1>1. Unsupported \in Candidates
  BY LoaderAssumption DEF Unsupported, Wasm, Candidates, Targets
<1>2. ASSUME NEW t \in Targets
      PROVE  Both(t) \in Seq(Candidates) /\ Both(t) # <<>>
  <2>1. File(t) \in Candidates /\ Package(t) \in Candidates
    BY DEF File, Package, Candidates
  <2> QED
    BY <2>1 DEF Both
<1>3. ASSUME NEW archs
      PROVE  OneOf(h, archs) \in Seq(Candidates) /\ OneOf(h, archs) # <<>>
  BY <1>1, <1>2 DEF OneOf
<1>4. ASSUME NEW abi \in {"gnu", "musl", "msvc"}
      PROVE  With(h, abi) \in Targets
  BY LoaderAssumption DEF With, Targets
<1>5. Universal(h) \in Targets
  BY LoaderAssumption DEF Universal, Targets
<1>6. OnWindows(h) \in Seq(Candidates) /\ OnWindows(h) # <<>>
  <2>1. CASE h.arch = "x64"
    <3>1. OnWindows(h) = Both(With(h, IF h.abi = "gnu" THEN "gnu" ELSE "msvc"))
      BY <2>1 DEF OnWindows
    <3> QED
      BY <1>2, <1>4, <3>1
  <2>2. CASE h.arch \in {"ia32", "arm64"}
    <3>1. OnWindows(h) = Both(With(h, "msvc"))
      BY <2>2 DEF OnWindows
    <3> QED
      BY <1>2, <1>4, <3>1
  <2>3. CASE h.arch \notin {"x64", "ia32", "arm64"}
    <3>1. OnWindows(h) = <<Unsupported>>
      BY <2>3 DEF OnWindows
    <3> QED
      BY <1>1, <3>1
  <2> QED
    BY <2>1, <2>2, <2>3
<1>7. OnMac(h) \in Seq(Candidates) /\ OnMac(h) # <<>>
  <2>1. OneOf(h, {"x64", "arm64"}) \in Seq(Candidates)
    BY <1>3
  <2>2. Both(Universal(h)) \in Seq(Candidates) /\ Both(Universal(h)) # <<>>
    BY <1>2, <1>5
  <2> QED
    BY <2>1, <2>2 DEF OnMac
<1>8. OnLinux(h, musl) \in Seq(Candidates) /\ OnLinux(h, musl) # <<>>
  <2>1. CASE h.arch \in TwoLibcs
    <3>1. OnLinux(h, musl) = Both(With(h, IF musl THEN "musl" ELSE "gnu"))
      BY <2>1 DEF OnLinux, TwoLibcs
    <3> QED
      BY <1>2, <1>4, <3>1
  <2>2. CASE h.arch \in {"ppc64", "s390x"}
    <3>1. OnLinux(h, musl) = Both(With(h, "gnu"))
      BY <2>2 DEF OnLinux, TwoLibcs
    <3> QED
      BY <1>2, <1>4, <3>1
  <2>3. CASE h.arch \notin TwoLibcs /\ h.arch \notin {"ppc64", "s390x"}
    <3>1. OnLinux(h, musl) = <<Unsupported>>
      BY <2>3 DEF OnLinux
    <3> QED
      BY <1>1, <3>1
  <2> QED
    BY <2>1, <2>2, <2>3
<1> QED
  BY <1>1, <1>3, <1>6, <1>7, <1>8 DEF Plan, OnAndroid, OnFreeBSD, OnOpenHarmony

LEMMA WasmType == File(Wasm) \in Candidates /\ Package(Wasm) \in Candidates /\ AnyPath \in Candidates
BY LoaderAssumption DEF File, Package, AnyPath, Wasm, Candidates, Targets
-----------------------------------------------------------------------------
(* The inductive invariant.  While requireNative runs, loadErrors are the  *)
(* candidates it has been through; they are all of them when it has found  *)
(* nothing, and stay in front of what the WASI block adds.  That block     *)
(* leaves a binding alone, unless it is forced, and forced it has tried    *)
(* both of its candidates when it ends.                                    *)

WasmBindings == {File(Wasm), Package(Wasm)}

Tried(k) == k <= Len(errors) /\ \A j \in 1 .. k : errors[j] = plan[j]
PlanTried == next = Len(plan) + 1 /\ Tried(Len(plan))

DataInv ==
    /\ host \in Targets
    /\ force \in {"unset", "true", "error"}
    /\ pc \in {"detect", "native", "wasiFile", "wasiPackage", "end", "done"}
    /\ plan \in Seq(Candidates) /\ errors \in Seq(Candidates)
    /\ next \in 1 .. Len(plan) + 1
    /\ wasi \in BOOLEAN
    /\ binding \in {NoBinding} \cup Range(plan) \cup WasmBindings
    /\ wasi => binding \in WasmBindings

StartInv ==
    /\ pc = "detect" <=> plan = <<>>
    /\ pc = "detect" => next = 1 /\ errors = <<>> /\ binding = NoBinding /\ ~wasi

NativeInv ==
    pc = "native" => Len(errors) = next - 1 /\ Tried(next - 1) /\ binding = NoBinding /\ ~wasi

ErrorsInv ==
    /\ pc \in {"wasiFile", "wasiPackage"} => Len(errors) <= Len(plan)
    /\ pc \in {"end", "done"} => Len(errors) <= Len(plan) + 1
    /\ pc \notin {"detect", "native"} /\ (binding = NoBinding \/ (wasi /\ ~ForceWasi)) => PlanTried

WasiInv ==
    /\ pc = "wasiFile" => ~wasi
    /\ pc \in {"wasiFile", "wasiPackage"} /\ ~ForceWasi => binding = NoBinding
    /\ pc = "wasiPackage" /\ ~wasi => File(Wasm) \notin disk
    /\ pc \in {"end", "done"} /\ ForceWasi /\ ~wasi => WasmBindings \cap disk = {}

OutcomeInv == outcome = IF pc = "done" THEN Outcome ELSE "none"

IInv == DataInv /\ StartInv /\ NativeInv /\ ErrorsInv /\ WasiInv /\ OutcomeInv

(* What is thrown when nothing is exported.                                *)
LEMMA OutcomeCases ==
    /\ Outcome \in {"exported", "no wasi", "not found", "unexplained"}
    /\ Outcome = "exported" => binding # NoBinding /\ (force = "error" => wasi)
    /\ Outcome \in {"not found", "unexplained"} => binding = NoBinding
    /\ Outcome = "unexplained" => errors = <<>>
BY DEF Outcome, Failure

LEMMA OutcomeStable ==
    UNCHANGED <<force, wasi, binding, errors>> => Outcome' = Outcome
BY DEF Outcome, Failure

LEMMA Initial == Init => IInv
<1> SUFFICES ASSUME Init PROVE IInv
  OBVIOUS
<1>1. DataInv
  <2>1. /\ host \in Targets /\ force \in {"unset", "true", "error"} /\ pc = "detect"
        /\ plan = <<>> /\ errors = <<>> /\ next = 1 /\ wasi = FALSE /\ binding = NoBinding
    BY LoaderAssumption DEF Init
  <2> QED
    <3>1. <<>> \in Seq(Candidates) /\ Len(<<>>) = 0
      BY EmptySeq
    <3>2. next \in 1 .. Len(plan) + 1
      BY <2>1, <3>1
    <3> QED
      BY <2>1, <3>1, <3>2 DEF DataInv
<1>2. StartInv /\ NativeInv /\ ErrorsInv /\ WasiInv /\ OutcomeInv
  BY DEF Init, StartInv, NativeInv, ErrorsInv, WasiInv, OutcomeInv
<1> QED
  BY <1>1, <1>2 DEF IInv

LEMMA DetectStep == IInv /\ Detect => IInv'
<1> SUFFICES ASSUME IInv, Detect PROVE IInv'
  OBVIOUS
<1> USE DEF IInv
<1>1. plan' \in Seq(Candidates) /\ plan' # <<>>
  <2>1. CASE path # "unset" /\ plan' = <<AnyPath>>
    BY <2>1, WasmType
  <2>2. CASE \E musl \in BOOLEAN : plan' = Plan(host, musl)
    BY <2>2, PlanType DEF DataInv
  <2>3. \A file, report, output : IsMusl(file, report, output) \in BOOLEAN
    BY DEF IsMusl
  <2> QED
    BY <2>1, <2>2, <2>3 DEF Detect
<1>2. /\ next = 1 /\ errors = <<>> /\ binding = NoBinding /\ ~wasi
      /\ UNCHANGED <<host, disk, force, next, errors, binding, wasi, outcome>>
      /\ pc = "detect" /\ pc' = "native"
  BY DEF Detect, StartInv, environment
<1>3. DataInv'
  BY <1>1, <1>2 DEF DataInv
<1>4. StartInv' /\ ErrorsInv' /\ WasiInv' /\ OutcomeInv'
  BY <1>1, <1>2 DEF StartInv, ErrorsInv, WasiInv, OutcomeInv
<1>5. NativeInv'
  BY <1>1, <1>2 DEF NativeInv, Tried
<1> QED
  BY <1>3, <1>4, <1>5

LEMMA TryNativeStep == IInv /\ TryNative => IInv'
<1> SUFFICES ASSUME IInv, TryNative PROVE IInv'
  OBVIOUS
<1> USE DEF IInv
<1>1. /\ pc = "native" /\ next \in 1 .. Len(plan) /\ next' = next + 1
      /\ UNCHANGED <<host, disk, force, plan, wasi, outcome>>
      /\ plan \in Seq(Candidates) /\ errors \in Seq(Candidates) /\ plan # <<>>
      /\ plan[next] \in Candidates /\ plan[next] \in Range(plan) /\ plan[next] # NoBinding
      /\ Len(errors) = next - 1 /\ \A j \in 1 .. next - 1 : errors[j] = plan[j]
      /\ binding = NoBinding /\ ~wasi /\ outcome = "none"
  <2>1. /\ pc = "native" /\ next \in 1 .. Len(plan) /\ next' = next + 1
        /\ UNCHANGED <<host, disk, force, plan, wasi, outcome>>
        /\ plan \in Seq(Candidates) /\ errors \in Seq(Candidates)
    <3>1. plan \in Seq(Candidates) /\ errors \in Seq(Candidates) /\ next \in 1 .. Len(plan) + 1
      BY DEF DataInv
    <3>2. Len(plan) \in Nat
      BY <3>1
    <3> QED
      BY <3>1, <3>2 DEF TryNative, environment
  <2>2. /\ plan # <<>> /\ outcome = "none" /\ binding = NoBinding /\ ~wasi
        /\ Len(errors) = next - 1 /\ \A j \in 1 .. next - 1 : errors[j] = plan[j]
    BY <2>1 DEF StartInv, NativeInv, OutcomeInv, Tried
  <2>3. plan[next] \in Candidates /\ plan[next] \in Range(plan)
    BY <2>1, LenProperties DEF Range
  <2>4. plan[next] # NoBinding
    BY <2>3, LoaderAssumption
  <2> QED
    BY <2>1, <2>2, <2>3, <2>4
<1>2. CASE Loads(plan[next])
  <2>1. binding' = plan[next] /\ errors' = errors /\ pc' = IF ForceWasi THEN "wasiFile" ELSE "end"
    BY <1>1, <1>2 DEF TryNative, AfterNative
  <2>2. DataInv'
    BY <1>1, <2>1 DEF DataInv
  <2>3. StartInv' /\ NativeInv' /\ ErrorsInv' /\ WasiInv' /\ OutcomeInv'
    BY <1>1, <2>1 DEF StartInv, NativeInv, ErrorsInv, WasiInv, OutcomeInv, ForceWasi
  <2> QED
    BY <2>2, <2>3
<1>3. CASE ~Loads(plan[next])
  <2>1. binding' = binding /\ errors' = Append(errors, plan[next]) /\ pc' = pc
    BY <1>1, <1>3 DEF TryNative
  <2>2. /\ errors' \in Seq(Candidates) /\ Len(errors') = next
        /\ \A j \in 1 .. next : errors'[j] = plan[j]
    BY <1>1, <2>1
  <2>3. DataInv'
    BY <1>1, <2>1, <2>2 DEF DataInv
  <2>4. NativeInv'
    BY <1>1, <2>1, <2>2 DEF NativeInv, Tried
  <2>5. StartInv' /\ ErrorsInv' /\ WasiInv' /\ OutcomeInv'
    BY <1>1, <2>1 DEF StartInv, ErrorsInv, WasiInv, OutcomeInv
  <2> QED
    BY <2>3, <2>4, <2>5
<1> QED
  BY <1>2, <1>3

LEMMA NativeFailsStep == IInv /\ NativeFails => IInv'
<1> SUFFICES ASSUME IInv, NativeFails PROVE IInv'
  OBVIOUS
<1> USE DEF IInv
<1>1. /\ pc = "native" /\ pc' = "wasiFile" /\ next = Len(plan) + 1 /\ plan # <<>>
      /\ UNCHANGED <<host, disk, force, plan, next, binding, wasi, errors, outcome>>
      /\ Len(errors) = Len(plan) /\ Tried(Len(plan)) /\ binding = NoBinding /\ ~wasi
      /\ outcome = "none"
  BY DEF NativeFails, DataInv, StartInv, NativeInv, OutcomeInv, AfterNative, environment
<1>2. DataInv'
  BY <1>1 DEF DataInv
<1>3. StartInv' /\ NativeInv' /\ WasiInv' /\ OutcomeInv'
  BY <1>1 DEF StartInv, NativeInv, WasiInv, OutcomeInv
<1>4. ErrorsInv'
  BY <1>1 DEF ErrorsInv, PlanTried, Tried, DataInv
<1> QED
  BY <1>2, <1>3, <1>4

LEMMA TryWasiFileStep == IInv /\ TryWasiFile => IInv'
<1> SUFFICES ASSUME IInv, TryWasiFile PROVE IInv'
  OBVIOUS
<1> USE DEF IInv
<1>1. /\ pc = "wasiFile" /\ ~wasi /\ outcome = "none"
      /\ UNCHANGED <<host, disk, force, plan, next, errors, outcome>>
      /\ pc' = IF binding' = NoBinding \/ ForceWasi THEN "wasiPackage" ELSE "end"
      /\ IF File(Wasm) \in disk THEN binding' = File(Wasm) /\ wasi' = TRUE
         ELSE binding' = binding /\ wasi' = wasi
  BY DEF TryWasiFile, WasiInv, OutcomeInv, environment
<1>2. File(Wasm) # NoBinding
  BY WasmType, LoaderAssumption
<1>3. DataInv'
  BY <1>1 DEF DataInv, WasmBindings
<1>4. StartInv' /\ NativeInv' /\ OutcomeInv'
  BY <1>1 DEF StartInv, NativeInv, OutcomeInv
<1>5. WasiInv'
  BY <1>1, <1>2 DEF WasiInv, ForceWasi
<1>6. ~ForceWasi => PlanTried
  BY <1>1 DEF WasiInv, ErrorsInv
<1>7. PlanTried' <=> PlanTried
  BY <1>1 DEF PlanTried, Tried
<1>8. binding' = NoBinding => binding = NoBinding
  BY <1>1, <1>2
<1>9. Len(errors) <= Len(plan) /\ Len(errors) <= Len(plan) + 1
  BY <1>1 DEF ErrorsInv, DataInv
<1>10. binding = NoBinding => PlanTried
  BY <1>1 DEF ErrorsInv
<1>11. ErrorsInv'
  BY <1>1, <1>6, <1>7, <1>8, <1>9, <1>10 DEF ErrorsInv, ForceWasi
<1> QED
  BY <1>3, <1>4, <1>5, <1>11

LEMMA TryWasiPackageStep == IInv /\ TryWasiPackage => IInv'
<1> SUFFICES ASSUME IInv, TryWasiPackage PROVE IInv'
  OBVIOUS
<1> USE DEF IInv
<1>1. /\ pc = "wasiPackage" /\ pc' = "end" /\ outcome = "none"
      /\ UNCHANGED <<host, disk, force, plan, next, outcome>>
      /\ IF Package(Wasm) \in disk
         THEN binding' = Package(Wasm) /\ wasi' = TRUE /\ errors' = errors
         ELSE /\ errors' = IF ForceWasi THEN Append(errors, Package(Wasm)) ELSE errors
              /\ binding' = binding /\ wasi' = wasi
  BY DEF TryWasiPackage, OutcomeInv, environment
<1>2. Package(Wasm) # NoBinding
  BY WasmType, LoaderAssumption
<1>3. /\ errors' \in Seq(Candidates) /\ errors \in Seq(Candidates) /\ plan \in Seq(Candidates)
      /\ Len(errors') <= Len(plan) + 1
      /\ \A j \in 1 .. Len(errors) : j <= Len(errors') /\ errors'[j] = errors[j]
      /\ Len(errors) <= Len(errors')
  <2>1. errors \in Seq(Candidates) /\ plan \in Seq(Candidates) /\ Len(errors) <= Len(plan)
    BY <1>1 DEF DataInv, ErrorsInv
  <2>2. CASE errors' = errors
    BY <2>1, <2>2
  <2>3. CASE errors' = Append(errors, Package(Wasm))
    BY <2>1, <2>3, WasmType
  <2> QED
    BY <1>1, <2>2, <2>3
<1>4. DataInv'
  BY <1>1, <1>3 DEF DataInv, WasmBindings
<1>5. StartInv' /\ NativeInv' /\ OutcomeInv'
  BY <1>1 DEF StartInv, NativeInv, OutcomeInv
<1>6. WasiInv'
  BY <1>1, <1>2 DEF WasiInv, ForceWasi, WasmBindings
<1>7. PlanTried => PlanTried'
  BY <1>1, <1>3 DEF PlanTried, Tried
<1>8. ErrorsInv'
  BY <1>1, <1>2, <1>3, <1>7 DEF ErrorsInv, WasiInv, ForceWasi
<1> QED
  BY <1>4, <1>5, <1>6, <1>8

LEMMA EndStep == IInv /\ End => IInv'
<1> SUFFICES ASSUME IInv, End PROVE IInv'
  OBVIOUS
<1> USE DEF IInv
<1>1. /\ pc = "end" /\ pc' = "done" /\ outcome' = Outcome
      /\ UNCHANGED <<host, disk, force, plan, next, binding, wasi, errors>>
  BY DEF End, environment
<1>2. DataInv'
  BY <1>1 DEF DataInv
<1>3. StartInv' /\ NativeInv' /\ WasiInv'
  BY <1>1 DEF StartInv, NativeInv, WasiInv, ForceWasi
<1>4. ErrorsInv'
  BY <1>1 DEF ErrorsInv, PlanTried, Tried, ForceWasi
<1>5. OutcomeInv'
  BY <1>1, OutcomeStable DEF OutcomeInv
<1> QED
  BY <1>2, <1>3, <1>4, <1>5

(* Every step of require preserves the invariant.                          *)
LEMMA Inductive == IInv /\ [Next]_vars => IInv'
<1> SUFFICES ASSUME IInv, [Next]_vars PROVE IInv'
  OBVIOUS
<1>1. CASE Detect
  BY <1>1, DetectStep
<1>2. CASE TryNative
  BY <1>2, TryNativeStep
<1>3. CASE NativeFails
  BY <1>3, NativeFailsStep
<1>4. CASE TryWasiFile
  BY <1>4, TryWasiFileStep
<1>5. CASE TryWasiPackage
  BY <1>5, TryWasiPackageStep
<1>6. CASE End
  BY <1>6, EndStep
<1>7. CASE UNCHANGED vars
  <2>1. UNCHANGED <<host, disk, force, pc, plan, next, binding, wasi, errors, outcome>>
    BY <1>7 DEF vars, environment
  <2>2. DataInv' /\ StartInv'
    BY <2>1 DEF IInv, DataInv, StartInv
  <2>3. NativeInv' /\ ErrorsInv'
    BY <2>1 DEF IInv, NativeInv, ErrorsInv, PlanTried, Tried, ForceWasi
  <2>4. WasiInv'
    BY <2>1 DEF IInv, WasiInv, ForceWasi
  <2>5. OutcomeInv'
    BY <2>1, OutcomeStable DEF IInv, OutcomeInv
  <2> QED
    BY <2>2, <2>3, <2>4, <2>5 DEF IInv
<1> QED
  BY <1>1, <1>2, <1>3, <1>4, <1>5, <1>6, <1>7 DEF Next, Finished

(* What the errors name.  Where there is no binding, loadErrors are the    *)
(* plan, and the WASI package if it was forced and tried; wasiBindingError *)
(* has the WASI candidates that were tried in vain while forced.           *)
NamedInv ==
    /\ pc \in {"wasiFile", "wasiPackage"} /\ binding = NoBinding => errors = plan
    /\ pc \in {"end", "done"} /\ binding = NoBinding =>
         errors = IF ForceWasi THEN Append(plan, Package(Wasm)) ELSE plan
    /\ wasiErrors \in {<<>>, <<File(Wasm)>>, <<Package(Wasm)>>, <<File(Wasm), Package(Wasm)>>}
    /\ pc \in {"detect", "native", "wasiFile"} => wasiErrors = <<>>
    /\ pc = "wasiPackage" => wasiErrors \in {<<>>, <<File(Wasm)>>}
    /\ pc = "wasiPackage" /\ ForceWasi /\ ~wasi => wasiErrors = <<File(Wasm)>>
    /\ pc \in {"end", "done"} /\ ForceWasi /\ ~wasi =>
         wasiErrors = <<File(Wasm), Package(Wasm)>>

LEMMA AppendOne ==
    ASSUME NEW S, NEW a \in S, NEW b \in S
    PROVE  Append(<<>>, b) = <<b>> /\ Append(<<a>>, b) = <<a, b>>
<1> DEFINE u == Append(<<a>>, b)
           v == <<a, b>>
           w == Append(<<>>, b)
<1>1. u \in Seq(S) /\ Len(u) = 2 /\ u[1] = a /\ u[2] = b
  OBVIOUS
<1>2. v \in Seq(S) /\ Len(v) = 2 /\ v[1] = a /\ v[2] = b
  OBVIOUS
<1>3. w \in Seq(S) /\ Len(w) = 1 /\ w[1] = b
  OBVIOUS
<1>4. <<b>> \in Seq(S) /\ Len(<<b>>) = 1 /\ <<b>>[1] = b
  OBVIOUS
<1>5. u = v
  <2> HIDE DEF u, v
  <2> QED
    BY <1>1, <1>2, SeqEqual
<1>6. w = <<b>>
  <2> HIDE DEF w
  <2> QED
    BY <1>3, <1>4, SeqEqual
<1> QED
  BY <1>5, <1>6

LEMMA NamedInitial == Init => NamedInv
BY DEF Init, NamedInv

LEMMA NamedNative == IInv /\ NamedInv /\ (Detect \/ TryNative \/ NativeFails) => NamedInv'
<1> SUFFICES ASSUME IInv, NamedInv, Detect \/ TryNative \/ NativeFails PROVE NamedInv'
  OBVIOUS
<1>1. pc \in {"detect", "native"} /\ wasiErrors = <<>> /\ wasiErrors' = <<>>
  BY DEF Detect, TryNative, NativeFails, NamedInv
<1>2. CASE Detect \/ (TryNative /\ pc' = "native")
  <2>1. pc' = "native"
    BY <1>2 DEF Detect
  <2> QED
    BY <1>1, <2>1 DEF NamedInv
<1>3. CASE TryNative /\ pc' # "native"
  <2>1. next \in 1 .. Len(plan) /\ plan \in Seq(Candidates)
    <3>1. plan \in Seq(Candidates) /\ next \in 1 .. Len(plan) + 1 /\ next <= Len(plan)
      BY <1>3 DEF TryNative, IInv, DataInv
    <3>2. Len(plan) \in Nat
      BY <3>1, LenProperties
    <3> QED
      BY <3>1, <3>2
  <2>2. binding' = plan[next] /\ plan[next] # NoBinding
    <3>1. binding' = plan[next]
      BY <1>1, <1>3 DEF TryNative
    <3>2. plan[next] \in Candidates
      BY <2>1, ElementOfSeq
    <3> QED
      BY <3>1, <3>2, LoaderAssumption
  <2>3. pc' = IF ForceWasi THEN "wasiFile" ELSE "end"
    BY <1>3 DEF TryNative, AfterNative
  <2>4. ForceWasi' <=> ForceWasi
    BY <1>3 DEF TryNative, environment, ForceWasi
  <2> QED
    BY <1>1, <2>2, <2>3, <2>4 DEF NamedInv
<1>4. CASE NativeFails
  <2>1. /\ pc = "native" /\ pc' = "wasiFile" /\ plan' = plan /\ errors' = errors
        /\ plan \in Seq(Candidates) /\ errors \in Seq(Candidates)
        /\ Len(errors) = Len(plan) /\ \A j \in 1 .. Len(plan) : errors[j] = plan[j]
    BY <1>4 DEF NativeFails, AfterNative, IInv, DataInv, NativeInv, Tried
  <2>2. errors = plan
    BY <2>1, SeqEqual
  <2> QED
    BY <1>1, <2>1, <2>2 DEF NamedInv
<1> QED
  BY <1>2, <1>3, <1>4

LEMMA NamedWasi ==
    IInv /\ NamedInv /\ (TryWasiFile \/ TryWasiPackage \/ End \/ UNCHANGED vars) => NamedInv'
<1> SUFFICES ASSUME IInv, NamedInv, TryWasiFile \/ TryWasiPackage \/ End \/ UNCHANGED vars
             PROVE  NamedInv'
  OBVIOUS
<1>1. plan' = plan /\ (ForceWasi' <=> ForceWasi)
  BY DEF TryWasiFile, TryWasiPackage, End, vars, environment, ForceWasi
<1>2. File(Wasm) # NoBinding /\ Package(Wasm) # NoBinding
  BY WasmType, LoaderAssumption
<1>3. CASE TryWasiFile
  <2>1. /\ pc = "wasiFile" /\ wasiErrors = <<>> /\ errors' = errors
        /\ (binding = NoBinding => errors = plan)
        /\ pc' = IF binding' = NoBinding \/ ForceWasi THEN "wasiPackage" ELSE "end"
        /\ \/ binding' = File(Wasm) /\ wasi' = TRUE /\ wasiErrors' = <<>>
           \/ /\ binding' = binding
              /\ wasiErrors' = IF ForceWasi THEN <<File(Wasm)>> ELSE <<>>
    BY <1>3 DEF TryWasiFile, Keep, NamedInv
  <2> QED
    BY <1>1, <1>2, <2>1 DEF NamedInv
<1>4. CASE TryWasiPackage
  <2>1. /\ pc = "wasiPackage" /\ pc' = "end" /\ wasiErrors \in {<<>>, <<File(Wasm)>>}
        /\ (ForceWasi /\ ~wasi => wasiErrors = <<File(Wasm)>>)
        /\ (binding = NoBinding => errors = plan)
        /\ \/ binding' = Package(Wasm) /\ wasi' = TRUE /\ wasiErrors' = wasiErrors
           \/ /\ binding' = binding /\ wasi' = wasi
              /\ errors' = IF ForceWasi THEN Append(errors, Package(Wasm)) ELSE errors
              /\ wasiErrors' = IF ForceWasi THEN Append(wasiErrors, Package(Wasm)) ELSE wasiErrors
    BY <1>4 DEF TryWasiPackage, Keep, NamedInv
  <2>2. /\ Append(<<>>, Package(Wasm)) = <<Package(Wasm)>>
        /\ Append(<<File(Wasm)>>, Package(Wasm)) = <<File(Wasm), Package(Wasm)>>
    BY WasmType, AppendOne
  <2> QED
    BY <1>1, <1>2, <2>1, <2>2 DEF NamedInv
<1>5. CASE End \/ UNCHANGED vars
  <2>1. /\ UNCHANGED <<binding, wasi, errors, wasiErrors>>
        /\ pc' = pc \/ (pc = "end" /\ pc' = "done")
    BY <1>5 DEF End, vars
  <2> QED
    BY <1>1, <2>1 DEF NamedInv
<1> QED
  BY <1>3, <1>4, <1>5

(* The invariant holds of every behaviour of index.js.                     *)
THEOREM LoaderInvariance == Spec => [](IInv /\ NamedInv)
<1>1. Init => IInv /\ NamedInv
  BY Initial, NamedInitial
<1>2. IInv /\ NamedInv /\ [Next]_vars => (IInv /\ NamedInv)'
  BY Inductive, NamedNative, NamedWasi DEF Next, Finished
<1> QED
  BY <1>1, <1>2, PTL DEF Spec
-----------------------------------------------------------------------------
(* The variables of index.js have their types: what is exported is one of  *)
(* the candidates or a WASI build.                                         *)
THEOREM LoaderTypeCorrect == Spec => []TypeOK
<1>1. IInv /\ NamedInv => TypeOK
  <2> SUFFICES ASSUME IInv, NamedInv PROVE TypeOK
    OBVIOUS
  <2>1. Len(errors) <= Len(plan) + 1
    BY DEF IInv, DataInv, StartInv, NativeInv, ErrorsInv
  <2>2. /\ outcome \in {"none", "exported", "no wasi", "not found", "unexplained"}
        /\ outcome = "exported" => binding # NoBinding
    BY OutcomeCases DEF IInv, OutcomeInv
  <2> QED
    BY <2>1, <2>2 DEF TypeOK, IInv, DataInv, WasmBindings, NamedInv
<1> QED
  BY <1>1, LoaderInvariance, PTL

(* On every platform, with every architecture, known or not, and whatever  *)
(* is on disk: an error that finds no binding has for causes all native    *)
(* candidates and nothing else but, forced, the WASI package; the one of   *)
(* 'error' has both WASI candidates, and none is without a cause.          *)
THEOREM FailuresAreNamed == Spec => []EveryFailureIsNamed
<1>1. IInv /\ NamedInv => EveryFailureIsNamed
  <2> SUFFICES ASSUME IInv, NamedInv PROVE EveryFailureIsNamed
    OBVIOUS
  <2>1. ASSUME outcome \in {"not found", "unexplained"}
        PROVE  outcome = "not found" /\ plan # <<>>
               /\ errors = IF ForceWasi THEN Append(plan, Package(Wasm)) ELSE plan
    <3>1. pc = "done" /\ binding = NoBinding /\ outcome = Outcome
      BY <2>1, OutcomeCases DEF IInv, OutcomeInv
    <3>2. errors = (IF ForceWasi THEN Append(plan, Package(Wasm)) ELSE plan)
          /\ plan # <<>> /\ plan \in Seq(Candidates)
      BY <3>1 DEF NamedInv, IInv, StartInv, DataInv
    <3>3. errors # <<>>
      BY <3>2, WasmType
    <3> QED
      BY <2>1, <3>1, <3>2, <3>3, OutcomeCases
  <2>2. ASSUME outcome = "no wasi"
        PROVE  wasiErrors = <<File(Wasm), Package(Wasm)>>
    <3>1. pc = "done" /\ force = "error" /\ ~wasi
      BY <2>2 DEF IInv, OutcomeInv, Outcome, Failure
    <3> QED
      BY <3>1 DEF NamedInv, ForceWasi
  <2> QED
    BY <2>1, <2>2 DEF EveryFailureIsNamed
<1> QED
  BY <1>1, LoaderInvariance, PTL

(* NAPI_RS_FORCE_WASI: unforced, WASI is exported only when everything     *)
(* else has been tried; forced, nothing else is while there is one; and    *)
(* with 'error' nothing else is.                                           *)
THEOREM WasiIsAsForced == Spec => []WasiTriState
<1>1. IInv => WasiTriState
  <2> SUFFICES ASSUME IInv, outcome = "exported" PROVE WasiTriState
    BY DEF WasiTriState
  <2>1. pc = "done" /\ outcome = Outcome /\ force \in {"unset", "true", "error"}
    BY DEF IInv, DataInv, OutcomeInv
  <2>2. CASE force = "unset"
    <3>1. ~ForceWasi
      BY <2>2 DEF ForceWasi
    <3>2. wasi => PlanTried /\ plan # <<>> /\ plan \in Seq(Candidates) /\ errors \in Seq(Candidates)
      BY <2>1, <3>1 DEF IInv, ErrorsInv, StartInv, DataInv
    <3>3. wasi => errors # <<>> /\ next > Len(plan)
      BY <3>2 DEF PlanTried, Tried
    <3> QED
      BY <2>2, <3>3 DEF WasiTriState
  <2>3. CASE force = "true"
    <3>1. ~wasi => WasmBindings \cap disk = {}
      BY <2>1, <2>3 DEF IInv, WasiInv, ForceWasi
    <3> QED
      BY <2>3, <3>1 DEF WasiTriState, WasmBindings
  <2>4. CASE force = "error"
    <3>1. wasi
      BY <2>1, <2>4, OutcomeCases
    <3> QED
      BY <2>4, <3>1 DEF WasiTriState
  <2> QED
    BY <2>1, <2>2, <2>3, <2>4
<1> QED
  BY <1>1, LoaderInvariance, PTL
-----------------------------------------------------------------------------
(* What was there to be found.                                             *)

NothingLoaded == \A j \in 1 .. next - 1 : ~Loads(plan[j])

(* The plan has every binary that fits the host, if isMusl was told the    *)
(* truth; what is bound by requireNative loads, and where it has bound     *)
(* nothing, nothing it has been through does, and in the end no WASI       *)
(* build is there either.                                                  *)
FoundInv ==
    /\ host \in Targets /\ disk \subseteq Binaries(host)
    /\ pc # "detect" /\ path = "unset" /\ reliable =>
         \A c \in Binaries(host) : Fits(c.target) => c \in Range(plan) \cup WasmBindings
    /\ pc = "native" \/ binding = NoBinding \/ (wasi /\ ~ForceWasi) => NothingLoaded
    /\ binding # NoBinding /\ ~wasi => Loads(binding)
    /\ pc \in {"end", "done"} /\ binding = NoBinding => WasmBindings \cap disk = {}

LEMMA RangeBoth ==
    ASSUME NEW t \in Targets
    PROVE  Both(t) \in Seq(Candidates) /\ Range(Both(t)) = {File(t), Package(t)}
<1>1. File(t) \in Candidates /\ Package(t) \in Candidates
  BY DEF File, Package, Candidates
<1> QED
  BY <1>1 DEF Both, Range

LEMMA RangeConcat ==
    ASSUME NEW s \in Seq(Candidates), NEW t \in Seq(Candidates)
    PROVE  Range(s) \cup Range(t) \subseteq Range(s \o t)
           /\ Range(s \o t) \subseteq Range(s) \cup Range(t)
<1> DEFINE n == Len(s)
           m == Len(t)
           u == s \o t
<1>1. /\ n \in Nat /\ m \in Nat /\ DOMAIN s = 1 .. n /\ DOMAIN t = 1 .. m
      /\ DOMAIN u = 1 .. n + m
      /\ \A i \in 1 .. n + m : u[i] = IF i <= n THEN s[i] ELSE t[i - n]
  BY LenProperties, ConcatProperties
<1> HIDE DEF n, m, u
<1>2. \A i \in 1 .. n : i \in 1 .. n + m /\ u[i] = s[i]
  BY <1>1
<1>3. \A i \in 1 .. m : n + i \in 1 .. n + m /\ u[n + i] = t[i]
  BY <1>1
<1>4. \A i \in 1 .. n + m : (i \in 1 .. n /\ u[i] = s[i]) \/ (i - n \in 1 .. m /\ u[i] = t[i - n])
  BY <1>1
<1>5. Range(s) \subseteq Range(u)
  BY <1>1, <1>2 DEF Range
<1>6. Range(t) \subseteq Range(u)
  BY <1>1, <1>3 DEF Range
<1>7. Range(u) \subseteq Range(s) \cup Range(t)
  BY <1>1, <1>4 DEF Range
<1> QED
  BY <1>5, <1>6, <1>7 DEF u

(* What is tried is a file or a package, or says that there is nothing to  *)
(* try.                                                                    *)
Tryable(s) == \A c \in Range(s) : c = Unsupported \/ c.kind \in {"file", "package"}

LEMMA PlanIsTryable ==
    ASSUME NEW h \in Targets, NEW musl \in BOOLEAN
    PROVE  Tryable(Plan(h, musl))
<1>1. Tryable(<<Unsupported>>)
  BY DEF Tryable, Range
<1>2. ASSUME NEW t \in Targets
      PROVE  Tryable(Both(t))
  BY RangeBoth DEF Tryable, File, Package
<1>3. ASSUME NEW archs
      PROVE  Tryable(OneOf(h, archs))
  BY <1>1, <1>2 DEF OneOf
<1>4. \A abi \in {"gnu", "musl", "msvc"} : With(h, abi) \in Targets
  BY LoaderAssumption DEF With, Targets
<1>5. Tryable(OnWindows(h))
  <2>1. CASE h.arch = "x64"
    <3>1. OnWindows(h) = Both(With(h, IF h.abi = "gnu" THEN "gnu" ELSE "msvc"))
      BY <2>1 DEF OnWindows
    <3> QED
      BY <1>2, <1>4, <3>1
  <2>2. CASE h.arch \in {"ia32", "arm64"}
    <3>1. OnWindows(h) = Both(With(h, "msvc"))
      BY <2>2 DEF OnWindows
    <3> QED
      BY <1>2, <1>4, <3>1
  <2>3. CASE h.arch \notin {"x64", "ia32", "arm64"}
    <3>1. OnWindows(h) = <<Unsupported>>
      BY <2>3 DEF OnWindows
    <3> QED
      BY <1>1, <3>1
  <2> QED
    BY <2>1, <2>2, <2>3
<1>6. Tryable(OnMac(h))
  <2>1. Universal(h) \in Targets
    BY LoaderAssumption DEF Universal, Targets
  <2>2. Both(Universal(h)) \in Seq(Candidates) /\ Tryable(Both(Universal(h)))
    BY <2>1, <1>2, RangeBoth
  <2>3. OneOf(h, {"x64", "arm64"}) \in Seq(Candidates) /\ Tryable(OneOf(h, {"x64", "arm64"}))
    <3>1. Unsupported \in Candidates
      BY LoaderAssumption DEF Unsupported, Wasm, Candidates, Targets
    <3>2. <<Unsupported>> \in Seq(Candidates)
      BY <3>1
    <3> QED
      BY <1>3, <3>2, RangeBoth DEF OneOf
  <2> QED
    BY <2>2, <2>3, RangeConcat DEF OnMac, Tryable
<1>7. Tryable(OnLinux(h, musl))
  <2>1. CASE h.arch \in TwoLibcs
    <3>1. OnLinux(h, musl) = Both(With(h, IF musl THEN "musl" ELSE "gnu"))
      BY <2>1 DEF OnLinux, TwoLibcs
    <3> QED
      BY <1>2, <1>4, <3>1
  <2>2. CASE h.arch \in {"ppc64", "s390x"}
    <3>1. OnLinux(h, musl) = Both(With(h, "gnu"))
      BY <2>2 DEF OnLinux, TwoLibcs
    <3> QED
      BY <1>2, <1>4, <3>1
  <2>3. CASE h.arch \notin TwoLibcs /\ h.arch \notin {"ppc64", "s390x"}
    <3>1. OnLinux(h, musl) = <<Unsupported>>
      BY <2>3 DEF OnLinux
    <3> QED
      BY <1>1, <3>1
  <2> QED
    BY <2>1, <2>2, <2>3
<1> QED
  BY <1>1, <1>3, <1>5, <1>6, <1>7 DEF Plan, OnAndroid, OnFreeBSD, OnOpenHarmony

LEMMA BinariesLoad ==
    ASSUME NEW h \in Targets, NEW c \in Binaries(h)
    PROVE  c.kind \in {"file", "package"}
<1>1. Tryable(Plan(h, TRUE)) /\ Tryable(Plan(h, FALSE))
  BY PlanIsTryable
<1>2. c \in Range(Plan(h, TRUE)) \cup Range(Plan(h, FALSE)) \cup {File(Wasm), Package(Wasm)}
      /\ c # Unsupported
  BY DEF Binaries
<1>3. File(Wasm).kind = "file" /\ Package(Wasm).kind = "package"
  BY DEF File, Package
<1> QED
  BY <1>1, <1>2, <1>3 DEF Tryable

(* Where no C library is asked for, the plan is the same with either; and  *)
(* where one is, the plan has the binaries of the one that is named.       *)
LEMMA PlanCovers ==
    ASSUME NEW h \in Targets, NEW musl \in BOOLEAN, NEW c \in Binaries(h),
           c.target.abi \in {h.abi, ""},
           h.platform = "linux" /\ h.arch \in TwoLibcs =>
             (h.abi = "musl" => musl) /\ (h.abi = "gnu" => ~musl)
    PROVE  c \in Range(Plan(h, musl)) \cup WasmBindings
<1>1. c \in Range(Plan(h, TRUE)) \cup Range(Plan(h, FALSE)) \cup WasmBindings
  BY DEF Binaries, WasmBindings
<1>2. CASE h.platform # "linux"
  <2>1. Plan(h, TRUE) = Plan(h, musl) /\ Plan(h, FALSE) = Plan(h, musl)
    BY <1>2 DEF Plan
  <2> QED
    BY <1>1, <2>1
<1>3. CASE h.platform = "linux"
  <2>1. \A x \in BOOLEAN : Plan(h, x) = OnLinux(h, x)
    BY <1>3 DEF Plan
  <2>2. CASE h.arch \notin TwoLibcs
    <3>1. OnLinux(h, TRUE) = OnLinux(h, musl) /\ OnLinux(h, FALSE) = OnLinux(h, musl)
      BY <2>2 DEF OnLinux
    <3> QED
      BY <1>1, <2>1, <3>1
  <2>3. CASE h.arch \in TwoLibcs
    <3>1. OnLinux(h, TRUE) = Both(With(h, "musl")) /\ OnLinux(h, FALSE) = Both(With(h, "gnu"))
      BY <2>3 DEF OnLinux, TwoLibcs
    <3>2. /\ With(h, "musl") \in Targets /\ With(h, "gnu") \in Targets
          /\ With(h, "musl").abi = "musl" /\ With(h, "gnu").abi = "gnu"
      BY LoaderAssumption DEF With, Targets
    <3>3. /\ \A x \in Range(Both(With(h, "musl"))) : x.target.abi = "musl"
          /\ \A x \in Range(Both(With(h, "gnu"))) : x.target.abi = "gnu"
      <4>1. ASSUME NEW t \in Targets, NEW x \in Range(Both(t))
            PROVE  x.target = t
        <5>1. Range(Both(t)) = {File(t), Package(t)}
          BY RangeBoth
        <5>2. File(t).target = t /\ Package(t).target = t
          BY DEF File, Package
        <5> QED
          BY <5>1, <5>2
      <4> QED
        BY <3>2, <4>1
    <3>4. CASE c \in Range(Plan(h, TRUE))
      <4>1. h.abi = "musl" /\ musl = TRUE
        BY <1>3, <2>1, <2>3, <3>1, <3>3, <3>4
      <4> QED
        BY <3>4, <4>1
    <3>5. CASE c \in Range(Plan(h, FALSE))
      <4>1. h.abi = "gnu" /\ musl = FALSE
        BY <1>3, <2>1, <2>3, <3>1, <3>3, <3>5
      <4> QED
        BY <3>5, <4>1
    <3> QED
      BY <1>1, <3>4, <3>5
  <2> QED
    BY <2>2, <2>3
<1> QED
  BY <1>2, <1>3

(* isMusl says the C library, if its sources say the truth and the one     *)
(* that decides is not silent about musl.                                  *)
LEMMA MuslIsTold ==
    ASSUME NEW h, NEW file \in LddFile, NEW report \in Report, NEW output \in LddOutput,
           Truthful(h, file, report, output), MuslIsNamed(h, file, report, output)
    PROVE  /\ h.abi = "musl" => IsMusl(file, report, output) = TRUE
           /\ h.abi = "gnu" => IsMusl(file, report, output) = FALSE
<1>1. CASE h.abi = "musl"
  <2>1. FromFilesystem(file) = IF file = "unreadable" THEN "unknown" ELSE "musl"
    BY <1>1 DEF Truthful, FromFilesystem
  <2>2. CASE file # "unreadable"
    BY <1>1, <2>1, <2>2 DEF IsMusl
  <2>3. CASE file = "unreadable" /\ report = "musl objects"
    BY <1>1, <2>1, <2>3 DEF IsMusl, FromReport
  <2>4. CASE file = "unreadable" /\ report = "none" /\ output = "musl"
    BY <1>1, <2>1, <2>4 DEF IsMusl, FromReport, FromChildProcess
  <2> QED
    BY <1>1, <2>2, <2>3, <2>4 DEF MuslIsNamed
<1>2. CASE h.abi = "gnu"
  <2>1. FromFilesystem(file) \in {"unknown", "gnu"}
    BY <1>2 DEF Truthful, FromFilesystem
  <2>2. FromReport(report) \in {"unknown", "gnu"}
    BY <1>2 DEF Truthful, FromReport, Report
  <2>3. FromChildProcess(output) = "gnu"
    BY <1>2 DEF Truthful, FromChildProcess
  <2> QED
    BY <1>2, <2>1, <2>2, <2>3 DEF IsMusl
<1> QED
  BY <1>1, <1>2

LEMMA FoundInitial == Init => FoundInv
<1> SUFFICES ASSUME Init PROVE FoundInv
  OBVIOUS
<1>1. host \in Targets
  BY LoaderAssumption DEF Init
<1>2. disk \subseteq Binaries(host) /\ pc = "detect" /\ next = 1 /\ binding = NoBinding /\ ~wasi
  BY DEF Init
<1>3. NothingLoaded
  BY <1>2 DEF NothingLoaded
<1> QED
  BY <1>1, <1>2, <1>3 DEF FoundInv

LEMMA FoundDetect == IInv /\ FoundInv /\ Detect => FoundInv'
<1> SUFFICES ASSUME IInv, FoundInv, Detect PROVE FoundInv'
  OBVIOUS
<1>1. /\ pc = "detect" /\ pc' = "native" /\ next = 1 /\ binding = NoBinding /\ ~wasi
      /\ UNCHANGED <<host, disk, path, next, binding, wasi>>
  BY DEF Detect, environment, IInv, StartInv
<1>2. NothingLoaded'
  BY <1>1 DEF NothingLoaded
<1>3. host \in Targets /\ disk \subseteq Binaries(host)
  BY DEF FoundInv
<1>4. ASSUME path = "unset", reliable', NEW c \in Binaries(host), Fits(c.target)
      PROVE  c \in Range(plan') \cup WasmBindings
  <2>1. c.target.abi \in {host.abi, ""}
    BY <1>4 DEF Fits
  <2>2. CASE ~AsksForMusl
    <3>1. plan' = Plan(host, FALSE) /\ ~(host.platform = "linux" /\ host.arch \in TwoLibcs)
      BY <1>4, <2>2 DEF Detect, AsksForMusl
    <3> QED
      BY <1>3, <2>1, <3>1, PlanCovers
  <2>3. CASE AsksForMusl
    <3>1. PICK file \in LddFile, report \in Report, output \in LddOutput :
            /\ plan' = Plan(host, IsMusl(file, report, output))
            /\ reliable' = (Truthful(host, file, report, output)
                               /\ MuslIsNamed(host, file, report, output))
      BY <1>4, <2>3 DEF Detect
    <3>2. IsMusl(file, report, output) \in BOOLEAN
      BY DEF IsMusl
    <3>3. Truthful(host, file, report, output) /\ MuslIsNamed(host, file, report, output)
      BY <1>4, <3>1
    <3>4. /\ host.abi = "musl" => IsMusl(file, report, output) = TRUE
          /\ host.abi = "gnu" => IsMusl(file, report, output) = FALSE
      BY <3>3, MuslIsTold
    <3> QED
      BY <1>3, <2>1, <3>1, <3>2, <3>4, PlanCovers
  <2> QED
    BY <2>2, <2>3
<1>5. \A t : Fits(t)' <=> Fits(t)
  BY <1>1 DEF Fits
<1> QED
  BY <1>1, <1>2, <1>3, <1>4, <1>5 DEF FoundInv

(* Steps that leave the environment, the plan and how far it was tried.    *)
LEMMA FoundKeeps ==
    ASSUME FoundInv, UNCHANGED <<environment, plan, reliable>>, pc # "detect" \/ pc' = "detect"
    PROVE  /\ host' \in Targets /\ disk' \subseteq Binaries(host')
           /\ pc' # "detect" /\ path' = "unset" /\ reliable' =>
                \A c \in Binaries(host') : Fits(c.target)' => c \in Range(plan') \cup WasmBindings
           /\ \A c : Loads(c)' <=> Loads(c)
           /\ next' = next => (NothingLoaded' <=> NothingLoaded)
<1>1. \A t : Fits(t)' <=> Fits(t)
  BY DEF Fits, environment
<1>2. \A c : Loads(c)' <=> Loads(c)
  BY <1>1 DEF Loads, environment
<1>3. next' = next => (NothingLoaded' <=> NothingLoaded)
  BY <1>2 DEF NothingLoaded
<1> QED
  BY <1>1, <1>2, <1>3 DEF FoundInv, environment

LEMMA FoundTry == IInv /\ FoundInv /\ TryNative => FoundInv'
<1> SUFFICES ASSUME IInv, FoundInv, TryNative PROVE FoundInv'
  OBVIOUS
<1>1. /\ pc = "native" /\ next' = next + 1 /\ UNCHANGED <<environment, plan, reliable, wasi>>
      /\ ~wasi /\ binding = NoBinding /\ NothingLoaded
  BY DEF TryNative, IInv, NativeInv, FoundInv
<1>2. next \in Nat /\ next >= 1 /\ next \in 1 .. Len(plan) /\ plan[next] # NoBinding
  <2>1. plan \in Seq(Candidates) /\ next \in 1 .. Len(plan) + 1 /\ next <= Len(plan)
    BY DEF TryNative, IInv, DataInv
  <2>2. Len(plan) \in Nat
    BY <2>1, LenProperties
  <2>3. next \in 1 .. Len(plan) /\ next \in Nat /\ next >= 1
    BY <2>1, <2>2
  <2>4. plan[next] \in Candidates
    BY <2>1, <2>3, ElementOfSeq
  <2> QED
    BY <2>2, <2>3, <2>4, LoaderAssumption
<1>3. /\ host' \in Targets /\ disk' \subseteq Binaries(host')
      /\ pc' # "detect" /\ path' = "unset" /\ reliable' =>
           \A c \in Binaries(host') : Fits(c.target)' => c \in Range(plan') \cup WasmBindings
      /\ \A c : Loads(c)' <=> Loads(c)
  BY <1>1, FoundKeeps
<1>4. CASE Loads(plan[next])
  <2>1. binding' = plan[next] /\ pc' \in {"end", "wasiFile"}
    BY <1>4 DEF TryNative, AfterNative
  <2> QED
    BY <1>1, <1>2, <1>3, <1>4, <2>1 DEF FoundInv
<1>5. CASE ~Loads(plan[next])
  <2>1. binding' = binding /\ pc' = pc
    BY <1>5 DEF TryNative
  <2>2. NothingLoaded'
    <3>1. \A j \in 1 .. next' - 1 : j \in 1 .. next - 1 \/ j = next
      BY <1>1, <1>2
    <3> QED
      BY <1>1, <1>3, <1>5, <3>1 DEF NothingLoaded
  <2> QED
    BY <1>1, <1>3, <2>1, <2>2 DEF FoundInv
<1> QED
  BY <1>4, <1>5

LEMMA FoundWasi ==
    IInv /\ FoundInv /\ (NativeFails \/ TryWasiFile \/ TryWasiPackage \/ End \/ UNCHANGED vars)
      => FoundInv'
<1> SUFFICES ASSUME IInv, FoundInv,
                    NativeFails \/ TryWasiFile \/ TryWasiPackage \/ End \/ UNCHANGED vars
             PROVE  FoundInv'
  OBVIOUS
<1>1. UNCHANGED <<environment, plan, reliable, next>> /\ (pc # "detect" \/ pc' = "detect")
  BY DEF NativeFails, TryWasiFile, TryWasiPackage, End, vars
<1>2. /\ host' \in Targets /\ disk' \subseteq Binaries(host')
      /\ pc' # "detect" /\ path' = "unset" /\ reliable' =>
           \A c \in Binaries(host') : Fits(c.target)' => c \in Range(plan') \cup WasmBindings
      /\ \A c : Loads(c)' <=> Loads(c)
      /\ NothingLoaded' <=> NothingLoaded
  BY <1>1, FoundKeeps
<1>3. (ForceWasi' <=> ForceWasi) /\ disk' = disk
  BY <1>1 DEF ForceWasi, environment
<1>4. NoBinding \notin WasmBindings
  BY WasmType, LoaderAssumption DEF WasmBindings
<1>5. CASE NativeFails \/ End \/ UNCHANGED vars
  <2>1. UNCHANGED <<binding, wasi>> /\ (pc' = "native" => pc = "native")
    BY <1>5 DEF NativeFails, End, vars, AfterNative
  <2>2. pc' \in {"end", "done"} => pc \in {"end", "done"}
    BY <1>5 DEF NativeFails, End, vars, AfterNative
  <2> QED
    BY <1>2, <1>3, <2>1, <2>2 DEF FoundInv
<1>6. CASE TryWasiFile
  <2>1. /\ pc = "wasiFile" /\ ~wasi /\ (~ForceWasi => binding = NoBinding)
        /\ pc' = IF binding' = NoBinding \/ ForceWasi THEN "wasiPackage" ELSE "end"
        /\ \/ binding' = File(Wasm) /\ wasi' = TRUE
           \/ UNCHANGED <<binding, wasi>>
    BY <1>6 DEF TryWasiFile, IInv, WasiInv
  <2>2. File(Wasm) # NoBinding
    BY <1>4 DEF WasmBindings
  <2> QED
    BY <1>2, <1>3, <2>1, <2>2 DEF FoundInv
<1>7. CASE TryWasiPackage
  <2>1. /\ pc = "wasiPackage" /\ pc' = "end" /\ (~wasi => File(Wasm) \notin disk)
        /\ \/ binding' = Package(Wasm) /\ wasi' = TRUE
           \/ UNCHANGED <<binding, wasi>> /\ Package(Wasm) \notin disk
        /\ ~ForceWasi => binding = NoBinding
    BY <1>7 DEF TryWasiPackage, IInv, WasiInv
  <2>2. Package(Wasm) # NoBinding /\ (wasi => binding # NoBinding)
    BY <1>4 DEF WasmBindings, IInv, DataInv
  <2>3. binding' = NoBinding => WasmBindings \cap disk = {}
    BY <2>1, <2>2 DEF WasmBindings
  <2> QED
    BY <1>2, <1>3, <2>1, <2>2, <2>3 DEF FoundInv
<1> QED
  BY <1>5, <1>6, <1>7

(* A binary that is there, fits the host and is of the expected version is *)
(* never missed, on any host and whatever else is there, if isMusl was     *)
(* told the truth and the environment asks for nothing else.               *)
THEOREM ThePresentIsFound == Spec => []PresentIsFound
<1>1. Init => IInv /\ FoundInv
  BY Initial, FoundInitial
<1>2. IInv /\ FoundInv /\ [Next]_vars => (IInv /\ FoundInv)'
  BY Inductive, FoundDetect, FoundTry, FoundWasi DEF Next, Finished
<1>3. IInv /\ FoundInv => PresentIsFound
  <2> SUFFICES ASSUME IInv, FoundInv, pc = "done", path = "unset", ~ForceWasi, reliable,
                      NEW c \in disk, Fits(c.target),
                      c.kind = "package" => version = ExpectedVersion \/ ~enforce
               PROVE  outcome = "exported" /\ Fits(binding.target)
    BY DEF PresentIsFound
  <2>1. c \in Binaries(host) /\ host \in Targets
    BY DEF FoundInv
  <2>2. Loads(c)
    BY <2>1, BinariesLoad DEF Loads
  <2>3. c \in Range(plan) \cup WasmBindings
    BY <2>1 DEF FoundInv
  <2>4. ASSUME binding = NoBinding \/ wasi
        PROVE  c \in WasmBindings
    <3>1. NothingLoaded /\ next = Len(plan) + 1 /\ plan \in Seq(Candidates)
      BY <2>4 DEF FoundInv, IInv, ErrorsInv, PlanTried, DataInv
    <3>2. \A j \in DOMAIN plan : ~Loads(plan[j])
      <4>1. Len(plan) \in Nat /\ DOMAIN plan = 1 .. Len(plan) /\ next - 1 = Len(plan)
        BY <3>1, LenProperties
      <4> QED
        BY <3>1, <4>1 DEF NothingLoaded
    <3> QED
      BY <2>2, <2>3, <3>2 DEF Range
  <2>5. binding # NoBinding
    BY <2>4 DEF FoundInv
  <2>6. outcome = "exported"
    BY <2>5 DEF IInv, OutcomeInv, Outcome, ForceWasi
  <2>7. CASE wasi
    <3>1. \A w \in WasmBindings : w.target = Wasm
      BY DEF WasmBindings, File, Package
    <3>2. binding \in WasmBindings
      BY <2>7 DEF IInv, DataInv
    <3> QED
      BY <2>4, <2>6, <2>7, <3>1, <3>2
  <2>8. CASE ~wasi
    <3>1. Loads(binding)
      BY <2>5, <2>8 DEF FoundInv
    <3> QED
      BY <2>6, <3>1 DEF Loads
  <2> QED
    BY <2>7, <2>8
<1> QED
  BY <1>1, <1>2, <1>3, PTL DEF Spec
=============================================================================
