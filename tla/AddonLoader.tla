----------------------------- MODULE AddonLoader ----------------------------
(***************************************************************************)
(* index.js: what require("hermesmq-node") does before anything else can.  *)
(* It looks for the binary that fits the platform, as a file beside it and *)
(* as a package, then for a WASI build, and throws if there is none.       *)
(* require itself is external: it loads what is on disk and fits the host. *)
(***************************************************************************)
EXTENDS Naturals, Sequences, SequencesExt

CONSTANTS
    Words,      \* what platforms, architectures and C libraries are named with
    Hosts,      \* [platform, arch, abi]: process.platform, process.arch and
                \* the C library, "" where there is only one
    Versions,   \* the versions of the installed platform packages
    NoBinding

(* The version index.js was generated for, and compares those of the       *)
(* platform packages with.                                                 *)
ExpectedVersion == "0.2.0"

Targets == [platform : Words, arch : Words, abi : Words]
Candidates == [kind : {"file", "package", "unsupported", "path"}, target : Targets]

ASSUME LoaderAssumption ==
    /\ {"wasi", "wasm32", "universal", "", "gnu", "musl", "msvc"} \subseteq Words
    /\ Hosts \subseteq Targets
    /\ NoBinding \notin Candidates

Wasm == [platform |-> "wasi", arch |-> "wasm32", abi |-> ""]
File(t) == [kind |-> "file", target |-> t]
Package(t) == [kind |-> "package", target |-> t]
Unsupported == [kind |-> "unsupported", target |-> Wasm]
AnyPath == [kind |-> "path", target |-> Wasm]
-----------------------------------------------------------------------------
(* What requireNative tries on a platform, one after the other.  A branch  *)
(* that knows no binary for the architecture pushes an error that says so. *)

Both(t) == <<File(t), Package(t)>>
With(h, abi) == [h EXCEPT !.abi = abi]

OneOf(h, archs) == IF h.arch \in archs THEN Both(h) ELSE <<Unsupported>>

OnAndroid(h) == OneOf(h, {"arm64", "arm"})

(* The toolchain of node itself, by process.config.                        *)
OnWindows(h) ==
    CASE h.arch = "x64" -> Both(With(h, IF h.abi = "gnu" THEN "gnu" ELSE "msvc"))
      [] h.arch \in {"ia32", "arm64"} -> Both(With(h, "msvc"))
      [] OTHER -> <<Unsupported>>

Universal(h) == [h EXCEPT !.arch = "universal"]

OnMac(h) == Both(Universal(h)) \o OneOf(h, {"x64", "arm64"})

OnFreeBSD(h) == OneOf(h, {"x64", "arm64"})

TwoLibcs == {"x64", "arm64", "arm", "loong64", "riscv64"}

(* Seeded fault: nothing is pushed for an architecture that is not known.  *)
OnLinuxSilent(h, musl) ==
    CASE h.arch \in TwoLibcs -> Both(With(h, IF musl THEN "musl" ELSE "gnu"))
      [] h.arch \in {"ppc64", "s390x"} -> Both(With(h, "gnu"))
      [] OTHER -> <<>>

OnLinux(h, musl) ==
    CASE h.arch \in TwoLibcs -> Both(With(h, IF musl THEN "musl" ELSE "gnu"))
      [] h.arch \in {"ppc64", "s390x"} -> Both(With(h, "gnu"))
      [] OTHER -> <<Unsupported>>

OnOpenHarmony(h) == OneOf(h, {"arm64", "x64", "arm"})

Plan(h, musl) ==
    CASE h.platform = "android" -> OnAndroid(h)
      [] h.platform = "win32" -> OnWindows(h)
      [] h.platform = "darwin" -> OnMac(h)
      [] h.platform = "freebsd" -> OnFreeBSD(h)
      [] h.platform = "linux" -> OnLinux(h, musl)
      [] h.platform = "openharmony" -> OnOpenHarmony(h)
      [] OTHER -> <<Unsupported>>
-----------------------------------------------------------------------------
(* isMusl, and what its sources may say: the text of /usr/bin/ldd, the     *)
(* report of process.report, and the output of `ldd --version`.            *)

LddFile == {"musl", "gnu", "unreadable"}
Report == {"none", "glibc", "musl objects", "neither"}
LddOutput == {"musl", "other"}

FromFilesystem(file) == IF file = "unreadable" THEN "unknown" ELSE file

FromReport(report) ==
    CASE report = "none" -> "unknown"
      [] report = "musl objects" -> "musl"
      [] OTHER -> "gnu"

FromChildProcess(output) == IF output = "musl" THEN "musl" ELSE "gnu"

(* Seeded fault: a file that cannot be read is taken for an answer.        *)
IsMuslFromFile(file, report, output) == FromFilesystem(file) = "musl"

IsMusl(file, report, output) ==
    "musl" = IF FromFilesystem(file) # "unknown" THEN FromFilesystem(file)
             ELSE IF FromReport(report) # "unknown" THEN FromReport(report)
             ELSE FromChildProcess(output)

(* No source says anything but the truth.  Each may say nothing, the       *)
(* report of a musl too: it then names neither C library.                  *)
Truthful(h, file, report, output) ==
    /\ file \in {h.abi, "unreadable"}
    /\ report \in Report \ (IF h.abi = "musl" THEN {"glibc"} ELSE {"musl objects"})
    /\ output \in (IF h.abi = "musl" THEN LddOutput ELSE {"other"})

(* The source that decides names musl where it is musl.  Only silence can  *)
(* keep it from that, and a report's does: with no file to be read, one    *)
(* that names neither library is taken for glibc, and `ldd --version` is   *)
(* not run.                                                                *)
MuslIsNamed(h, file, report, output) ==
    h.abi = "musl" => \/ file # "unreadable"
                      \/ report = "musl objects"
                      \/ report = "none" /\ output = "musl"
-----------------------------------------------------------------------------
VARIABLES
    (* the environment, which does not change                              *)
    host, disk,   \* disk: the binaries there are, files and packages
    version,      \* of the platform packages
    path,         \* NAPI_RS_NATIVE_LIBRARY_PATH: "unset", "loads" or "fails"
    enforce,      \* NAPI_RS_ENFORCE_VERSION_CHECK
    force,        \* NAPI_RS_FORCE_WASI: "unset" (or anything else), "true", "error"
    (* index.js                                                            *)
    pc,           \* "detect", "native", "wasiFile", "wasiPackage", "end", "done"
    plan, next,   \* the candidates of requireNative, and the one it is at
    binding,      \* nativeBinding
    wasi,         \* whether wasiBinding is set
    errors,       \* loadErrors
    wasiErrors,   \* wasiBindingError and its cause
    outcome,      \* "none", "exported", or why it throws: "no wasi", "not found",
                  \* "unexplained"
    reliable      \* whether the sources of isMusl were truthful, and named musl

environment == <<host, disk, version, path, enforce, force>>
vars == <<environment, pc, plan, next, binding, wasi, errors, wasiErrors, outcome, reliable>>

(* The binaries that could be there for a host: those of its other C       *)
(* library too, and those for WASI.                                        *)
Binaries(h) ==
    {c \in Range(Plan(h, TRUE)) \cup Range(Plan(h, FALSE)) \cup {File(Wasm), Package(Wasm)} :
        c # Unsupported}

TypeOK ==
    /\ pc \in {"detect", "native", "wasiFile", "wasiPackage", "end", "done"}
    /\ next \in 1 .. Len(plan) + 1
    /\ binding \in {NoBinding} \cup Range(plan) \cup {File(Wasm), Package(Wasm)}
    /\ wasi => binding \in {File(Wasm), Package(Wasm)}
    /\ Len(errors) <= Len(plan) + 1
    /\ wasiErrors \in {<<>>, <<File(Wasm)>>, <<Package(Wasm)>>, <<File(Wasm), Package(Wasm)>>}
    /\ outcome \in {"none", "exported", "no wasi", "not found", "unexplained"}
    /\ outcome = "exported" => binding # NoBinding

Init ==
    /\ host \in Hosts
    /\ disk \in SUBSET Binaries(host)
    /\ version \in Versions
    /\ path \in {"unset", "loads", "fails"}
    /\ enforce \in BOOLEAN
    /\ force \in {"unset", "true", "error"}
    /\ pc = "detect"
    /\ plan = <<>> /\ next = 1
    /\ binding = NoBinding /\ wasi = FALSE
    /\ errors = <<>> /\ wasiErrors = <<>>
    /\ outcome = "none"
    /\ reliable = TRUE
-----------------------------------------------------------------------------
(* isMusl is called on a Linux that comes with either C library.           *)
AsksForMusl == path = "unset" /\ host.platform = "linux" /\ host.arch \in TwoLibcs

Detect ==
    /\ pc = "detect"
    /\ \/ path # "unset" /\ plan' = <<AnyPath>> /\ UNCHANGED reliable
       \/ path = "unset" /\ ~AsksForMusl /\ plan' = Plan(host, FALSE) /\ UNCHANGED reliable
       \/ /\ AsksForMusl
          /\ \E file \in LddFile, report \in Report, output \in LddOutput :
               /\ plan' = Plan(host, IsMusl(file, report, output))
               /\ reliable' = (Truthful(host, file, report, output)
                                  /\ MuslIsNamed(host, file, report, output))
    /\ pc' = "native"
    /\ UNCHANGED <<environment, next, binding, wasi, errors, wasiErrors, outcome>>

(* require: of a binary for this very platform, or for all of a platform's *)
(* architectures.                                                          *)
Fits(t) ==
    /\ t.platform = host.platform
    /\ t.arch \in {host.arch, "universal"}
    /\ t.abi \in {host.abi, ""}

Loads(c) ==
    CASE c.kind = "path" -> path = "loads"
      [] c.kind = "file" -> c \in disk /\ Fits(c.target)
      [] c.kind = "package" ->
           c \in disk /\ Fits(c.target) /\ (version = ExpectedVersion \/ ~enforce)
      [] OTHER -> FALSE

ForceWasi == force \in {"true", "error"}

(* Where index.js goes once requireNative has returned.                    *)
AfterNative(found) == IF found /\ ~ForceWasi THEN "end" ELSE "wasiFile"

TryNative ==
    /\ pc = "native" /\ next <= Len(plan)
    /\ IF Loads(plan[next])
       THEN binding' = plan[next] /\ pc' = AfterNative(TRUE) /\ UNCHANGED errors
       ELSE errors' = Append(errors, plan[next]) /\ UNCHANGED <<binding, pc>>
    /\ next' = next + 1
    /\ UNCHANGED <<environment, plan, wasi, wasiErrors, outcome, reliable>>

NativeFails ==
    /\ pc = "native" /\ next > Len(plan)
    /\ pc' = AfterNative(FALSE)
    /\ UNCHANGED <<environment, plan, next, binding, wasi, errors, wasiErrors, outcome, reliable>>

(* Seeded fault: the error of the file is kept as the package's is.        *)
TryWasiFilePushes ==
    /\ pc = "wasiFile"
    /\ IF File(Wasm) \in disk
       THEN binding' = File(Wasm) /\ wasi' = TRUE /\ UNCHANGED errors
       ELSE errors' = Append(errors, File(Wasm)) /\ UNCHANGED <<binding, wasi>>
    /\ pc' = IF binding' = NoBinding \/ ForceWasi THEN "wasiPackage" ELSE "end"
    /\ UNCHANGED <<environment, plan, next, wasiErrors, outcome, reliable>>

(* The errors of WASI are kept only if it is forced: loadErrors has the    *)
(* package's and never the file's, wasiBindingError both.                  *)
Keep(c) == wasiErrors' = IF ForceWasi THEN Append(wasiErrors, c) ELSE wasiErrors

TryWasiFile ==
    /\ pc = "wasiFile"
    /\ IF File(Wasm) \in disk
       THEN binding' = File(Wasm) /\ wasi' = TRUE /\ UNCHANGED wasiErrors
       ELSE Keep(File(Wasm)) /\ UNCHANGED <<binding, wasi>>
    /\ pc' = IF binding' = NoBinding \/ ForceWasi THEN "wasiPackage" ELSE "end"
    /\ UNCHANGED <<environment, plan, next, errors, outcome, reliable>>

TryWasiPackage ==
    /\ pc = "wasiPackage"
    /\ IF Package(Wasm) \in disk
       THEN binding' = Package(Wasm) /\ wasi' = TRUE /\ UNCHANGED <<errors, wasiErrors>>
       ELSE /\ errors' = IF ForceWasi THEN Append(errors, Package(Wasm)) ELSE errors
            /\ Keep(Package(Wasm)) /\ UNCHANGED <<binding, wasi>>
    /\ pc' = "end"
    /\ UNCHANGED <<environment, plan, next, outcome, reliable>>

(* What the errors make of it when there is no binding.                    *)
Failure == IF errors # <<>> THEN "not found" ELSE "unexplained"

(* Seeded fault: the flag is not looked at again.                          *)
OutcomeLax == IF binding # NoBinding THEN "exported" ELSE Failure

Outcome ==
    IF force = "error" /\ ~wasi THEN "no wasi"
    ELSE IF binding # NoBinding THEN "exported"
    ELSE Failure

End ==
    /\ pc = "end"
    /\ outcome' = Outcome
    /\ pc' = "done"
    /\ UNCHANGED <<environment, plan, next, binding, wasi, errors, wasiErrors, reliable>>

Finished == pc = "done" /\ UNCHANGED vars

Next ==
    \/ Detect \/ TryNative \/ NativeFails \/ TryWasiFile \/ TryWasiPackage \/ End
    \/ Finished

Spec == Init /\ [][Next]_vars
-----------------------------------------------------------------------------
(* What an error names.  "Cannot find native binding" has for causes every *)
(* native candidate of the platform, in their order and nothing twice, and *)
(* the WASI package if WASI was forced.  It does not name the WASI file,   *)
(* nor the package when WASI was only the fallback.  The error of 'error'  *)
(* has both WASI candidates for causes and drops the native ones.  And the *)
(* one error without a cause, "Failed to load native binding", is never    *)
(* thrown: every way through requireNative pushes an error.                *)
EveryFailureIsNamed ==
    /\ outcome # "unexplained"
    /\ outcome = "not found" =>
         plan # <<>> /\ errors = IF ForceWasi THEN Append(plan, Package(Wasm)) ELSE plan
    /\ outcome = "no wasi" => wasiErrors = <<File(Wasm), Package(Wasm)>>

(* A platform binary that is there, fits the host and is of the expected   *)
(* version is found, on every known platform: no earlier candidate, other  *)
(* library or WASI build keeps it from being used, unless the environment  *)
(* asks for another.  It is missed only where isMusl is misled, and that   *)
(* is, by sources that do not lie, on a musl whose deciding source is      *)
(* silent (MuslIsNamed): the musl binary is then not looked for.           *)
PresentIsFound ==
    pc = "done" /\ path = "unset" /\ ~ForceWasi /\ reliable =>
        \A c \in disk : Fits(c.target) /\ (c.kind = "package" => version = ExpectedVersion \/ ~enforce)
            => outcome = "exported" /\ Fits(binding.target)

(* The comment on NAPI_RS_FORCE_WASI: WASI is only a fallback unless it is *)
(* forced, forced it wins over a native binary, and with 'error' there is  *)
(* nothing but WASI or an error.                                           *)
WasiTriState ==
    outcome = "exported" =>
        CASE force = "unset" -> wasi => errors # <<>> /\ next > Len(plan)
          [] force = "true" -> wasi \/ {File(Wasm), Package(Wasm)} \cap disk = {}
          [] force = "error" -> wasi
=============================================================================
