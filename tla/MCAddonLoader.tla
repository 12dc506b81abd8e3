---------------------------- MODULE MCAddonLoader ---------------------------
(***************************************************************************)
(* Hosts for the runs of module AddonLoader: every platform, with the      *)
(* architectures index.js tells apart by what it does, and unknown ones.   *)
(***************************************************************************)
EXTENDS AddonLoader, TLC

On(platform, archs, abis) ==
    {[platform |-> platform, arch |-> a, abi |-> b] : a \in archs, b \in abis}

EveryHost ==
    On("android", {"arm64", "x64"}, {""}) \cup On("win32", {"x64"}, {"gnu", "msvc"})
      \cup On("win32", {"arm64", "arm"}, {"msvc"}) \cup On("darwin", {"arm64", "ppc"}, {""})
      \cup On("freebsd", {"x64", "riscv64"}, {""}) \cup On("linux", {"x64"}, {"gnu", "musl"})
      \cup On("linux", {"arm"}, {"musl"}) \cup On("linux", {"s390x", "mips"}, {"gnu"})
      \cup On("openharmony", {"arm64", "ia32"}, {""}) \cup On("aix", {"ppc64"}, {""})

Names ==
    {"wasi", "wasm32", "universal", "", "gnu", "musl", "msvc"}
      \cup UNION {{h.platform, h.arch, h.abi} : h \in EveryHost}

(* The second is the one of package.json.                                  *)
Released == {ExpectedVersion, "0.3.1"}
=============================================================================
