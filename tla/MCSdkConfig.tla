----------------------------- MODULE MCSdkConfig -----------------------------
(* An instance of SdkConfig: a branch with one CRT, one with two or one,   *)
(* master in staging only, and a server that lists more and fewer of them. *)
EXTENDS SdkConfig

MCBranch == {"7.4", "8.0", "master"}
MCCrt == {"vc15", "vs16"}

Of(b, crts, stabilities) ==
    [branch: {b}, crt: crts, arch: Arch, stability: stabilities]

Old == Of("7.4", {"vc15"}, Stability)
New == Of("8.0", {"vs16"}, {"stable"}) \cup Of("master", {"vs16"}, {"staging"})
Both == Of("7.4", {"vc15", "vs16"}, Stability) \ [branch: {"7.4"}, crt: {"vs16"}, arch: {"x86"}, stability: Stability]
MCListings == {{}, Old \cup New, New, Both}

(* Branch, CRT and force in all combinations; the other switches with some. *)
MCOptions ==
    [branch: {"7.4", "8.0", None}, crt: MCCrt \cup {None}, arch: {None}, stability: {None},
     deps: {FALSE}, force: BOOLEAN, cmd: {TRUE}]
    \cup [branch: {"7.4", "master"}, crt: {None}, arch: {"x86", "unknown"},
          stability: {None, "staging", "unknown"}, deps: {TRUE}, force: {TRUE}, cmd: {TRUE}]
    \cup [branch: {"7.4"}, crt: {None}, arch: {None}, stability: {"stable"},
          deps: BOOLEAN, force: {FALSE}, cmd: BOOLEAN]

MCEnvironments ==
    [rmtools: {FALSE}, version: {None, "7.4", "unreadable"}, onMaster: BOOLEAN,
     vs: MCCrt \cup {None}, arch: {None}, cl: {"x64"}, places: {{"parent"}}]
    \cup [rmtools: BOOLEAN, version: {"7.4"}, onMaster: {FALSE}, vs: {None, "vc15"},
          arch: {None, "x86", "unknown"}, cl: {None, "x64"},
          places: {{}, {"source"}, {"makefile", "parent"}}]
=============================================================================
