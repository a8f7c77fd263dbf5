------------------------------ MODULE MCBundle ------------------------------
(* Bundle with two builders, two mapped directories, one mapped file and a  *)
(* matrix of two platforms.                                                 *)
EXTENDS Bundle, TLC

MCMappings == <<".claude-plugin", "rules">>
MCSources == {"marketplace", "rule", "notes", "NOTES", "secret", "install"}
MCDirectoryOf ==
  [s \in MCSources |-> CASE s = "marketplace" -> ".claude-plugin"
                         [] s = "install" -> None
                         [] OTHER -> "rules"]
MCAbove ==
  [s \in MCSources |-> IF s \in {"notes", "NOTES"} THEN {"rules/more"} ELSE {}]
MCTargetOf ==
  [s \in MCSources |-> CASE s = "secret" -> "payload/rules/secret.pem"
                         [] s = "install" -> "install.sh"
                         [] OTHER -> s]
MCRuntimeTarget ==
  [x \in {"macos", "windows"} \X {"gateway", "backend"} |-> x[1] \o "/" \o x[2]]
MCPortable ==
  {"VERSION", "profile.json", "bundle-manifest.json", "SHA256SUMS",
   "runtime/manifest.json", "staged/lib", "staged/tool", "staged/gateway", "staged/other",
   "vendor/lib", "vendor/LIB", "vendor/tool", "install.sh"} \cup MCSources
  \cup {MCRuntimeTarget[x] : x \in DOMAIN MCRuntimeTarget}
MCPaths == MCPortable \cup {"payload/rules/secret.pem", "../up"}
MCKey ==
  [p \in MCPaths |-> CASE p = "vendor/LIB" -> "vendor/lib"
                       [] p = "NOTES" -> "notes"
                       [] OTHER -> p]
\* All names, as they are sorted.
MCNames ==
  <<"../up", "NOTES", "SHA256SUMS", "VERSION", "bundle-manifest.json", "install", "install.sh",
    "macos", "macos/backend", "macos/gateway", "marketplace", "notes",
    "payload/rules/secret.pem", "profile.json", "rule", "runtime/manifest.json", "secret",
    "staged/gateway", "staged/lib", "staged/other", "staged/tool",
    "vendor/LIB", "vendor/lib", "vendor/tool", "windows", "windows/backend", "windows/gateway">>
MCRank == [n \in Elements(MCNames) |-> CHOOSE i \in DOMAIN MCNames : MCNames[i] = n]
MCContents == {"text", "edited", "binary", "lib", "gateway", "other gateway"}
MCRecordsIn ==
  [c \in MCContents |-> CASE c = "gateway" -> {{"fixture"}, {}}
                          [] c = "other gateway" -> {{"fixture"}, {"another"}}
                          [] OTHER -> {}]

Tree ==
  [s \in MCSources |-> IF s = "NOTES" THEN Absent ELSE "text"]
MCTrees ==
  {Tree, [Tree EXCEPT !["NOTES"] = "text", !["install"] = Link],
   [Tree EXCEPT !["rule"] = Absent], [Tree EXCEPT !["rule"] = "binary"]}
MCStaged == {"staged/lib", "staged/tool", "staged/gateway", "staged/other"}
MCStage ==
  [s \in MCStaged |-> CASE s = "staged/gateway" -> "gateway"
                        [] s = "staged/other" -> "other gateway"
                        [] OTHER -> "lib"]
MCStages == {MCStage}

File1 == [source |-> "staged/lib", target |-> "vendor/lib", sha256 |-> "lib"]
File2 == [source |-> "staged/tool", target |-> "vendor/tool", sha256 |-> "lib"]
Public == [wellFormed |-> TRUE, kind |-> "public", fixtures |-> <<>>,
           vendor |-> <<>>, runtimes |-> <<>>]
Internal == [Public EXCEPT !.kind = "internal", !.vendor = <<File1, File2>>]
Runtime(gateway) ==
  LET e(platform, component) ==
        [platform |-> platform, component |-> component,
         source |-> IF component = "gateway" THEN gateway ELSE "staged/lib",
         target |-> MCRuntimeTarget[<<platform, component>>],
         sha256 |-> IF component = "gateway" THEN MCStage[gateway] ELSE "lib"]
  IN  [Internal EXCEPT !.vendor = <<>>, !.fixtures = <<"fixture">>,
         !.runtimes = <<e("windows", "backend"), e("windows", "gateway"),
                        e("macos", "gateway"), e("macos", "backend")>>]
MCRawProfiles ==
  {Public, Internal, Runtime("staged/gateway"), Runtime("staged/other"), Runtime("staged/tool"),
   [Internal EXCEPT !.vendor = <<File2, File1>>],
   [Internal EXCEPT !.kind = "public"],
   [Internal EXCEPT !.vendor = <<File1, [File2 EXCEPT !.target = "vendor/LIB"]>>],
   [Internal EXCEPT !.vendor = <<[File1 EXCEPT !.target = "VERSION"]>>],
   [Internal EXCEPT !.vendor = <<[File1 EXCEPT !.target = "../up"]>>],
   [Runtime("staged/gateway") EXCEPT !.fixtures = <<>>],
   [Runtime("staged/gateway") EXCEPT !.runtimes = SubSeq(@, 1, 3)]}

MCInvocations ==
  [version : {"1.0"}, raw : MCRawProfiles \ {Public}, vendorDir : {TRUE}, unlisted : {{}}]
  \cup [version : {"1.0"}, raw : {Public, Internal}, vendorDir : {FALSE}, unlisted : {{}}]
  \cup [version : {"1.0"}, raw : {Public}, vendorDir : {FALSE}, unlisted : {{"rules/more"}}]

MCSymmetry == Permutations(Builders)
=============================================================================
