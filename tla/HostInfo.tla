------------------------------ MODULE HostInfo ------------------------------
(***************************************************************************)
(* What every sample says of the machine (gopsutil host_linux.go): the     *)
(* platform from the first release file that exists, the virtualization    *)
(* from a series of looks at /proc, the boot time.  Files are looked for   *)
(* first and read later, and a package manager may truncate and rewrite    *)
(* one of them at any time.                                                *)
(***************************************************************************)
EXTENDS Naturals, Sequences, SequencesExt

CONSTANTS
  Hosts,     \* machines: file name -> contents
  Replaced   \* files that may be rewritten meanwhile

(* A line is the words on it and whether there is nothing else on it.      *)
Line(words, alone) == [words |-> words, alone |-> alone]
File(state, lines, ended) == [state |-> state, lines |-> lines, ended |-> ended]

Absent == File("absent", <<>>, TRUE)
Truncated == File("readable", <<>>, TRUE)

(* The release files in the order of the code, and the other files.        *)
Releases == <<"oracle-release", "enterprise-release", "debian_version", "redhat-release",
              "system-release", "gentoo-release", "SuSE-release", "arch-release">>
Names == {"lsb-release", "raspi-config", "xen", "xen/capabilities", "modules", "cpuinfo", "bc/0", "vz",
          "status", "cgroup", "lxc-version", "stat"} \cup Range(Releases)

States == {"absent", "readable", "unreadable"}
Lines == [words : SUBSET STRING, alone : BOOLEAN]
Words(lines) == UNION {line.words : line \in Range(lines)}

(* Raspbian is a Debian and no other distribution, and what is made from   *)
(* Red Hat is no Debian; redhat-release and the kernel's /proc/stat end    *)
(* with a newline, and nobody replaces the latter.                         *)
Distributed(h) ==
  LET has(f) == h[f].state # "absent"
  IN /\ has("raspi-config") => /\ has("debian_version") /\ ~has("oracle-release") /\ ~has("enterprise-release")
                               /\ "LinuxMint" \notin Words(h["lsb-release"].lines)
     /\ has("redhat-release") => ~has("debian_version")
     /\ h["redhat-release"].ended /\ h["stat"].ended

HostInfoAssumption ==
  /\ Hosts \subseteq [Names -> [state : States, lines : Seq(Lines), ended : BOOLEAN]]
  /\ \A h \in Hosts : Distributed(h) /\ \A f \in Names : h[f].state # "readable" => h[f].lines = <<>>
  /\ "stat" \notin Replaced

VARIABLES
  files,  \* name -> contents at present
  whole,  \* name -> contents before and after it is rewritten
  pc,     \* the step HostInfo is at; "done", or "panicked"
  lsb,    \* LSB.ID
  found,  \* the release file GetPlatformInformation will read
  info    \* HostInfoStat

vars == <<files, whole, pc, lsb, found, info>>

Init ==
  /\ whole \in Hosts /\ files = whole
  /\ pc = "lsb" /\ lsb = "" /\ found = ""
  /\ info = [platform |-> "", version |-> FALSE, system |-> "", role |-> "", boot |-> FALSE]

-----------------------------------------------------------------------------
PathExists(f) == files[f].state # "absent"
Readable(f) == files[f].state = "readable"

(* ReadLines stops at the first ReadString that fails, and that fails for  *)
(* a last line with no newline behind it.                                  *)
Complete(file) == IF file.ended THEN file.lines ELSE Front(file.lines)
ReadLines(f) == Complete(files[f])

StringsContains(f, w) == Readable(f) /\ w \in Words(ReadLines(f))
StringsHas(f, w) == Readable(f) /\ Contains(ReadLines(f), Line({w}, TRUE))

The(words) == CHOOSE w \in words : TRUE
NameOn(lines) == IF Words(lines) = {} THEN "" ELSE The(Words(lines))

-----------------------------------------------------------------------------
(* GetPlatformInformation. *)

getLSB ==
  /\ pc = "lsb"
  /\ lsb' = IF Readable("lsb-release") THEN NameOn(ReadLines("lsb-release")) ELSE ""
  /\ pc' = "platform"
  /\ UNCHANGED <<files, whole, found, info>>

(* The platform a release file stands for, whatever is written in it.      *)
Fixed(f) ==
  CASE f \in {"oracle-release", "enterprise-release"} -> "oracle"
    [] f = "debian_version" /\ lsb = "Ubuntu" -> "ubuntu"
    [] f = "debian_version" /\ lsb = "LinuxMint" -> "linuxmint"
    [] f = "debian_version" /\ lsb \notin {"Ubuntu", "LinuxMint"} ->
         IF PathExists("raspi-config") THEN "raspbian" ELSE "debian"
    [] f = "gentoo-release" -> "gentoo"
    [] f = "arch-release" -> "arch"
    [] OTHER -> ""

(* With no release file, the LSB names the platform, in small letters.     *)
ByLSB(id) ==
  CASE id = "RedHat" -> "redhat" [] id = "Amazon" -> "amazon" [] id = "ScientificSL" -> "scientific"
    [] id = "XenServer" -> "xenserver" [] OTHER -> id

(* getRedhatishPlatform, getSusePlatform.                                  *)
Named(f, lines) ==
  CASE f \in {"redhat-release", "system-release"} -> NameOn(lines)
    [] f = "SuSE-release" -> IF "opensuse" \in Words(lines) THEN "opensuse" ELSE "suse"
    [] OTHER -> info.platform

Rank(f) == SelectInSeq(Releases, LAMBDA r : r = f)
LastExisting(f) == PathExists(f) /\ \A g \in Range(Releases) : PathExists(g) => Rank(g) <= Rank(f)
Existing(f) == PathExists(f) /\ \A g \in Range(Releases) : PathExists(g) => Rank(f) <= Rank(g)

FindRelease(f) ==
  /\ pc = "platform" /\ Existing(f)
  /\ found' = f
  /\ info' = [info EXCEPT !.platform = Fixed(f), !.version = Fixed(f) \in {"ubuntu", "linuxmint"}]
  /\ pc' = IF f = "arch-release" \/ Fixed(f) \in {"ubuntu", "linuxmint"} THEN "virtualization" ELSE "release"
  /\ UNCHANGED <<files, whole, lsb>>

NoRelease ==
  /\ pc = "platform" /\ \A f \in Range(Releases) : ~PathExists(f)
  /\ info' = [info EXCEPT !.platform = ByLSB(lsb), !.version = lsb # ""]
  /\ pc' = "virtualization"
  /\ UNCHANGED <<files, whole, lsb, found>>

(* contents[0] of debian_version is taken unseen: if there is none, the    *)
(* goroutine of the sample panics, nothing recovers it, and proc_box ends. *)
(* The others search their lines for a version.                            *)
ReadRelease ==
  /\ pc = "release"
  /\ LET lines == ReadLines(found)
     IN IF ~Readable(found) THEN pc' = "virtualization" /\ UNCHANGED info
        ELSE IF found = "debian_version" /\ lines = <<>> THEN pc' = "panicked" /\ UNCHANGED info
        ELSE /\ info' = [info EXCEPT !.version = lines # <<>>, !.platform = Named(found, lines)]
             /\ pc' = "virtualization"
  /\ UNCHANGED <<files, whole, lsb, found>>

-----------------------------------------------------------------------------
(* GetVirtualization: each look may replace what the one before concluded. *)

Verdict(s, r) == [system |-> s, role |-> r]

LookXen(v) ==
  IF ~PathExists("xen") THEN v
  ELSE Verdict("xen", IF StringsHas("xen/capabilities", "control_d") THEN "host" ELSE "guest")

LookModules(v) ==
  IF StringsContains("modules", "kvm") THEN Verdict("kvm", "host")
  ELSE IF StringsContains("modules", "vboxdrv") THEN Verdict("vbox", "host")
  ELSE IF StringsContains("modules", "vboxguest") THEN Verdict("vbox", "guest")
  ELSE v

LookCPU(v) == IF StringsHas("cpuinfo", "QEMU Virtual CPU") THEN Verdict("kvm", "guest") ELSE v

LookOpenVZ(v) ==
  IF PathExists("bc/0") THEN Verdict("openvz", "host")
  ELSE IF PathExists("vz") THEN Verdict("openvz", "guest")
  ELSE v

LookVServer(v) ==
  IF StringsHas("status", "s_context:") \/ StringsHas("status", "VxID:") THEN Verdict("linux-vserver", v.role) ELSE v

LookCgroup(v) ==
  IF StringsHas("cgroup", "lxc") \/ StringsHas("cgroup", "docker") THEN Verdict("lxc", "guest")
  ELSE IF Readable("cgroup") /\ PathExists("lxc-version") THEN Verdict("lxc", "host")
  ELSE v

GetVirtualization ==
  /\ pc = "virtualization"
  /\ LET v == LookCgroup(LookVServer(LookOpenVZ(LookCPU(LookModules(LookXen(Verdict("", "")))))))
     IN info' = [info EXCEPT !.system = v.system, !.role = v.role]
  /\ pc' = "boot"
  /\ UNCHANGED <<files, whole, lsb, found>>

BootTimeOfKnown ==
  /\ pc = "boot"
  /\ info' = [info EXCEPT !.boot = StringsContains("stat", "btime") /\ info.version]
  /\ pc' = "done"
  /\ UNCHANGED <<files, whole, lsb, found>>

BootTime ==
  /\ pc = "boot"
  /\ info' = [info EXCEPT !.boot = StringsContains("stat", "btime")]
  /\ pc' = "done"
  /\ UNCHANGED <<files, whole, lsb, found>>

-----------------------------------------------------------------------------
Rewriting(f) == pc \notin {"done", "panicked"} /\ f \in Replaced /\ whole[f].state = "readable"

Truncate(f) ==
  /\ Rewriting(f) /\ files[f] = whole[f] /\ files[f] # Truncated
  /\ files' = [files EXCEPT ![f] = Truncated]
  /\ UNCHANGED <<whole, pc, lsb, found, info>>

Rewrite(f) ==
  /\ Rewriting(f) /\ files[f] # whole[f]
  /\ files' = [files EXCEPT ![f] = whole[f]]
  /\ UNCHANGED <<whole, pc, lsb, found, info>>

Next ==
  \/ getLSB \/ NoRelease \/ ReadRelease \/ GetVirtualization \/ BootTime
  \/ \E f \in Range(Releases) : FindRelease(f)
  \/ \E f \in Replaced : Truncate(f) \/ Rewrite(f)

Spec == Init /\ [][Next]_vars

-----------------------------------------------------------------------------
Done == pc = "done"
Exists(f) == whole[f].state # "absent"

(* A distribution that is made from another brings the other's files with  *)
(* it: what is reported is the one made, never the one it is made from,    *)
(* also when the file that says so is being rewritten.                     *)
DerivedIsReported ==
  Done => /\ Exists("oracle-release") \/ Exists("enterprise-release") => info.platform = "oracle"
          /\ Exists("raspi-config") => info.platform \in {"raspbian", "ubuntu"}
          /\ Exists("redhat-release") /\ Exists("system-release") /\ ~Exists("oracle-release") /\ ~Exists("enterprise-release")
               => info.platform \in {"", NameOn(whole["redhat-release"].lines)}

(* Whatever cannot be read of platform and virtualization, the boot time   *)
(* is reported when it can be read.  Only one file takes everything with   *)
(* it, that of a Debian or Raspbian with no whole line to read, as it is   *)
(* while it is replaced.                                                   *)
PartsIndependent ==
  /\ Done => (info.boot <=> "btime" \in Words(whole["stat"].lines))
  /\ pc = "panicked" =>
       /\ info.platform \in {"debian", "raspbian"}
       /\ "debian_version" \in Replaced \/ Complete(whole["debian_version"]) = <<>>

(* The description of a machine is as good as the files it can read.       *)
HostDescribed == DerivedIsReported /\ PartsIndependent
=============================================================================
