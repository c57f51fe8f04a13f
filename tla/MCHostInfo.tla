----------------------------- MODULE MCHostInfo -----------------------------
(* HostInfo on machines of the usual distributions, and on every mix of    *)
(* signs of virtualization.                                                *)
EXTENDS HostInfo, TLC

One(word) == File("readable", <<Line({word}, FALSE)>>, TRUE)
Locked == File("unreadable", <<>>, TRUE)

Machine(some) == [f \in Names |-> IF f \in DOMAIN some THEN some[f] ELSE IF f = "stat" THEN One("btime") ELSE Absent]

Debian == [f \in {"debian_version"} |-> One("8.1")]
Ubuntu == [f \in {"debian_version", "lsb-release"} |-> One(IF f = "lsb-release" THEN "Ubuntu" ELSE "jessie/sid")]
Raspbian == [f \in {"debian_version", "raspi-config"} |-> One("8.0")]
CentOS == [f \in {"redhat-release", "system-release"} |-> One("centos")]
Oracle == [f \in {"redhat-release", "oracle-release"} |-> One(IF f = "oracle-release" THEN "oracle" ELSE "redhat")]
Enterprise == [f \in {"redhat-release", "system-release", "enterprise-release"} |-> One("redhat")]
OpenSuSE == [f \in {"SuSE-release"} |-> One("opensuse")]
Arch == [f \in {"arch-release"} |-> Truncated]
Amazon == [f \in {"lsb-release"} |-> One("Amazon")]
Bare == [f \in {"stat"} |-> One("cpu")]
Closed == [f \in {"redhat-release", "system-release"} |-> Locked]

Distributions == {Machine(d) : d \in {Debian, Ubuntu, Raspbian, CentOS, Oracle, Enterprise, OpenSuSE, Arch, Amazon, Bare, Closed}}

(* /proc of bare machines, of hosts and of guests, nested or not.          *)
Virtual ==
  {Machine([Debian EXCEPT !["debian_version"] = One("8.1")] @@ v) :
     v \in [xen : {Absent, Truncated}, modules : {Absent, One("kvm"), One("vboxdrv"), One("vboxguest")},
            cpuinfo : {One("QEMU Virtual CPU")}, status : {One("Name:")}, vz : {Absent, Truncated},
            cgroup : {One("init"), One("docker")}]}
DomZero == Machine([f \in {"xen", "xen/capabilities"} |-> File("readable", <<Line({"control_d"}, TRUE)>>, TRUE)])

MCHosts == Distributions \cup Virtual \cup {DomZero}
=============================================================================
