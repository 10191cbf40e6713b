------------------------------- MODULE MCLaunch -------------------------------
(* Instances of Launch: families of configurations. *)
EXTENDS Launch

Config(mode, target, herdr, stopMain, removeMain, removeProbe) ==
  [mode |-> mode, target |-> target, supported |-> TRUE, herdr |-> herdr,
   stopMain |-> stopMain, removeMain |-> removeMain, removeProbe |-> removeProbe]

\* safe-herdr requires sandbox-local-herdr.
Fits(c) == c.target = "herdr" => c.herdr

HostConfigs == {c \in {Config("host-inherited", t, h, s, r, p) :
  t \in Targets, h \in BOOLEAN, s \in BOOLEAN, r \in BOOLEAN, p \in BOOLEAN} : Fits(c)}

\* Dedicated teardown ignores stop_main_sandbox and the probe.
DedicatedConfigs == {c \in {Config("dedicated-gateway", t, h, FALSE, r, FALSE) :
  t \in Targets, h \in BOOLEAN, r \in BOOLEAN} : Fits(c)}

\* What production does: no version passes the capability check.
UnsupportedConfigs == {[c EXCEPT !.supported = FALSE] : c \in DedicatedConfigs}

AllConfigs == HostConfigs \cup DedicatedConfigs \cup UnsupportedConfigs
=============================================================================
