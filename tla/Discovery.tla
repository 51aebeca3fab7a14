----------------------------- MODULE Discovery -----------------------------
(***************************************************************************)
(* find_motu_device of motu_proxy/device.py: a scan of sysfs that a device *)
(* may leave while it is scanned, so every attribute is an outcome of      *)
(* reading it: "ok" or its value, "missing" (ENOENT), "denied" (EACCES),   *)
(* "garbled" (no number) or "gone" (ENODEV).                               *)
(*   Endpoint : [address, type, size]       in address order               *)
(*   Interface: [number, class, bound, listing, endpoints]                 *)
(*   Device   : [ids, serial, numbers, interfaces]    in directory order   *)
(***************************************************************************)
EXTENDS Integers, Sequences, FiniteSetsExt, Functions

IsIn(address) == address >= 128

\* What leaves a function when one of the reads in its order raises.
FirstError(errors) ==
  LET raised == {i \in DOMAIN errors : errors[i] # "none"} IN
  IF raised = {} THEN "none" ELSE errors[Min(raised)]

\* _parse_endpoint
EndpointError(ep) ==
  IF ep.type \in {"denied", "gone"} THEN ep.type
  ELSE IF ep.type \in {"bulk", "missing"} /\ ep.size \in {"denied", "gone"} THEN ep.size
  ELSE "none"

IsBulk(ep) == ep.type \in {"bulk", "missing"}

\* _discover_control_interface: an interface of class 0xFF without a driver
IsVendor_EvenBound(i) == i.class = "vendor" /\ i.listing = "ok"
IsVendor(i) == i.class = "vendor" /\ ~i.bound /\ i.listing = "ok"

InterfaceError(i) ==
  IF i.class = "gone" THEN "gone"
  ELSE IF IsVendor(i)
  THEN FirstError([k \in DOMAIN i.endpoints |-> EndpointError(i.endpoints[k])])
  ELSE "none"

Bulk(i) == {ep.address : ep \in {e \in Range(i.endpoints) : IsBulk(e)}}

ControlInterfaces(dev) ==
  {i \in Range(dev.interfaces) :
     /\ IsVendor(i)
     /\ \E a \in Bulk(i) : IsIn(a)
     /\ \E a \in Bulk(i) : ~IsIn(a)}

\* sorted(candidates)[0]
Control(dev) ==
  LET i == CHOOSE c \in ControlInterfaces(dev) :
             \A o \in ControlInterfaces(dev) : c.number <= o.number IN
  [interface |-> i.number,
   ep_out |-> Min({a \in Bulk(i) : ~IsIn(a)}), ep_in |-> Min({a \in Bulk(i) : IsIn(a)})]

-----------------------------------------------------------------------------
(* find_motu_device.  serial is "" when none is asked for; overrides is a   *)
(* record like that of Control, or NoOverrides.                             *)

NoOverrides == [interface |-> -1, ep_out |-> -1, ep_in |-> -1]

\* The attributes are read, and are those that are looked for.
Matching(dev, serial) ==
  /\ dev.ids = "motu"
  /\ dev.serial \notin {"denied", "gone"}
  /\ serial # "" => dev.serial = serial
  /\ dev.numbers = "ok"

\* What leaves find_motu_device at this device: "gone" is an OSError, which
\* the except clauses of the attributes do not name.
DeviceError(dev, serial, overrides) ==
  IF ~Matching(dev, serial)
  THEN IF \/ dev.ids = "gone"
          \/ dev.ids = "motu" /\ dev.serial = "gone"
          \/ /\ dev.ids = "motu" /\ dev.serial # "denied" /\ dev.numbers = "gone"
             /\ serial # "" => dev.serial = serial
       THEN "gone" ELSE "none"
  ELSE LET e == FirstError([k \in DOMAIN dev.interfaces |->
                              InterfaceError(dev.interfaces[k])]) IN
       IF e # "none" THEN e
       ELSE IF ControlInterfaces(dev) = {} /\ overrides = NoOverrides /\ serial # ""
       THEN "NoControl" ELSE "none"

\* [error |-> ..] or the device's position with its interface and endpoints
FindMotuDevice(sysfs, serial, overrides) ==
  LET error    == FirstError([k \in DOMAIN sysfs |-> DeviceError(sysfs[k], serial, overrides)])
      matching == {k \in DOMAIN sysfs : Matching(sysfs[k], serial)}
      found    == {k \in matching : overrides # NoOverrides \/ ControlInterfaces(sysfs[k]) # {}}
      failed(e) == [error |-> e, at |-> 0, control |-> NoOverrides]
  IN IF error # "none" THEN failed(error)
     ELSE IF found = {} THEN failed(IF matching # {} THEN "NoControl" ELSE "NoDevice")
     ELSE IF \E j, k \in found : j # k THEN failed("Multiple")
     ELSE LET k == CHOOSE k \in found : TRUE IN
          [error |-> "none", at |-> k,
           control |-> IF overrides # NoOverrides THEN overrides ELSE Control(sysfs[k])]

\* is_reconnectable_device_loss of what find_motu_device raises: ENODEV is in
\* RECONNECTABLE_USB_ERRNOS, EACCES is not
IsReconnectable(error) == error \in {"NoDevice", "NoControl", "Multiple", "gone"}

-----------------------------------------------------------------------------
(* What a scan promises, said of the sysfs it is made over.                 *)

\* A device that answers to this serial, and an interface of it that is free
\* to be claimed with a bulk endpoint in each direction; an endpoint whose type
\* cannot be read counts as bulk (_parse_endpoint).
Wanted(dev, serial) ==
  dev.ids = "motu" /\ dev.numbers = "ok" /\ (serial = "" \/ dev.serial = serial)
Claimable(i, out, inp) ==
  /\ i.class = "vendor" /\ ~i.bound /\ IsIn(inp) /\ ~IsIn(out)
  /\ \A a \in {out, inp} : \E e \in Range(i.endpoints) : e.address = a /\ e.type # "iso"

\* The device at position at is wanted and its control can be claimed; no
\* other device that is wanted, and can be read, has an interface to claim.
OnlyOne(sysfs, serial, at, control) ==
  /\ at \in DOMAIN sysfs
  /\ Wanted(sysfs[at], serial)
  /\ \E i \in Range(sysfs[at].interfaces) :
       i.number = control.interface /\ Claimable(i, control.ep_out, control.ep_in)
  /\ \A k \in DOMAIN sysfs \ {at} :
       ~(/\ Wanted(sysfs[k], serial) /\ sysfs[k].serial # "denied"
         /\ \E i \in Range(sysfs[k].interfaces) :
              /\ i.listing = "ok"
              /\ \E e, f \in Range(i.endpoints) : Claimable(i, e.address, f.address))

Denied(sysfs) ==
  \E k \in DOMAIN sysfs : \E i \in Range(sysfs[k].interfaces) :
    \E e \in Range(i.endpoints) : "denied" \in {e.type, e.size}

FindsOrWaits(sysfs, serial, overrides) ==
  LET found == FindMotuDevice(sysfs, serial, overrides) IN
  /\ found.error = "none" /\ overrides = NoOverrides =>
       OnlyOne(sysfs, serial, found.at, found.control)
  /\ ~Denied(sysfs) => found.error = "none" \/ IsReconnectable(found.error)
=============================================================================
