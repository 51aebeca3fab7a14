---------------------------- MODULE SysfsInputs ----------------------------
(* The sysfs trees a scan of device.py is tried on, and what it must find    *)
(* in them.                                                                  *)
EXTENDS Discovery, InputState

(* The devices of sysfs, at any moment of being plugged or unplugged.       *)

Out == [address |-> 1, type |-> "bulk", size |-> "ok"]
In  == [address |-> 129, type |-> "bulk", size |-> "ok"]

EndpointLists ==
  {<<>>, <<In>>, <<Out, In>>, <<Out, [In EXCEPT !.size = "gone"]>>}
    \cup {<<[Out EXCEPT !.type = t], In>> : t \in {"iso", "missing", "denied", "gone"}}

Interfaces(n) ==
  [number : {n}, class : {"vendor", "audio", "gone"}, bound : BOOLEAN,
   listing : {"ok", "missing"}, endpoints : {<<Out, In>>}]
    \cup [number : {n}, class : {"vendor"}, bound : {FALSE}, listing : {"ok"},
          endpoints : EndpointLists]

\* Interface 1.10 comes before 1.2 in the order of the names.
InterfaceLists ==
  {<<>>} \cup {<<i>> : i \in Interfaces(2)} \cup (Interfaces(10) \X Interfaces(2))

Plain == <<[number |-> 2, class |-> "vendor", bound |-> FALSE, listing |-> "ok",
            endpoints |-> <<Out, In>>]>>

Devices ==
  [ids : {"motu"}, serial : {"A"}, numbers : {"ok"}, interfaces : InterfaceLists]
    \cup [ids : {"motu", "other", "missing", "gone"}, serial : {"A", "B", "", "denied", "gone"},
          numbers : {"ok", "missing", "gone"}, interfaces : {Plain}]

Serials == {"", "A"}

(* The device that is opened is the one of the wanted serial, and the only   *)
(* one; its interface is vendor specific, has no driver that would lose it,  *)
(* and the endpoints are bulk endpoints of that same interface, whatever is  *)
(* unplugged during the scan.  Where none is found because it is leaving, it *)
(* is waited for: unless permission is denied, whatever the scan raises      *)
(* counts as a lost device that is opened again later, not as a fault        *)
(* (device.py:80-114, 145-204, datastore.py:703-714).                        *)
ScanFindsOrWaits ==
  kind = "sysfs" =>
    \A serial \in Serials, overrides \in {NoOverrides, [interface |-> 2, ep_out |-> 1, ep_in |-> 129]} :
      FindsOrWaits(input, serial, overrides)
=============================================================================
