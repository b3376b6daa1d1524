----------------------------- MODULE Addressing -----------------------------
(***************************************************************************)
(* The two networks of the bridge: the wired one, leased or static, and    *)
(* the camera's Wi-Fi.  ConfigStore decides which static address may be    *)
(* saved, NetworkManager::begin applies it at the next boot, and the       *)
(* status tells whether the two networks overlap.                          *)
(*                                                                         *)
(* An address is a number of Width bits, 32 in the program, and so is a    *)
(* mask: the set of the bits that are 1.  \cap is the intersection of two, ~  *)
(* the complement.  The order of the bytes matters to neither & nor =.     *)
(***************************************************************************)
EXTENDS Integers

CONSTANTS Width,
          Reserved     \* 127.0.0.0/8 and 224.0.0.0/3

Bits == 0..Width - 1
Addresses == SUBSET Bits

ASSUME AddressingAssumption == Width \in Nat \ {0} /\ Reserved \subseteq Addresses

VARIABLES setting,     \* ethernetDhcp, ethernetIp, ethernetSubnet
          applied,     \* the setting begin() has found
          ethernet, wifi

addressVars == <<setting, applied, ethernet, wifi>>

Dhcp == [dhcp |-> TRUE, ip |-> {}, mask |-> {}]
Off == [up |-> FALSE, ip |-> {}, mask |-> {}]
On(ip, mask) == [up |-> TRUE, ip |-> ip, mask |-> mask]

(* Prefixes, for what a network means and what a server leases.  The first *)
(* and the last address of a network name the network and all of it.       *)
HostBits(prefix) == 0..Width - prefix - 1
MaskOf(prefix) == Bits \ HostBits(prefix)
Network(ip, prefix) == {a \in Addresses : a \ HostBits(prefix) = ip \ HostBits(prefix)}
IsHost(ip, prefix) ==
  /\ ip # {} /\ ip \notin Reserved
  /\ prefix < Width => ip # ip \ HostBits(prefix) /\ ip # ip \cup HostBits(prefix)

Leases == {On(ip, MaskOf(p)) : ip \in Addresses, p \in 1..Width}

AddressInit ==
  /\ setting = Dhcp /\ applied = Dhcp
  /\ ethernet = Off /\ wifi = Off

-----------------------------------------------------------------------------

(* x + 1: a bit changes if all below it are 1; that of Width is lost. *)
PlusOne(x) == {i \in Bits : i \in x <=> ~(0..i - 1 \subseteq x)}

(* validStaticEthernet *)
ValidStatic(ip, mask) ==
  LET inverse == Bits \ mask
      host == ip \cap inverse
  IN  /\ ip # {} /\ ip \notin Reserved /\ mask # {}
      /\ inverse \cap PlusOne(inverse) = {}
      /\ inverse # {} => host # {} /\ host # inverse

SaveStatic(ip, mask) ==
  /\ ValidStatic(ip, mask)
  /\ setting' = [dhcp |-> FALSE, ip |-> ip, mask |-> mask]
  /\ UNCHANGED <<applied, ethernet, wifi>>

(* Whatever addresses come with it are kept and not used. *)
SaveDhcp == setting' = Dhcp /\ UNCHANGED <<applied, ethernet, wifi>>

BeginNetwork ==
  /\ applied' = setting
  /\ ethernet' = Off /\ wifi' = Off
  /\ UNCHANGED setting

(* DHCP may stay active although a static address was configured. *)
EthernetGotIp ==
  /\ \/ ~applied.dhcp /\ ethernet' = On(applied.ip, applied.mask)
     \/ ethernet' \in {l \in Leases : IsHost(l.ip, Width)}
  /\ UNCHANGED <<setting, applied, wifi>>

EthernetLost == ethernet' = Off /\ UNCHANGED <<setting, applied, wifi>>

WifiGotIp == wifi' \in Leases /\ UNCHANGED <<setting, applied, ethernet>>

WifiLost == wifi' = Off /\ UNCHANGED <<setting, applied, ethernet>>

AddressNext ==
  \/ \E ip, mask \in Addresses : SaveStatic(ip, mask)
  \/ SaveDhcp
  \/ BeginNetwork
  \/ EthernetGotIp \/ EthernetLost \/ WifiGotIp \/ WifiLost

AddressSpec == AddressInit /\ [][AddressNext]_addressVars

-----------------------------------------------------------------------------

(* Slip: only the wired mask is asked. *)
SubnetsOverlapWired ==
  /\ ethernet.up /\ wifi.up
  /\ ethernet.ip \cap ethernet.mask = wifi.ip \cap ethernet.mask

SubnetsOverlap ==
  /\ ethernet.up /\ wifi.up
  /\ \/ ethernet.ip \cap ethernet.mask = wifi.ip \cap ethernet.mask
     \/ ethernet.ip \cap wifi.mask = wifi.ip \cap wifi.mask

(* "If either interface considers the other address on-link, routing can   *)
(* be ambiguous" (NetworkManager.cpp:169): the status warns exactly when   *)
(* some address belongs to both networks, whatever their sizes, leased or  *)
(* saved; and a saved address is that of a host in a network of its mask,  *)
(* never one that names the network or all of it.                          *)
Prefixes(link) == {p \in 1..Width : link.mask = MaskOf(p)}

NetworksAreRead ==
  /\ ~setting.dhcp => \E p \in Prefixes(setting) : IsHost(setting.ip, p)
  /\ ethernet.up /\ wifi.up =>
       \E p \in Prefixes(ethernet), q \in Prefixes(wifi) :
         SubnetsOverlap <=> Network(ethernet.ip, p) \cap Network(wifi.ip, q) # {}
=============================================================================
