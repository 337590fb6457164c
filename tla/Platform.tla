------------------------------ MODULE Platform ------------------------------
(***************************************************************************)
(* The identities every component of the core shares, and the one failure  *)
(* mode they have in common: Utils::handle_type1_error ends the process.   *)
(*                                                                         *)
(* Subscriber n of the simulator owns one IMSI, one GUTI, one tunnel       *)
(* endpoint (all S11, S1 and SGi teids of its session have one value) and  *)
(* one IP address.  The digit strings the program builds them from are     *)
(* abstracted to small numbers that keep what the code relies on: the      *)
(* maps are injective, an IMSI, a GUTI or an address that is missing reads *)
(* 0, and teid 0 is a valid one, that of subscriber 0.                     *)
(***************************************************************************)
EXTENDS Naturals, Sequences, FiniteSets

CONSTANTS
    UeCount,        \* threads of the RAN simulator, one subscriber each
    WorkerCount,    \* worker threads of the AMF; the SMF and the UDM have as many
    IdSpace         \* 2^32 in the code: the range of the uint32_t mme_s1ap_ue_id

ASSUME UeCountAssumption == UeCount \in Nat \ {0}
ASSUME WorkerCountAssumption == WorkerCount \in Nat \ {0}
ASSUME IdSpaceAssumption == IdSpace \in Nat \ {0, 1}

VARIABLE exited     \* the processes that have called exit(EXIT_FAILURE)

Processes == {"amf", "smf", "upf"}

Ues == 0 .. (UeCount - 1)
Workers == 0 .. (WorkerCount - 1)
MmeIds == 0 .. (IdSpace - 1)        \* 0 stands for "not yet assigned"
Imsis == 1 .. UeCount
Teids == 0 .. UeCount               \* 1 is a teid even when there is no UE 1
Addresses == 0 .. UeCount           \* 0 is the empty string

Imsi(n) == n + 1                                    \* RanContext::init
GetGuti(imsi) == imsi                               \* Telecom::get_guti
GetS11CteidAmf(guti) == guti - 1                    \* Amf::get_s11cteidamf
IpAddr(imsi) == imsi                                \* Upf::set_ip_addrs

Running(p) == p \notin exited

\* Utils::handle_type1_error: the whole process ends.
Exit(p) == exited' = exited \cup {p}

PlatformTypeOK == exited \subseteq Processes
=============================================================================
