---------------------------- MODULE Identifiers ----------------------------
(***************************************************************************)
(* The numbers telecom.cpp makes of the decimal digits of other numbers,   *)
(* and the address pool of the UPF.  Three programs build the identity of  *)
(* a subscriber independently: the simulator joins PLMN id and MSISDN, the *)
(* AMF joins GUMMEI and IMSI and later cuts digits off for the teid, the   *)
(* UPF counts IMSIs up from a literal.  Platform takes for granted that    *)
(* they agree and that none of the maps joins two subscribers; here it is  *)
(* stated of the code's own numbers, which are too wide for TLC, and       *)
(* IdentifierFacts proves it.                                              *)
(***************************************************************************)
EXTENDS Naturals

Powers == {10, 100, 1000, 10000, 100000, 1000000, 10000000, 100000000,
           1000000000, 10000000000, 100000000000, 1000000000000,
           10000000000000, 100000000000000, 1000000000000000,
           10000000000000000}

\* The power of ten with one digit more than n.
Shift(n) == CHOOSE p \in Powers : n < p /\ \A q \in Powers : n < q => p <= q

\* stoull(to_string(a) + to_string(b))
Join(a, b) == a * Shift(b) + b

GetPlmnId(mcc, mnc) == Join(mcc, mnc) % 65536               \* uint16_t
GetMmei(mmegi, mmec) == Join(mmegi, mmec) % 4294967296      \* uint32_t
GetGummei(plmn_id, mmei) == Join(plmn_id, mmei)
GetImsi(plmn_id, msisdn) == Join(plmn_id, msisdn)
GetGuti(gummei, m_tmsi) == Join(gummei, m_tmsi)

\* The IMSI the thread of subscriber n makes of its number, the GUTI the AMF
\* makes of an IMSI, and the teid it cuts out of a GUTI: all but 7 digits.
Imsi(n) == GetImsi(GetPlmnId(1, 1), 9000000000 + n)
Guti(imsi) == GetGuti(GetGummei(GetPlmnId(1, 1), GetMmei(1, 1)), imsi)
GetS11CteidAmf(guti) == (guti % (Shift(guti) \div 10000000)) % 4294967296

\* The numbers whose MSISDN has ten digits; the literals of the UPF.
Subscribers == {n \in Nat : n < 1000000000}
MaxUeCount == 10000
FirstImsi == 119000000000

----------------------------------------------------------------------------
(* Upf::set_ip_addrs, one turn of its loop after the other                 *)

VARIABLES
    i, subnet, host,
    ip_addrs        \* by IMSI; a missing address reads "", here <<>>

poolVars == <<i, subnet, host, ip_addrs>>

PoolInit ==
    /\ i = 0 /\ subnet = 1 /\ host = 3
    /\ ip_addrs = [imsi \in Nat |-> <<>>]

SetIpAddr ==
    /\ i < MaxUeCount
    /\ i' = i + 1
    /\ ip_addrs' = [ip_addrs EXCEPT ![FirstImsi + i] = <<subnet, host>>]
    /\ \/ host = 254 /\ subnet' = subnet + 1 /\ host' = 3
       \/ host # 254 /\ host' = host + 1 /\ UNCHANGED subnet

PoolSpec == PoolInit /\ [][SetIpAddr]_poolVars

\* When the loop has ended each of the first MAX_UE_COUNT subscribers has an
\* address of its own under the IMSI the simulator gives it, with numbers that
\* fit a byte and a host from 3 to 254; no other subscriber has one: all of
\* them would share the empty address (upf.cpp:92, 338-364, ran.cpp:45-50).
PoolSound ==
    i = MaxUeCount =>
       /\ \A n \in Subscribers :
             IF n < MaxUeCount
             THEN ip_addrs[Imsi(n)] \in (1 .. 255) \X (3 .. 254)
             ELSE ip_addrs[Imsi(n)] = <<>>
       /\ \A m, n \in Subscribers :
             /\ m < MaxUeCount /\ n < MaxUeCount
             /\ ip_addrs[Imsi(m)] = ip_addrs[Imsi(n)]
             => m = n

\* The address of turn n, what subscriber n has after so many turns, and where
\* the loop stands.
Addr(n) == <<1 + (n \div 252), 3 + (n % 252)>>
AddrAfter(turns, n) == IF n < turns THEN Addr(n) ELSE <<>>

PoolInv ==
    /\ i \in 0 .. MaxUeCount
    /\ subnet = 1 + (i \div 252) /\ host = 3 + (i % 252)
    /\ DOMAIN ip_addrs = Nat
    /\ \A k \in Nat : ip_addrs[FirstImsi + k] = AddrAfter(i, k)
=============================================================================
