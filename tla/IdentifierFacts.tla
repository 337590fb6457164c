-------------------------- MODULE IdentifierFacts --------------------------
(***************************************************************************)
(* The subscribers' identities, as the three programs compute them, agree  *)
(* and are different for different subscribers.  Zenon writes a number out *)
(* as so many successors, so the leaves with wide numbers name SMT.        *)
(***************************************************************************)
EXTENDS Identifiers, TLAPS

----------------------------------------------------------------------------
(* Digits                                                                  *)

\* The power found is the only one that fits: numbers of equally many digits
\* have the same one (the string lengths in telecom.cpp).
LEMMA ShiftIs ==
    ASSUME NEW n \in Nat, NEW p \in Powers, n < p,
           \A q \in Powers : n < q => p <= q
    PROVE  Shift(n) = p
<1> DEFINE P(x) == n < x /\ \A q \in Powers : n < q => x <= q
<1>1. \A x \in Powers : x \in Nat
  BY SMT DEF Powers
<1>2. \A x \in Powers : P(x) => x = p
  BY SMT, <1>1
<1>3. P(p)
  BY SMT
<1> QED
  BY SMT, <1>2, <1>3 DEF Shift

\* One, two, ten, twelve and sixteen digits.
LEMMA Shifts ==
    /\ Shift(1) = 10
    /\ Shift(11) = 100
    /\ \A n \in Nat : 1000000000 <= n /\ n < 10000000000
                       => Shift(n) = 10000000000
    /\ \A n \in Nat : 100000000000 <= n /\ n < 1000000000000
                       => Shift(n) = 1000000000000
    /\ \A n \in Nat : 1000000000000000 <= n /\ n < 10000000000000000
                       => Shift(n) = 10000000000000000
<1>1. Shift(1) = 10
  BY SMT, ShiftIs DEF Powers
<1>2. Shift(11) = 100
  BY SMT, ShiftIs DEF Powers
<1>3. ASSUME NEW n \in Nat, 1000000000 <= n, n < 10000000000
      PROVE  Shift(n) = 10000000000
  <2>1. 10000000000 \in Powers /\ n < 10000000000
    BY SMT, <1>3 DEF Powers
  <2>2. \A q \in Powers : n < q => 10000000000 <= q
    BY SMT, <1>3 DEF Powers
  <2> QED  BY SMT, <2>1, <2>2, ShiftIs
<1>4. ASSUME NEW n \in Nat, 100000000000 <= n, n < 1000000000000
      PROVE  Shift(n) = 1000000000000
  <2>1. 1000000000000 \in Powers /\ n < 1000000000000
    BY SMT, <1>4 DEF Powers
  <2>2. \A q \in Powers : n < q => 1000000000000 <= q
    BY SMT, <1>4 DEF Powers
  <2> QED  BY SMT, <2>1, <2>2, ShiftIs
<1>5. ASSUME NEW n \in Nat, 1000000000000000 <= n, n < 10000000000000000
      PROVE  Shift(n) = 10000000000000000
  <2>1. 10000000000000000 \in Powers /\ n < 10000000000000000
    BY SMT, <1>5 DEF Powers
  <2>2. \A q \in Powers : n < q => 10000000000000000 <= q
    BY SMT, <1>5 DEF Powers
  <2> QED  BY SMT, <2>1, <2>2, ShiftIs
<1> QED
  BY SMT, <1>1, <1>2, <1>3, <1>4, <1>5

\* The ids both programs compute at start-up from mcc = mnc = 1 and
\* amfgi = amfc = 1 fit their types (ran.cpp:38-40, amf.cpp:86-92).
LEMMA StartUpIds ==
    /\ GetPlmnId(1, 1) = 11
    /\ GetMmei(1, 1) = 11
    /\ GetGummei(GetPlmnId(1, 1), GetMmei(1, 1)) = 1111
<1>1. Join(1, 1) = 11
  BY SMT, Shifts DEF Join
<1>2. GetPlmnId(1, 1) = 11 /\ GetMmei(1, 1) = 11
  BY SMT, <1>1 DEF GetPlmnId, GetMmei
<1> QED
  BY SMT, <1>2, Shifts DEF GetGummei, Join

----------------------------------------------------------------------------
(* The identities                                                          *)

\* The simulator's IMSI of subscriber n is the one the UPF counts up to
\* (ran.cpp:45-50 joins digits, upf.cpp:350 adds).
THEOREM ImsisAgree ==
    \A n \in Subscribers : Imsi(n) = FirstImsi + n
<1> SUFFICES ASSUME NEW n \in Subscribers
             PROVE  Imsi(n) = FirstImsi + n
  BY SMT
<1>1. n \in Nat /\ n < 1000000000
  BY SMT DEF Subscribers
<1>2. Shift(9000000000 + n) = 10000000000
  BY SMT, <1>1, Shifts
<1> QED
  BY SMT, <1>1, <1>2, StartUpIds DEF Imsi, GetImsi, Join, FirstImsi

\* The GUTI of subscriber n has sixteen digits, the last nine those of n.
LEMMA GutiOfSubscriber ==
    \A n \in Subscribers : Guti(Imsi(n)) = 1111119000000000 + n
<1> SUFFICES ASSUME NEW n \in Subscribers
             PROVE  Guti(Imsi(n)) = 1111119000000000 + n
  BY SMT
<1>1. n \in Nat /\ n < 1000000000
  BY SMT DEF Subscribers
<1>2. Imsi(n) = 119000000000 + n
  BY SMT, ImsisAgree DEF FirstImsi
<1>3. Shift(119000000000 + n) = 1000000000000
  BY SMT, <1>1, Shifts
<1> QED
  BY SMT, <1>1, <1>2, <1>3, StartUpIds DEF Guti, GetGuti, Join

\* The teid that AMF and SMF cut out of a subscriber's GUTI is its number: no
\* two subscribers share an IMSI, a GUTI or a teid, and teid 0 is one of them
\* (amf.cpp:125-134, smf.cpp:389-397).
THEOREM IdentitiesInjective ==
    /\ \A n \in Subscribers : GetS11CteidAmf(Guti(Imsi(n))) = n
    /\ \A m, n \in Subscribers :
          \/ Imsi(m) = Imsi(n)
          \/ Guti(Imsi(m)) = Guti(Imsi(n))
          \/ GetS11CteidAmf(Guti(Imsi(m))) = GetS11CteidAmf(Guti(Imsi(n)))
          => m = n
<1>1. ASSUME NEW n \in Subscribers
      PROVE  GetS11CteidAmf(Guti(Imsi(n))) = n
  <2>1. n \in Nat /\ n < 1000000000
    BY SMT DEF Subscribers
  <2>2. Guti(Imsi(n)) = 1111119000000000 + n
    BY SMT, GutiOfSubscriber
  <2>3. Shift(1111119000000000 + n) = 10000000000000000
    BY SMT, <2>1, Shifts
  <2>4. 10000000000000000 \div 10000000 = 1000000000
    BY SMT
  <2>5. (1111119000000000 + n) % 1000000000 = n
    BY SMT, <2>1
  <2>6. n % 4294967296 = n
    BY SMT, <2>1
  <2> QED
    BY SMT, <2>2, <2>3, <2>4, <2>5, <2>6 DEF GetS11CteidAmf
<1> QED
  BY SMT, <1>1

----------------------------------------------------------------------------
(* The address pool                                                        *)

\* A turn takes the next of the 252 hosts, or the first of the next subnet
\* (upf.cpp:355-361).
LEMMA NextHost ==
    ASSUME NEW k \in Nat
    PROVE  IF 3 + (k % 252) = 254
           THEN (k + 1) \div 252 = (k \div 252) + 1 /\ (k + 1) % 252 = 0
           ELSE (k + 1) \div 252 = k \div 252 /\ (k + 1) % 252 = (k % 252) + 1
BY SMT

\* One turn of the loop of set_ip_addrs (upf.cpp) keeps the pool's invariant.
LEMMA PoolInvInductive ==
    ASSUME PoolInv, [SetIpAddr]_poolVars
    PROVE  PoolInv'
<1>1. CASE UNCHANGED poolVars
  BY SMT, <1>1 DEF PoolInv, poolVars
<1>2. CASE SetIpAddr
  <2>1. i \in Nat /\ i < 10000 /\ i' = i + 1
    BY SMT, <1>2 DEF SetIpAddr, PoolInv, MaxUeCount
  <2>2. subnet' = 1 + (i' \div 252) /\ host' = 3 + (i' % 252)
    <3>1. subnet = 1 + (i \div 252) /\ host = 3 + (i % 252)
      BY SMT DEF PoolInv
    <3>2. CASE host = 254
      <4>1. subnet' = subnet + 1 /\ host' = 3
        BY SMT, <1>2, <3>2 DEF SetIpAddr
      <4> QED
        BY SMT, <2>1, <3>1, <3>2, <4>1, NextHost
    <3>3. CASE host # 254
      <4>1. subnet' = subnet /\ host' = host + 1
        BY SMT, <1>2, <3>3 DEF SetIpAddr
      <4> QED
        BY SMT, <2>1, <3>1, <3>3, <4>1, NextHost
    <3> QED
      BY SMT, <3>2, <3>3
  <2>3. DOMAIN ip_addrs' = Nat
    BY SMT, <1>2 DEF SetIpAddr, PoolInv
  <2>4. ASSUME NEW k \in Nat
        PROVE  ip_addrs'[FirstImsi + k] = AddrAfter(i', k)
    <3> FirstImsi \in Nat
      BY SMT DEF FirstImsi
    <3>1. ip_addrs[FirstImsi + k] = AddrAfter(i, k)
      BY SMT DEF PoolInv
    <3>2. CASE k = i
      <4>1. <<subnet, host>> = Addr(i)
        BY SMT DEF PoolInv, Addr
      <4>2. AddrAfter(i', k) = Addr(i)
        BY SMT, <2>1, <3>2 DEF AddrAfter
      <4>3. ip_addrs'[FirstImsi + k] = <<subnet, host>>
        BY SMT, <1>2, <2>1, <3>2 DEF SetIpAddr, PoolInv
      <4> QED
        BY Zenon, <4>1, <4>2, <4>3
    <3>3. CASE k # i
      <4>1. ip_addrs'[FirstImsi + k] = ip_addrs[FirstImsi + k]
        BY SMT, <1>2, <2>1, <3>3 DEF SetIpAddr, PoolInv
      <4>2. AddrAfter(i', k) = AddrAfter(i, k)
        BY SMT, <2>1, <3>3 DEF AddrAfter
      <4> QED
        BY SMT, <3>1, <4>1, <4>2
    <3> QED
      BY SMT, <3>2, <3>3
  <2> QED
    <3>1. i' \in 0 .. MaxUeCount
      BY SMT, <2>1 DEF MaxUeCount
    <3>2. \A k \in Nat : ip_addrs'[FirstImsi + k] = AddrAfter(i', k)
      BY Zenon, <2>4
    <3> QED
      BY Zenon, <2>2, <2>3, <3>1, <3>2 DEF PoolInv
<1> QED
  BY SMT, <1>1, <1>2

\* Every subscriber the pool is made for has an address of its own, and the UPF
\* files it under the IMSI the simulator will ask with (upf.cpp:338-364).
THEOREM AddressesSound == PoolSpec => []PoolSound
<1>1. PoolInit => PoolInv
  <2> SUFFICES ASSUME PoolInit PROVE PoolInv
    BY SMT
  <2>1. 0 \div 252 = 0 /\ 0 % 252 = 0
    BY SMT
  <2>2. ASSUME NEW k \in Nat
        PROVE  ip_addrs[FirstImsi + k] = AddrAfter(i, k)
    <3>1. FirstImsi + k \in Nat /\ ~(k < i)
      BY SMT DEF FirstImsi, PoolInit
    <3>2. ip_addrs[FirstImsi + k] = <<>>
      BY Zenon, <3>1 DEF PoolInit
    <3> QED
      BY Zenon, <3>1, <3>2 DEF AddrAfter
  <2>3. DOMAIN ip_addrs = Nat
    BY Zenon DEF PoolInit
  <2> QED
    BY SMT, <2>1, <2>2, <2>3 DEF PoolInit, PoolInv, MaxUeCount
<1>2. PoolInv /\ [SetIpAddr]_poolVars => PoolInv'
  BY SMT, PoolInvInductive
<1>3. PoolInv => PoolSound
  <2> SUFFICES ASSUME PoolInv, i = MaxUeCount PROVE PoolSound
    BY SMT DEF PoolSound
  <2>1. ASSUME NEW n \in Subscribers
        PROVE  ip_addrs[Imsi(n)] = AddrAfter(MaxUeCount, n)
    <3>1. n \in Nat
      BY SMT DEF Subscribers
    <3>2. ip_addrs[FirstImsi + n] = AddrAfter(i, n)
      BY SMT, <3>1 DEF PoolInv
    <3> QED
      BY SMT, <3>2, ImsisAgree
  <2>2. ASSUME NEW n \in Subscribers, n < MaxUeCount
        PROVE  Addr(n) \in (1 .. 255) \X (3 .. 254)
    <3>1. n \in Nat /\ n < 10000
      BY SMT, <2>2 DEF Subscribers, MaxUeCount
    <3>2. n \div 252 \in 0 .. 254 /\ n % 252 \in 0 .. 251
      BY SMT, <3>1
    <3> QED
      BY SMT, <3>2 DEF Addr
  <2>3. ASSUME NEW m \in Subscribers, NEW n \in Subscribers,
               m < MaxUeCount, n < MaxUeCount,
               ip_addrs[Imsi(m)] = ip_addrs[Imsi(n)]
        PROVE  m = n
    <3>1. m \in Nat /\ n \in Nat
      BY SMT DEF Subscribers
    <3>2. ip_addrs[Imsi(m)] = Addr(m) /\ ip_addrs[Imsi(n)] = Addr(n)
      BY Zenon, <2>1, <2>3 DEF AddrAfter
    <3>3. Addr(m) = Addr(n)
      BY Zenon, <2>3, <3>2
    <3>4. m \div 252 = n \div 252 /\ m % 252 = n % 252
      BY SMT, <3>1, <3>3 DEF Addr
    <3> QED
      BY SMT, <3>1, <3>4
  <2>4. ASSUME NEW n \in Subscribers
        PROVE  IF n < MaxUeCount
               THEN ip_addrs[Imsi(n)] \in (1 .. 255) \X (3 .. 254)
               ELSE ip_addrs[Imsi(n)] = <<>>
    <3>1. CASE n < MaxUeCount
      <4>1. ip_addrs[Imsi(n)] = Addr(n)
        BY Zenon, <2>1, <3>1 DEF AddrAfter
      <4> QED
        BY SMT, <2>2, <3>1, <4>1
    <3>2. CASE ~(n < MaxUeCount)
      BY Zenon, <2>1, <3>2 DEF AddrAfter
    <3> QED
      BY SMT, <3>1, <3>2
  <2> QED
    BY Zenon, <2>3, <2>4 DEF PoolSound
<1> QED
  BY <1>1, <1>2, <1>3, PTL DEF PoolSpec
=============================================================================
