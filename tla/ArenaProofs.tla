----------------------------- MODULE ArenaProofs -----------------------------
(***************************************************************************)
(* Proofs about what happens on the field: Arsenal, for every number of    *)
(* weapons, every stock of ammunition and every time to reload; Posture;   *)
(* and Paintballs, for every number of players and of cells, whatever a    *)
(* paintball splits into and however long it takes to get clear of its     *)
(* owner.                                                                  *)
(***************************************************************************)
EXTENDS MCArena, TLAPS, NaturalsInduction, WellFoundedInduction

-----------------------------------------------------------------------------
(* Finding a loaded weapon.                                                 *)

\* Numbers have a least one.
LEMMA LeastIn ==
  ASSUME NEW S \in SUBSET Nat, S # {}
  PROVE  \E p \in S : \A q \in S : p <= q
<1> DEFINE R == {pair \in Nat \X Nat : pair[1] < pair[2]}
<1>1. IsWellFoundedOn(R, Nat)
  BY NatLessThanWellFounded DEF OpToRel
<1>2. \A p, q \in S : ~(<<q, p>> \in R) => p <= q
  OBVIOUS
<1> HIDE DEF R
<1>3. \E p \in S : \A q \in S : ~(<<q, p>> \in R)
  BY <1>1, WFMin
<1> QED BY <1>2, <1>3

\* The first loaded weapon is loaded, if there is one.
LEMMA FirstLoadedIs ==
  ASSUME NEW a \in [Weapons -> Nat]
  PROVE  /\ FirstLoaded(a) \in Weapons
         /\ a[FirstLoaded(a)] = 0 => \A w \in Weapons : a[w] = 0
<1>1. CASE \A w \in Weapons : a[w] = 0
  BY <1>1, ArsenalAssumption DEF FirstLoaded, Weapons
<1>2. CASE \E w \in Weapons : a[w] > 0
  <2> DEFINE S == {w \in Weapons : a[w] > 0}
  <2>1. S \in SUBSET Nat /\ S # {}
    BY <1>2 DEF Weapons
  <2>2. PICK p \in S : \A q \in S : p <= q
    BY <2>1, LeastIn
  <2>3. \A v \in 0 .. p - 1 : v \in Weapons /\ v \notin S
    BY <2>2, ArsenalAssumption DEF Weapons
  <2>4. p \in Weapons /\ a[p] > 0 /\ \A v \in 0 .. p - 1 : a[v] = 0
    BY <2>2, <2>3
  <2>5. FirstLoaded(a) \in Weapons /\ a[FirstLoaded(a)] > 0
    BY <1>2, <2>4 DEF FirstLoaded
  <2> QED BY <2>5
<1> QED BY <1>1, <1>2

\* Counting on from a weapon one comes to weapons, and to all the others.
LEMMA Round ==
  ASSUME NEW w \in Weapons
  PROVE  /\ \A i \in 1 .. NumWeapons - 1 : (w + i) % NumWeapons \in Weapons
         /\ \A v \in Weapons \ {w} : \E i \in 1 .. NumWeapons - 1 : (w + i) % NumWeapons = v
<1>1. NumWeapons \in Nat /\ NumWeapons > 0
  BY ArsenalAssumption
<1>2. \A k \in Nat : k % NumWeapons \in 0 .. NumWeapons - 1
  BY <1>1
<1>3. \A k \in 0 .. NumWeapons - 1 : k % NumWeapons = k
  BY <1>1
<1>4. \A k \in 0 .. NumWeapons - 1 : (k + NumWeapons) % NumWeapons = k
  BY <1>1
<1>5. \A i \in 1 .. NumWeapons - 1 : w + i \in Nat
  BY <1>1 DEF Weapons
<1>6. ASSUME NEW v \in Weapons \ {w}
      PROVE  \E i \in 1 .. NumWeapons - 1 : (w + i) % NumWeapons = v
  <2>1. CASE v > w
    <3>1. v - w \in 1 .. NumWeapons - 1 /\ w + (v - w) = v
      BY <1>1, <2>1 DEF Weapons
    <3> QED BY <1>3, <3>1 DEF Weapons
  <2>2. CASE v < w
    <3>1. v - w + NumWeapons \in 1 .. NumWeapons - 1 /\ w + (v - w + NumWeapons) = v + NumWeapons
      BY <1>1, <2>2 DEF Weapons
    <3> QED BY <1>4, <3>1 DEF Weapons
  <2> QED BY <2>1, <2>2 DEF Weapons
<1> QED BY <1>2, <1>5, <1>6 DEF Weapons

\* The next weapon is loaded, unless it is the one in hand and no other is.
LEMMA NextWeaponIs ==
  ASSUME NEW a \in [Weapons -> Nat], NEW w \in Weapons
  PROVE  /\ NextWeapon(a, w) \in Weapons
         /\ a[NextWeapon(a, w)] = 0 => \A v \in Weapons \ {w} : a[v] = 0
         /\ NextWeapon(a, w) # w => a[NextWeapon(a, w)] > 0
<1> DEFINE loaded == {i \in 1 .. NumWeapons - 1 : a[After(w)[i]] > 0}
<1>1. \A i \in 1 .. NumWeapons - 1 : After(w)[i] = (w + i) % NumWeapons
  BY ArsenalAssumption DEF After
<1>2. CASE loaded = {}
  <2>1. NextWeapon(a, w) = w
    BY <1>2 DEF NextWeapon
  <2>2. ASSUME NEW v \in Weapons \ {w}
        PROVE  a[v] = 0
    <3>1. PICK i \in 1 .. NumWeapons - 1 : (w + i) % NumWeapons = v
      BY Round
    <3>2. ~(a[v] > 0)
      BY <1>1, <1>2, <3>1
    <3> QED BY <3>2
  <2> QED BY <2>1, <2>2
<1>3. CASE loaded # {}
  <2>1. loaded \in SUBSET Nat
    OBVIOUS
  <2>2. \E i \in loaded : \A j \in loaded : i <= j
    BY <1>3, <2>1, LeastIn
  <2>3. PICK i \in loaded : NextWeapon(a, w) = After(w)[i]
    BY <1>3, <2>2 DEF NextWeapon
  <2>4. NextWeapon(a, w) \in Weapons /\ a[NextWeapon(a, w)] > 0
    BY <1>1, <2>3, Round
  <2> QED BY <2>4
<1> QED BY <1>2, <1>3

-----------------------------------------------------------------------------
(* What a turn does to the weapons.                                         *)

Empty(a) == \A w \in Weapons : a[w] = 0

Arms == [ammo : [Weapons -> 0 .. MaxAmmo], weapon : Weapons, reload : -1 .. Reload]

\* Arms with a loaded weapon in hand, if there is one.
Ready(a) == a \in Arms /\ (a.ammo[a.weapon] = 0 => Empty(a.ammo))

\* After a shot the weapon in hand is reloaded, or there is no ammunition.
LEMMA FireIs ==
  ASSUME NEW a \in Arms, MayFire(a)
  PROVE  /\ Ready(Fire(a))
         /\ Fire(a).ammo[a.weapon] # a.ammo[a.weapon]
         /\ Fire(a).reload = Reload \/ Empty(Fire(a).ammo)
<1> DEFINE left == [a.ammo EXCEPT ![a.weapon] = @ - 1]
           next == IF left[a.weapon] = 0 THEN NextWeapon(left, a.weapon) ELSE a.weapon
           now  == IF left[next] > 0 THEN Reload ELSE a.reload
<1>1. Fire(a) = [ammo |-> left, weapon |-> next, reload |-> now]
  BY DEF Fire
<1>2. /\ a.ammo \in [Weapons -> 0 .. MaxAmmo] /\ a.weapon \in Weapons
      /\ a.reload \in -1 .. Reload /\ a.ammo[a.weapon] > 0
  BY DEF Arms, MayFire
<1>3. left \in [Weapons -> 0 .. MaxAmmo] /\ left[a.weapon] # a.ammo[a.weapon]
  BY <1>2, ArsenalAssumption
<1>4. left \in [Weapons -> Nat]
  BY <1>3
<1> HIDE DEF left
<1>5. next \in Weapons /\ (left[next] = 0 => Empty(left))
  <2>1. CASE left[a.weapon] = 0
    BY <1>2, <1>4, <2>1, NextWeaponIs DEF Empty
  <2>2. CASE left[a.weapon] # 0
    BY <1>2, <2>2
  <2> QED BY <2>1, <2>2
<1> HIDE DEF next
<1>6. now \in -1 .. Reload /\ (now = Reload \/ Empty(left))
  <2>1. Reload \in -1 .. Reload
    BY ArsenalAssumption
  <2>2. left[next] > 0 \/ left[next] = 0
    BY <1>3, <1>5
  <2> QED BY <1>2, <1>5, <2>1, <2>2
<1> HIDE DEF now
<1> QED BY <1>1, <1>3, <1>5, <1>6 DEF Ready, Arms

\* Another weapon is selected only if it is loaded, and is then reloaded.
LEMMA SelectIs ==
  ASSUME NEW a, Ready(a), NEW w \in Weapons \cup {None}
  PROVE  /\ Ready(SelectWeapon(a, w))
         /\ SelectWeapon(a, w).ammo = a.ammo
         /\ SelectWeapon(a, w).reload \in {a.reload, Reload}
<1>1. CASE w # None /\ a.ammo[w] > 0 /\ a.weapon # w
  <2>1. SelectWeapon(a, w) = [a EXCEPT !.weapon = w, !.reload = Reload]
    BY <1>1 DEF SelectWeapon
  <2>2. w \in Weapons /\ Reload \in -1 .. Reload /\ a.ammo[w] # 0
    BY <1>1, ArsenalAssumption DEF Ready, Arms
  <2> QED BY <2>1, <2>2 DEF Ready, Arms
<1>2. CASE ~(w # None /\ a.ammo[w] > 0 /\ a.weapon # w)
  BY <1>2 DEF SelectWeapon
<1> QED BY <1>1, <1>2

\* A tick takes one off the time to reload, or two with turbo.
LEMMA CountIs ==
  ASSUME NEW r \in -1 .. Reload
  PROVE  /\ CountDown(r) \in -1 .. Reload
         /\ CountDown(r) >= r - 2
         /\ Turbo \notin powers /\ r >= 0 => CountDown(r) >= 0 /\ CountDown(r) >= r - 1
BY ArsenalAssumption DEF CountDown

-----------------------------------------------------------------------------
(* The invariants.                                                          *)

\* The time r to reload and the ticks s since the last shot make up Reload;
\* they count twice where turbo was on.
Pace(h, s, r) == (IF h THEN 2 * s ELSE s) + r >= Reload

Paced == Empty(ammo) \/ Pace(hasty, sinceShot, reload)

ArsenalInv == WeaponsSound /\ Paced

LEMMA PaceOfShot ==
  ASSUME NEW h \in BOOLEAN, NEW r \in -1 .. Reload, r >= Reload - 2,
         ~h => r >= Reload - 1
  PROVE  Pace(h, 1, r)
<1>1. Reload \in Nat /\ r \in Int
  BY ArsenalAssumption
<1> QED BY <1>1 DEF Pace

\* A tick later, with turbo now or before.
LEMMA PaceWithTurbo ==
  ASSUME NEW g \in BOOLEAN, NEW s \in 0 .. Reload, NEW r \in -1 .. Reload, Pace(g, s, r),
         NEW q \in -1 .. Reload, q >= r - 2 \/ q >= Reload - 2
  PROVE  Pace(TRUE, IF s = Reload THEN Reload ELSE s + 1, q)
<1>1. Reload \in Nat \ {0} /\ s \in Nat /\ r \in Int /\ q \in Int
  BY ArsenalAssumption
<1>2. 2 * s + r >= Reload
  BY <1>1 DEF Pace
<1> QED BY <1>1, <1>2 DEF Pace

\* A tick later, without turbo.
LEMMA PaceWithout ==
  ASSUME NEW s \in 0 .. Reload, NEW r \in -1 .. Reload, Pace(FALSE, s, r),
         NEW q \in 0 .. Reload, q >= r - 1 \/ q >= Reload - 1
  PROVE  Pace(FALSE, IF s = Reload THEN Reload ELSE s + 1, q)
<1>1. Reload \in Nat \ {0} /\ s \in Nat /\ r \in Int /\ q \in Int
  BY ArsenalAssumption
<1> QED BY <1>1 DEF Pace

LEMMA InitInv == Init => ArsenalInv
<1> SUFFICES ASSUME Init PROVE ArsenalInv
  OBVIOUS
<1>1. start \in [Weapons -> 0 .. MaxAmmo] /\ start \in [Weapons -> Nat]
  BY ArsenalAssumption DEF Init
<1>2. weapon \in Weapons /\ WeaponLoaded
  BY <1>1, FirstLoadedIs DEF Init, WeaponLoaded
<1>3. TypeOK
  <2>1. want \in Weapons \cup {None} /\ reload \in -1 .. Reload /\ sinceShot \in 0 .. Reload
    BY ArsenalAssumption DEF Init, Weapons
  <2>2. powers \subseteq Powers /\ timer \in [Powers -> 0 .. PowerTime]
    BY ArsenalAssumption DEF Init
  <2>3. start \in StartAmmo /\ turn \in BOOLEAN /\ choosing \in BOOLEAN /\ hasty \in BOOLEAN
    BY DEF Init
  <2>4. ammo \in [Weapons -> 0 .. MaxAmmo]
    BY <1>1 DEF Init
  <2> QED BY <1>2, <2>1, <2>2, <2>3, <2>4 DEF TypeOK
<1>4. Paced
  BY ArsenalAssumption DEF Init, Paced, Pace
<1> QED BY <1>2, <1>3, <1>4 DEF ArsenalInv, WeaponsSound

\* The timers of the powers stay within their types as they run.
LEMMA WearOffTypes ==
  ASSUME TypeOK, WearOff, \A u \in powers : timer[u] > 0
  PROVE  /\ powers' \subseteq Powers /\ timer' \in [Powers -> 0 .. PowerTime]
         /\ \A u \in powers' : timer'[u] > 0
<1>1. timer' = [u \in Powers |-> IF u \in powers THEN timer[u] - 1 ELSE timer[u]]
  BY DEF WearOff
<1>2. /\ powers' = {u \in powers : timer[u] > 1}
      /\ powers \subseteq Powers /\ timer \in [Powers -> 0 .. PowerTime]
  BY DEF TypeOK, WearOff
<1>3. PowerTime \in Nat
  BY ArsenalAssumption
<1>4. ASSUME NEW u \in Powers
      PROVE  (IF u \in powers THEN timer[u] - 1 ELSE timer[u]) \in 0 .. PowerTime
  <2>1. timer[u] \in 0 .. PowerTime /\ (u \in powers => timer[u] > 0)
    BY <1>2, <1>4
  <2>2. u \in powers => timer[u] - 1 \in 0 .. PowerTime
    BY <1>3, <2>1
  <2> QED BY <2>1, <2>2
<1>5. timer' \in [Powers -> 0 .. PowerTime]
  BY <1>1, <1>4
<1>6. ASSUME NEW u \in powers'
      PROVE  timer'[u] > 0
  <2>1. u \in powers /\ u \in Powers /\ timer[u] > 1 /\ timer[u] \in 0 .. PowerTime
    BY <1>2, <1>6
  <2>2. timer'[u] = timer[u] - 1
    BY <1>1, <2>1
  <2> QED BY <2>1, <2>2
<1> QED BY <1>2, <1>5, <1>6

\* The player's turn.
LEMMA TurnInv ==
  ASSUME ArsenalInv, NEW fires \in BOOLEAN, NEW selects \in BOOLEAN,
         NEW pointed \in Weapons \cup {None}, Control(fires, selects, pointed)
  PROVE  /\ ammo' \in [Weapons -> 0 .. MaxAmmo] /\ weapon' \in Weapons
         /\ reload' \in -1 .. Reload
         /\ choosing' \in BOOLEAN /\ want' \in Weapons \cup {None}
         /\ sinceShot' \in 0 .. Reload /\ hasty' \in BOOLEAN
         /\ WeaponLoaded' /\ Paced'
         /\ ammo' # ammo => sinceShot >= (IF hasty THEN (Reload + 1) \div 2 ELSE Reload)
<1> DEFINE shot  == fires /\ MayFire(Loaded)
           fired == IF shot THEN Fire(Loaded) ELSE Loaded
           taken == IF choosing /\ ~selects THEN SelectWeapon(fired, want) ELSE fired
<1>1. TypeOK /\ WeaponLoaded /\ Paced
  BY DEF ArsenalInv, WeaponsSound
<1>2. Ready(Loaded)
  BY <1>1 DEF Ready, Arms, Loaded, TypeOK, WeaponLoaded, Empty
<1>3. /\ Loaded.ammo = ammo /\ Loaded.weapon = weapon /\ Loaded.reload = reload
  BY DEF Loaded
<1>4. ASSUME shot
      PROVE  /\ fired.ammo # ammo
             /\ fired.reload = Reload \/ Empty(fired.ammo)
             /\ reload <= 0 /\ ~Empty(ammo)
  <2>1. Loaded \in Arms /\ MayFire(Loaded) /\ fired = Fire(Loaded)
    BY <1>2, <1>4 DEF Ready
  <2>2. ammo[weapon] > 0 /\ reload <= 0
    BY <1>3, <2>1 DEF MayFire
  <2>3. ~Empty(ammo)
    BY <1>1, <2>2 DEF Empty, TypeOK
  <2> QED BY <1>3, <2>1, <2>2, <2>3, FireIs
<1>5. Ready(fired) /\ (~shot => fired = Loaded) /\ (shot <=> fired # Loaded)
  <2>1. CASE shot
    <3>1. Loaded \in Arms /\ MayFire(Loaded) /\ fired = Fire(Loaded)
      BY <1>2, <2>1 DEF Ready
    <3> QED BY <1>3, <1>4, <2>1, <3>1, FireIs
  <2>2. CASE ~shot
    BY <1>2, <2>2
  <2> QED BY <2>1, <2>2
<1> HIDE DEF fired
<1>6. Ready(taken) /\ taken.ammo = fired.ammo /\ taken.reload \in {fired.reload, Reload}
  BY <1>1, <1>5, SelectIs DEF TypeOK
<1> HIDE DEF shot, taken
<1>7. /\ ammo' = taken.ammo /\ weapon' = taken.weapon /\ reload' = CountDown(taken.reload)
      /\ choosing' = selects
      /\ want' \in {want, pointed, None}
      /\ sinceShot' = IF fired # Loaded THEN 1
                      ELSE IF sinceShot = Reload THEN Reload ELSE sinceShot + 1
      /\ hasty' = (Turbo \in powers \/ (hasty /\ fired = Loaded))
  BY DEF Control, fired, taken, shot
<1>8. /\ ammo' \in [Weapons -> 0 .. MaxAmmo] /\ weapon' \in Weapons
      /\ taken.reload \in -1 .. Reload
      /\ WeaponLoaded'
  BY <1>6, <1>7 DEF Ready, Arms, WeaponLoaded, Empty
<1>9. /\ reload' \in -1 .. Reload /\ reload' >= taken.reload - 2
      /\ Turbo \notin powers /\ taken.reload >= 0 => reload' >= 0 /\ reload' >= taken.reload - 1
  BY <1>7, <1>8, CountIs
<1>10. /\ choosing' \in BOOLEAN /\ want' \in Weapons \cup {None}
       /\ sinceShot' \in 0 .. Reload /\ hasty' \in BOOLEAN
  <2>1. choosing' \in BOOLEAN /\ want' \in Weapons \cup {None}
    BY <1>1, <1>7 DEF TypeOK
  <2>2. sinceShot' \in 0 .. Reload
    BY <1>1, <1>7, ArsenalAssumption DEF TypeOK
  <2>3. hasty' \in BOOLEAN
    BY <1>7
  <2> QED BY <2>1, <2>2, <2>3
<1>11. Paced'
  <2> SUFFICES ASSUME ~Empty(ammo')
               PROVE  Pace(hasty', sinceShot', reload')
    BY DEF Paced, Empty, Pace
  <2>1. reload \in -1 .. Reload /\ sinceShot \in 0 .. Reload /\ Reload \in Nat \ {0}
    BY <1>1, ArsenalAssumption DEF TypeOK
  <2>2. CASE shot
    <3>1. taken.reload = Reload
      BY <1>4, <1>5, <1>6, <1>7, <2>2
    <3>2. sinceShot' = 1 /\ hasty' \in BOOLEAN
      BY <1>5, <1>7, <2>2
    <3>3. ~hasty' => Turbo \notin powers
      BY <1>7
    <3>4. reload' \in -1 .. Reload /\ reload' >= Reload - 2
      BY <1>9, <2>1, <3>1
    <3>5. Turbo \notin powers => reload' >= Reload - 1
      BY <1>9, <2>1, <3>1
    <3> QED BY <3>2, <3>3, <3>4, <3>5, PaceOfShot
  <2>3. CASE ~shot
    <3>1. fired = Loaded /\ fired.reload = reload /\ ammo' = ammo
      BY <1>3, <1>5, <1>6, <1>7, <2>3
    <3>2. taken.reload \in {reload, Reload}
      BY <1>6, <3>1
    <3>3. Pace(hasty, sinceShot, reload)
      BY <1>1, <3>1 DEF Paced, Empty
    <3>4. hasty \in BOOLEAN /\ hasty' = (Turbo \in powers \/ hasty)
      BY <1>1, <1>7, <3>1 DEF TypeOK
    <3>5. sinceShot' = IF sinceShot = Reload THEN Reload ELSE sinceShot + 1
      BY <1>7, <3>1
    <3>6. CASE Turbo \in powers
      <4>1. reload' \in -1 .. Reload /\ (reload' >= reload - 2 \/ reload' >= Reload - 2)
        BY <1>9, <2>1, <3>2
      <4> QED BY <2>1, <3>3, <3>4, <3>5, <3>6, <4>1, PaceWithTurbo
    <3>7. CASE Turbo \notin powers /\ hasty
      <4>1. reload' \in -1 .. Reload /\ (reload' >= reload - 2 \/ reload' >= Reload - 2)
        BY <1>9, <2>1, <3>2
      <4> QED BY <2>1, <3>3, <3>4, <3>5, <3>7, <4>1, PaceWithTurbo
    <3>8. CASE Turbo \notin powers /\ ~hasty
      <4>1. reload >= 0
        BY <2>1, <3>3, <3>8 DEF Pace
      <4>2. reload' \in 0 .. Reload /\ (reload' >= reload - 1 \/ reload' >= Reload - 1)
        BY <1>9, <2>1, <3>2, <3>8, <4>1
      <4> QED BY <2>1, <3>3, <3>4, <3>5, <3>8, <4>2, PaceWithout
    <3> QED BY <3>4, <3>6, <3>7, <3>8
  <2> QED BY <2>2, <2>3
<1>12. ASSUME ammo' # ammo
       PROVE  sinceShot >= (IF hasty THEN (Reload + 1) \div 2 ELSE Reload)
  <2>1. shot
    BY <1>3, <1>5, <1>6, <1>7, <1>12
  <2>2. reload <= 0 /\ Pace(hasty, sinceShot, reload)
    BY <1>1, <1>4, <2>1 DEF Paced
  <2>3. reload \in -1 .. Reload /\ sinceShot \in 0 .. Reload /\ Reload \in Nat \ {0}
    BY <1>1, ArsenalAssumption DEF TypeOK
  <2>4. CASE hasty
    <3>1. 2 * sinceShot >= Reload
      BY <2>2, <2>3, <2>4 DEF Pace
    <3> QED BY <2>3, <2>4, <3>1
  <2>5. CASE ~hasty
    BY <2>2, <2>3, <2>5 DEF Pace
  <2> QED BY <2>4, <2>5
<1> QED BY <1>8, <1>9, <1>10, <1>11, <1>12

-----------------------------------------------------------------------------
(* The theorems.                                                            *)

\* A power that is on has time left.
Running == \A u \in powers : timer[u] > 0

Inv == ArsenalInv /\ Running

\* No step of the arsenal breaks the invariant.
LEMMA StepInv == Inv /\ [Next]_vars => Inv'
<1> SUFFICES ASSUME Inv, [Next]_vars PROVE Inv'
  OBVIOUS
<1>1. TypeOK /\ WeaponLoaded /\ Paced /\ Running /\ ArsenalInv
  BY DEF Inv, ArsenalInv, WeaponsSound
<1>2. CASE Turn
  <2>1. PICK fires \in BOOLEAN, selects \in BOOLEAN, pointed \in Weapons \cup {None} :
          Control(fires, selects, pointed)
    BY <1>2 DEF Turn
  <2>2. /\ powers' \subseteq Powers /\ timer' \in [Powers -> 0 .. PowerTime]
        /\ Running'
    BY <1>1, <1>2, WearOffTypes DEF Turn, Running
  <2>3. start' \in StartAmmo /\ turn' \in BOOLEAN
    BY <1>1, <1>2 DEF Turn, TypeOK
  <2>4. TypeOK' /\ WeaponLoaded' /\ Paced'
    BY <1>1, <2>1, <2>2, <2>3, TurnInv DEF TypeOK
  <2> QED BY <2>2, <2>4 DEF Inv, ArsenalInv, WeaponsSound
<1>3. CASE Respawn
  <2>1. start \in [Weapons -> 0 .. MaxAmmo] /\ start \in [Weapons -> Nat]
    BY <1>1, ArsenalAssumption DEF TypeOK
  <2>2. weapon' \in Weapons /\ WeaponLoaded'
    BY <1>3, <2>1, FirstLoadedIs DEF Respawn, WeaponLoaded
  <2>3. /\ reload' \in -1 .. Reload /\ sinceShot' \in 0 .. Reload
        /\ hasty' \in BOOLEAN
    <3>1. reload' = 0 /\ sinceShot' = Reload /\ hasty' \in BOOLEAN
      BY <1>3 DEF Respawn
    <3>2. 0 \in -1 .. Reload /\ Reload \in 0 .. Reload
      BY ArsenalAssumption
    <3> QED BY <3>1, <3>2
  <2>4. powers' \subseteq Powers /\ timer' \in [Powers -> 0 .. PowerTime] /\ Running'
    BY <1>3, ArsenalAssumption DEF Respawn, Running
  <2>5. /\ start' \in StartAmmo /\ turn' \in BOOLEAN /\ ammo' \in [Weapons -> 0 .. MaxAmmo]
        /\ choosing' \in BOOLEAN /\ want' \in Weapons \cup {None}
    BY <1>1, <1>3, <2>1 DEF Respawn, TypeOK
  <2>6. Paced'
    BY <1>3, ArsenalAssumption DEF Respawn, Paced, Pace
  <2> QED BY <2>2, <2>3, <2>4, <2>5, <2>6 DEF Inv, ArsenalInv, WeaponsSound, TypeOK
<1>4. CASE Objects
  <2>1. start' = start /\ turn' = turn
    BY <1>4 DEF Objects
  <2>2. ASSUME NEW w \in Weapons, NEW switched \in BOOLEAN, TakeAmmo(w, switched)
        PROVE  Inv'
    <3> DEFINE more == [ammo EXCEPT ![w] = Lesser(MaxAmmo, @ + AmmoWorth)]
    <3>1. /\ ammo' = more /\ reload' = (IF ammo[weapon] = 0 THEN Reload ELSE reload)
          /\ weapon' \in {weapon, NextWeapon(more, weapon)}
          /\ ammo[weapon] = 0 => weapon' = NextWeapon(more, weapon)
          /\ UNCHANGED <<choosing, want, powers, timer, sinceShot, hasty>>
      BY <2>2 DEF TakeAmmo, history
    <3>2. Lesser(MaxAmmo, ammo[w] + AmmoWorth) \in 0 .. MaxAmmo
          /\ Lesser(MaxAmmo, ammo[w] + AmmoWorth) >= ammo[w]
      BY <1>1, ArsenalAssumption DEF Lesser, TypeOK
    <3>3. /\ more \in [Weapons -> 0 .. MaxAmmo] /\ more \in [Weapons -> Nat]
          /\ \A v \in Weapons : more[v] >= ammo[v]
      BY <1>1, <3>2 DEF TypeOK
    <3> HIDE DEF more
    <3>4. /\ NextWeapon(more, weapon) \in Weapons
          /\ more[NextWeapon(more, weapon)] = 0 => \A v \in Weapons \ {weapon} : more[v] = 0
          /\ NextWeapon(more, weapon) # weapon => more[NextWeapon(more, weapon)] > 0
      BY <1>1, <3>3, NextWeaponIs DEF TypeOK
    <3>5. weapon' \in Weapons /\ reload' \in -1 .. Reload
      BY <1>1, <3>1, <3>4, ArsenalAssumption DEF TypeOK
    <3>6. WeaponLoaded'
      <4> SUFFICES ASSUME more[weapon'] = 0
                   PROVE  \A v \in Weapons : more[v] = 0
        BY <3>1 DEF WeaponLoaded
      <4>1. CASE weapon' = NextWeapon(more, weapon)
        BY <3>4, <4>1
      <4>2. CASE weapon' = weapon /\ weapon # NextWeapon(more, weapon)
        <5>1. ammo[weapon] # 0
          BY <3>1, <4>2
        <5>2. weapon \in Weapons /\ ammo[weapon] \in Nat /\ more[weapon] >= ammo[weapon]
          BY <1>1, <3>3 DEF TypeOK
        <5> QED BY <4>2, <5>1, <5>2
      <4> QED BY <3>1, <4>1, <4>2
    <3>7. Paced'
      <4>1. sinceShot \in Nat /\ Reload \in Nat
        BY <1>1, ArsenalAssumption DEF TypeOK
      <4>2. CASE ammo[weapon] = 0
        <5>1. reload' = Reload /\ sinceShot' = sinceShot /\ hasty' = hasty
          BY <3>1, <4>2
        <5>2. 2 * sinceShot + Reload >= Reload /\ sinceShot + Reload >= Reload
          BY <4>1
        <5> QED BY <5>1, <5>2 DEF Paced, Pace
      <4>3. CASE ammo[weapon] # 0
        <5>1. ~Empty(ammo)
          BY <1>1, <4>3 DEF Empty, TypeOK
        <5>2. reload' = reload /\ sinceShot' = sinceShot /\ hasty' = hasty
          BY <3>1, <4>3
        <5> QED BY <1>1, <5>1, <5>2 DEF Paced
      <4> QED BY <4>2, <4>3
    <3>8. /\ start' \in StartAmmo /\ turn' \in BOOLEAN /\ ammo' \in [Weapons -> 0 .. MaxAmmo]
          /\ choosing' \in BOOLEAN /\ want' \in Weapons \cup {None}
          /\ powers' \subseteq Powers /\ timer' \in [Powers -> 0 .. PowerTime] /\ Running'
          /\ sinceShot' \in 0 .. Reload /\ hasty' \in BOOLEAN
      BY <1>1, <2>1, <3>1, <3>3 DEF TypeOK, Running
    <3> QED BY <3>5, <3>6, <3>7, <3>8 DEF Inv, ArsenalInv, WeaponsSound, TypeOK
  <2>3. ASSUME NEW u \in Powers, TakePower(u)
        PROVE  Inv'
    <3>1. /\ powers' = powers \cup {u} /\ timer' = [timer EXCEPT ![u] = PowerTime]
          /\ UNCHANGED <<ammo, weapon, reload, choosing, want, sinceShot, hasty>>
      BY <2>3 DEF TakePower, arms, history
    <3>2. PowerTime \in 0 .. PowerTime /\ PowerTime > 0
      BY ArsenalAssumption
    <3>3. powers' \subseteq Powers /\ timer' \in [Powers -> 0 .. PowerTime] /\ Running'
      BY <1>1, <3>1, <3>2 DEF TypeOK, Running
    <3>4. TypeOK'
      BY <1>1, <2>1, <3>1, <3>3 DEF TypeOK
    <3>5. WeaponLoaded' /\ Paced'
      BY <1>1, <3>1 DEF WeaponLoaded, Paced, Pace, Empty
    <3> QED BY <3>3, <3>4, <3>5 DEF Inv, ArsenalInv, WeaponsSound
  <2> QED BY <1>4, <2>2, <2>3 DEF Objects
<1>5. CASE TickEnds
  <2>1. turn' = TRUE /\ UNCHANGED <<start, arms, powers, timer, history>>
    BY <1>5 DEF TickEnds
  <2> QED BY <1>1, <2>1 DEF arms, history, Inv, Running, ArsenalInv, WeaponsSound, TypeOK,
                          WeaponLoaded, Paced, Pace, Empty
<1>6. CASE UNCHANGED vars
  BY <1>1, <1>6 DEF vars, arms, history, Inv, Running, ArsenalInv, WeaponsSound, TypeOK,
                    WeaponLoaded, Paced, Pace, Empty
<1> QED BY <1>2, <1>3, <1>4, <1>5, <1>6 DEF Next

LEMMA Invariance == Spec => []Inv
<1>1. Init => Inv
  BY InitInv DEF Inv, Running, Init
<1> QED BY <1>1, StepInv, PTL DEF Spec

\* Whatever the numbers of weapons and of shots, the arsenal keeps its types
\* and a player with any ammunition has a loaded weapon in hand.
THEOREM AlwaysArmed == Spec => []WeaponsSound
<1>1. Inv => WeaponsSound
  BY DEF Inv, ArsenalInv
<1> QED BY <1>1, Invariance, PTL

\* Whatever the time to reload, no change of weapons, no find and no power
\* lets a player shoot before its time.
THEOREM RateKept == Spec => FireRate
<1> DEFINE Kept == \A w \in Weapons : ammo'[w] < ammo[w] /\ Turn
                     => sinceShot >= (IF hasty THEN (Reload + 1) \div 2 ELSE Reload)
<1>1. Inv /\ [Next]_vars => [Kept]_vars
  <2> SUFFICES ASSUME Inv, NEW w \in Weapons, ammo'[w] < ammo[w], Turn
               PROVE  sinceShot >= (IF hasty THEN (Reload + 1) \div 2 ELSE Reload)
    OBVIOUS
  <2>1. PICK fires \in BOOLEAN, selects \in BOOLEAN, pointed \in Weapons \cup {None} :
          Control(fires, selects, pointed)
    BY DEF Turn
  <2>2. ammo' # ammo
    BY DEF Inv, ArsenalInv, WeaponsSound, TypeOK
  <2> QED BY <2>1, <2>2, TurnInv DEF Inv
<1> QED BY <1>1, Invariance, PTL DEF Spec, FireRate

-----------------------------------------------------------------------------
(***************************************************************************)
(* Posture.  Shaped: a state that the logic of legacy characters has a     *)
(* case for.  Agrees: the ground flag is set exactly for who stands, walks *)
(* or ducks, f telling that the player has not landed since it spawned.    *)
(***************************************************************************)
Shaped(s) == s.aim = s.face \/ (s.aim = "U" /\ s.stance = "STAND")
Agrees(f, s) == IF f THEN ~ s.ground /\ s.stance \in P!OnGround
                ELSE s.ground <=> s.stance \in P!OnGround
Keeps(s, t) ==
  /\ t \in P!PlayerType /\ t.stomped = s.stomped
  /\ \A f \in BOOLEAN : Agrees(f, s) => Agrees(f /\ t.stance \notin P!InAir, t)

LEMMA StrafeKeeps ==
  ASSUME NEW s \in P!PlayerType, NEW b \in SUBSET P!Buttons
  PROVE  Keeps(s, P!Strafe(b, s))
BY DEF P!Strafe, P!Held, P!Sideways, P!PlayerType, P!OnGround, P!InAir, P!Sides, Keeps, Agrees

LEMMA Recast ==
  ASSUME NEW s \in P!PlayerType, NEW face \in P!Sides, NEW aim \in P!Aims,
         NEW stance \in P!OnGround \cup P!InAir, s.stance \in P!OnGround <=> stance \in P!OnGround
  PROVE  Keeps(s, [s EXCEPT !.face = face, !.aim = aim, !.stance = stance])
BY DEF P!PlayerType, P!OnGround, P!InAir, Keeps, Agrees

LEMMA OnFootKeeps ==
  ASSUME NEW s \in P!PlayerType, NEW b \in SUBSET P!Buttons, s.stance \in P!OnGround
  PROVE  Keeps(s, P!OnFoot(b, s))
<1>1. P!Held(b, s) \in P!Sides /\ P!Pointed(b, P!Held(b, s)) \in P!Aims
  BY DEF P!Held, P!Pointed, P!PlayerType, P!Sides, P!Aims, P!Sideways
<1> DEFINE down == "DOWN" \in b /\ "UP" \notin b
           aim == IF down /\ ~P!Sideways(b) THEN P!Held(b, s) ELSE P!Pointed(b, P!Held(b, s))
           stance == IF P!Sideways(b) /\ ~(s.stance = "DUCK" /\ down) THEN "WALK"
                     ELSE IF down THEN "DUCK" ELSE "STAND"
<1>2. aim \in P!Aims /\ stance \in P!OnGround
  BY <1>1 DEF P!Sides, P!Aims, P!OnGround
<1>3. P!OnFoot(b, s) = [s EXCEPT !.face = P!Held(b, s), !.aim = aim, !.stance = stance]
  BY DEF P!OnFoot
<1>4. stance \in P!OnGround \cup P!InAir /\ (s.stance \in P!OnGround <=> stance \in P!OnGround)
  BY <1>2
<1> DEFINE face == P!Held(b, s)
<1>6. face \in P!Sides BY <1>1
<1>7. P!OnFoot(b, s) = [s EXCEPT !.face = face, !.aim = aim, !.stance = stance] BY <1>3
<1> HIDE DEF aim, stance, face
<1>5. Keeps(s, [s EXCEPT !.face = face, !.aim = aim, !.stance = stance])
  BY <1>6, <1>2, <1>4, Recast
<1> QED BY <1>7, <1>5

LEMMA AirborneKeeps ==
  ASSUME NEW s \in P!PlayerType, NEW b \in SUBSET P!Buttons, s.stance \in P!InAir
  PROVE  Keeps(s, P!Airborne(b, s))
<1>1. P!Held(b, s) \in P!Sides /\ P!Pointed(b, P!Held(b, s)) \in P!Aims
  BY DEF P!Held, P!Pointed, P!PlayerType, P!Sides, P!Aims, P!Sideways
<1> DEFINE stance == IF s.stance = "JUMP" /\ s.vy # "up" THEN "FALL"
                     ELSE IF s.stance = "FALL" /\ s.vy = "up" THEN "JUMP" ELSE s.stance
<1>2. stance \in P!InAir /\ stance \notin P!OnGround /\ s.stance \notin P!OnGround
  BY DEF P!InAir, P!OnGround
<1>3. P!Airborne(b, s) = [s EXCEPT !.face = P!Held(b, s), !.aim = P!Pointed(b, P!Held(b, s)), !.stance = stance]
  BY DEF P!Airborne
<1> DEFINE face == P!Held(b, s)
           aim == P!Pointed(b, P!Held(b, s))
<1>5. face \in P!Sides /\ aim \in P!Aims BY <1>1
<1>6. P!Airborne(b, s) = [s EXCEPT !.face = face, !.aim = aim, !.stance = stance] BY <1>3
<1>4. stance \in P!OnGround \cup P!InAir /\ (s.stance \in P!OnGround <=> stance \in P!OnGround)
  BY <1>2
<1> HIDE DEF stance, face, aim
<1>7. Keeps(s, [s EXCEPT !.face = face, !.aim = aim, !.stance = stance])
  BY <1>4, <1>5, Recast
<1> QED BY <1>6, <1>7

LEMMA JumpKeyKeeps ==
  ASSUME NEW s \in P!PlayerType, NEW b \in SUBSET P!Buttons, NEW through \in BOOLEAN,
         through => s.ground
  PROVE  Keeps(s, P!JumpKey(b, s, through))
BY DEF P!JumpKey, P!JumpUp, P!DropDown, P!PlayerType, P!OnGround, P!InAir, Keeps, Agrees
LEMMA JumpKeyLeaves ==
  ASSUME NEW s \in P!PlayerType, NEW b \in SUBSET P!Buttons, NEW through \in BOOLEAN,
         s.stance \in P!InAir
  PROVE  P!JumpKey(b, s, through).stance \in P!InAir
BY DEF P!JumpKey, P!JumpUp, P!DropDown, P!PlayerType, P!OnGround, P!InAir

LEMMA ModernKeeps ==
  ASSUME NEW s \in P!PlayerType, NEW b \in SUBSET P!Buttons, NEW choose \in BOOLEAN,
         NEW through \in BOOLEAN, through => s.ground
  PROVE  Keeps(s, P!Modern(b, s, choose, through))
<1> DEFINE t == CASE "STRAFE" \in b -> P!Strafe(b, s)
                  [] choose /\ "STRAFE" \notin b -> s
                  [] OTHER -> (CASE s.stance \in P!InAir -> P!Airborne(b, s)
                                 [] s.stance = "DUCK"  -> P!Ducked(b, s)
                                 [] OTHER              -> P!OnFoot(b, s))
           u == P!JumpKey(b, t, through)
           v == IF u.stance = "JUMP" /\ u.vy = "down" THEN [u EXCEPT !.stance = "FALL"] ELSE u
<1>1. Keeps(s, s)
  BY DEF Keeps, Agrees, P!PlayerType, P!OnGround, P!InAir
<1>2. P!OnGround \cap P!InAir = {} /\ s.stance \in P!OnGround \cup P!InAir
  BY DEF P!PlayerType, P!OnGround, P!InAir
<1>3. Keeps(s, t) /\ t.ground = s.ground
  <2>1. CASE "STRAFE" \in b
    <3>1. t = P!Strafe(b, s) BY <2>1
    <3>2. P!Strafe(b, s).ground = s.ground BY DEF P!Strafe, P!PlayerType
    <3> QED BY <3>1, <3>2, StrafeKeeps
  <2>2. CASE "STRAFE" \notin b /\ choose
    <3>1. t = s BY <2>2
    <3> QED BY <3>1, <1>1
  <2>3. CASE "STRAFE" \notin b /\ ~ choose /\ s.stance \in P!InAir
    <3>1. t = P!Airborne(b, s) BY <2>3 DEF P!InAir
    <3>2. P!Airborne(b, s).ground = s.ground BY DEF P!Airborne, P!PlayerType
    <3> QED BY <2>3, <3>1, <3>2, AirborneKeeps
  <2>4. CASE "STRAFE" \notin b /\ ~ choose /\ s.stance \notin P!InAir
    <3>1. s.stance \in P!OnGround BY <2>4, <1>2
    <3>2. t = P!OnFoot(b, s) \/ t = s
      BY <2>4 DEF P!Ducked
    <3>3. P!OnFoot(b, s).ground = s.ground BY DEF P!OnFoot, P!PlayerType
    <3> QED BY <1>1, <3>1, <3>2, <3>3, OnFootKeeps
  <2> QED BY <2>1, <2>2, <2>3, <2>4
<1> HIDE DEF t
<1>4. t \in P!PlayerType BY <1>3 DEF Keeps
<1>5. Keeps(t, u)
  <2>1. through => t.ground
    <3>1. CASE through
      <4>1. s.ground BY <3>1
      <4> QED BY <4>1, <1>3, Zenon
    <3> QED BY <3>1
  <2> QED BY <2>1, <1>4, JumpKeyKeeps
<1>6. t.stance \in P!InAir => u.stance \in P!InAir BY <1>4, JumpKeyLeaves
<1> HIDE DEF u
<1>7. Keeps(s, u)
  BY <1>3, <1>5, <1>6 DEF Keeps
<1>8. v \in P!PlayerType /\ v.stomped = u.stomped /\ v.ground = u.ground
      /\ (v.stance \in P!InAir <=> u.stance \in P!InAir)
      /\ (v.stance \in P!OnGround <=> u.stance \in P!OnGround)
  BY <1>7 DEF Keeps, P!PlayerType, P!InAir, P!OnGround
<1> HIDE DEF v
<1>9. Keeps(s, v)
  BY <1>7, <1>8 DEF Keeps, Agrees
<1>10. P!Modern(b, s, choose, through) = v
  BY DEF P!Modern, t, u, v
<1> QED BY <1>9, <1>10

LEMMA LookType ==
  ASSUME NEW s \in P!PlayerType, NEW stance \in P!OnGround \cup P!InAir, NEW side \in P!Sides
  PROVE  /\ P!Look(s, stance, side) \in P!PlayerType
         /\ P!Look(s, stance, side).stomped = s.stomped /\ P!Look(s, stance, side).ground = s.ground
         /\ P!Look(s, stance, side).stance = stance /\ Shaped(P!Look(s, stance, side))
BY DEF P!Look, P!PlayerType, Shaped, P!Sides, P!Aims

Good(s, t) == Keeps(s, t) /\ Shaped(t)

LEMMA LegacyKeeps ==
  ASSUME NEW s \in P!PlayerType, NEW b \in SUBSET P!Buttons, NEW choose \in BOOLEAN,
         NEW through \in BOOLEAN, through => s.ground, Shaped(s)
  PROVE  Good(s, P!Legacy(b, s, choose, through))
<1>1. Good(s, s)
  BY DEF Good, Keeps, Agrees, P!PlayerType, P!OnGround, P!InAir
<1>2. s.face \in {"L", "R"} /\ P!Opposite(s.face) \in {"L", "R"} /\ s.stance \in P!OnGround \cup P!InAir
  BY DEF P!PlayerType, P!Sides, P!Opposite
<1>3. \A f \in {"L", "R"}, st \in P!OnGround : s.stance \in P!OnGround => Good(s, P!Look(s, st, f))
  <2> TAKE f \in {"L", "R"}, st \in P!OnGround
  <2> DEFINE l == P!Look(s, st, f)
  <2>1. l \in P!PlayerType /\ l.stomped = s.stomped /\ l.ground = s.ground /\ l.stance = st /\ Shaped(l)
    BY LookType DEF P!Sides
  <2> HIDE DEF l
  <2>2. s.stance \in P!OnGround => Good(s, l) BY <2>1 DEF Good, Keeps, Agrees, P!OnGround, P!InAir
  <2> QED BY <2>1, <2>2 DEF l
<1>4. Good(s, P!JumpUp(P!Look(s, "JUMP", s.face)))
  <2> DEFINE l == P!JumpUp(P!Look(s, "JUMP", s.face))
  <2>1. l \in P!PlayerType /\ l.stomped = s.stomped /\ l.ground = FALSE /\ l.stance = "JUMP" /\ Shaped(l)
    BY DEF P!Look, P!JumpUp, P!PlayerType, Shaped, P!Sides, P!Aims, P!InAir
  <2> HIDE DEF l
  <2>2. Good(s, l) BY <2>1 DEF Good, Keeps, Agrees, P!OnGround, P!InAir
  <2> QED BY <2>2 DEF l
<1>5. s.stance \in P!OnGround => Good(s, [s EXCEPT !.stance = "STAND", !.aim = "U"])
  BY DEF Good, Keeps, Agrees, P!PlayerType, P!OnGround, P!InAir, Shaped, P!Aims
<1>6. s.stance = "STAND" => [s EXCEPT !.aim = "U"] = [s EXCEPT !.stance = "STAND", !.aim = "U"]
  BY DEF P!PlayerType
<1>7. s.ground /\ s.aim = s.face => Good(s, P!DropDown(s))
  BY DEF Good, Keeps, Agrees, P!PlayerType, P!OnGround, P!InAir, Shaped, P!DropDown
<1>8. \A f \in {"L", "R"}, st \in P!InAir : s.stance \in P!InAir => Good(s, P!Look(s, st, f))
  <2> TAKE f \in {"L", "R"}, st \in P!InAir
  <2> DEFINE l == P!Look(s, st, f)
  <2>1. l \in P!PlayerType /\ l.stomped = s.stomped /\ l.ground = s.ground /\ l.stance = st /\ Shaped(l)
    BY LookType DEF P!Sides
  <2> HIDE DEF l
  <2>2. s.stance \in P!InAir => Good(s, l) BY <2>1 DEF Good, Keeps, Agrees, P!OnGround, P!InAir
  <2> QED BY <2>1, <2>2 DEF l
<1>9. \A st \in P!InAir : s.stance \in P!InAir /\ s.aim = s.face => Good(s, [s EXCEPT !.stance = st])
  BY DEF Good, Keeps, Agrees, P!PlayerType, P!OnGround, P!InAir, Shaped
<1>10. {"STAND", "WALK", "DUCK"} = P!OnGround /\ {"JUMP", "FALL"} = P!InAir
  BY DEF P!OnGround, P!InAir
<1>11. CASE choose \/ s.aim \notin {s.face, "U"}
  <2>1. P!Legacy(b, s, choose, through) = s
    BY <1>11 DEF P!Legacy
  <2> QED BY <1>1, <2>1
<1>12. CASE ~choose /\ s.stance = "STAND" /\ s.aim = s.face
  <2>1. P!Legacy(b, s, choose, through) = P!LegacyStand(b, s)
    BY <1>12, <1>2, <1>10 DEF P!Legacy
  <2>2. \/ P!LegacyStand(b, s) = s
        \/ P!LegacyStand(b, s) = P!JumpUp(P!Look(s, "JUMP", s.face))
        \/ P!LegacyStand(b, s) = P!Look(s, "WALK", "L")
        \/ P!LegacyStand(b, s) = P!Look(s, "WALK", "R")
        \/ P!LegacyStand(b, s) = P!Look(s, "DUCK", s.face)
        \/ P!LegacyStand(b, s) = [s EXCEPT !.aim = "U"]
    BY DEF P!LegacyStand
  <2>3. Good(s, [s EXCEPT !.aim = "U"]) BY <1>12, <1>5, <1>6, <1>10
  <2>4. Good(s, P!Look(s, "WALK", "L")) /\ Good(s, P!Look(s, "WALK", "R")) /\ Good(s, P!Look(s, "DUCK", s.face))
    BY <1>12, <1>3, <1>2, <1>10
  <2>5. Good(s, P!LegacyStand(b, s))
    BY <2>2, <2>3, <2>4, <1>1, <1>4, Zenon
  <2> QED BY <2>1, <2>5
<1>13. CASE ~choose /\ s.stance = "STAND" /\ s.aim = "U"
  <2>1. P!Legacy(b, s, choose, through) = P!LegacyStandUp(b, s)
    BY <1>13, <1>2 DEF P!Legacy
  <2>2. \/ P!LegacyStandUp(b, s) = s
        \/ P!LegacyStandUp(b, s) = P!JumpUp(P!Look(s, "JUMP", s.face))
        \/ P!LegacyStandUp(b, s) = P!Look(s, "STAND", s.face)
    BY DEF P!LegacyStandUp
  <2>3. Good(s, P!Look(s, "STAND", s.face)) BY <1>13, <1>3, <1>2, <1>10
  <2>5. Good(s, P!LegacyStandUp(b, s))
    BY <2>2, <2>3, <1>1, <1>4, Zenon
  <2> QED BY <2>1, <2>5
<1>14. CASE ~choose /\ s.stance = "WALK" /\ s.aim = s.face
  <2>1. P!Legacy(b, s, choose, through) = P!LegacyWalk(b, s)
    BY <1>14, <1>2, <1>10 DEF P!Legacy
  <2>2. \/ P!LegacyWalk(b, s) = s
        \/ P!LegacyWalk(b, s) = P!JumpUp(P!Look(s, "JUMP", s.face))
        \/ P!LegacyWalk(b, s) = P!Look(s, "STAND", s.face)
        \/ P!LegacyWalk(b, s) = P!Look(s, "WALK", P!Opposite(s.face))
        \/ P!LegacyWalk(b, s) = P!Look(s, "DUCK", s.face)
        \/ P!LegacyWalk(b, s) = [s EXCEPT !.stance = "STAND", !.aim = "U"]
    BY DEF P!LegacyWalk
  <2>3. /\ Good(s, P!Look(s, "STAND", s.face)) /\ Good(s, P!Look(s, "WALK", P!Opposite(s.face)))
        /\ Good(s, P!Look(s, "DUCK", s.face)) /\ Good(s, [s EXCEPT !.stance = "STAND", !.aim = "U"])
    BY <1>14, <1>3, <1>2, <1>5, <1>10
  <2>5. Good(s, P!LegacyWalk(b, s))
    BY <2>2, <2>3, <1>1, <1>4, Zenon
  <2> QED BY <2>1, <2>5
<1>15. CASE ~choose /\ s.stance = "DUCK" /\ s.aim = s.face
  <2>1. P!Legacy(b, s, choose, through) = P!LegacyDuck(b, s, through)
    BY <1>15, <1>2, <1>10 DEF P!Legacy
  <2>2. \/ P!LegacyDuck(b, s, through) = s
        \/ P!LegacyDuck(b, s, through) = P!Look(s, "STAND", s.face)
        \/ s.ground /\ P!LegacyDuck(b, s, through) = P!DropDown(s)
    BY DEF P!LegacyDuck
  <2>3. Good(s, P!Look(s, "STAND", s.face)) BY <1>15, <1>3, <1>2, <1>10
  <2>4. s.ground => Good(s, P!DropDown(s)) BY <1>7, <1>15
  <2>5. Good(s, P!LegacyDuck(b, s, through))
    BY <2>2, <2>3, <2>4, <1>1, Zenon
  <2> QED BY <2>1, <2>5
<1>16. CASE ~choose /\ s.stance \in P!InAir /\ s.aim = s.face
  <2>1. P!Legacy(b, s, choose, through) = P!LegacyAir(b, s)
    BY <1>16 DEF P!Legacy, P!InAir
  <2>2. \/ P!LegacyAir(b, s) = s
        \/ P!LegacyAir(b, s) = [s EXCEPT !.stance = "FALL"]
        \/ P!LegacyAir(b, s) = [s EXCEPT !.stance = "JUMP"]
        \/ P!LegacyAir(b, s) = P!Look(s, s.stance, P!Opposite(s.face))
    BY DEF P!LegacyAir
  <2>3. /\ Good(s, [s EXCEPT !.stance = "FALL"]) /\ Good(s, [s EXCEPT !.stance = "JUMP"])
        /\ Good(s, P!Look(s, s.stance, P!Opposite(s.face)))
    BY <1>16, <1>8, <1>9, <1>2, <1>10
  <2>5. Good(s, P!LegacyAir(b, s))
    BY <2>2, <2>3, <1>1, Zenon
  <2> QED BY <2>1, <2>5
<1> QED BY <1>2, <1>10, <1>11, <1>12, <1>13, <1>14, <1>15, <1>16 DEF Shaped

\* Of the rest of a turn: speed and friction, the floor that ends, who is met.
Speeds == {"up", "still", "down"}

LEMMA MovingOn ==
  ASSUME NEW s \in P!PlayerType, NEW vy \in Speeds, NEW j \in BOOLEAN
  PROVE  /\ Good(s, [s EXCEPT !.vy = vy, !.jumpedDown = j]) \/ ~ Shaped(s)
         /\ Keeps(s, [s EXCEPT !.vy = vy, !.jumpedDown = j])
BY DEF Good, Keeps, Agrees, Shaped, Speeds, P!PlayerType, P!OnGround, P!InAir

LEMMA StopKeeps ==
  ASSUME NEW s \in P!PlayerType
  PROVE  /\ Keeps(s, P!Stop(s)) /\ P!Stop(s).ground = s.ground
         /\ (P!Stop(s).stance \in P!InAir <=> s.stance \in P!InAir)
         /\ (P!Stop(s).stance \in P!OnGround <=> s.stance \in P!OnGround)
         /\ (Shaped(s) => Shaped(P!Stop(s)))
BY DEF P!Stop, Keeps, Agrees, Shaped, P!PlayerType, P!OnGround, P!InAir

LEMMA FallenKeeps ==
  ASSUME NEW s \in P!PlayerType, s.ground, s.stance \in P!OnGround, legacy.character \in BOOLEAN,
         legacy.character => Shaped(s)
  PROVE  /\ Keeps(s, P!Fallen(s))
         /\ (legacy.character => Shaped(P!Fallen(s)))
<1> DEFINE t == [s EXCEPT !.ground = FALSE]
           l == P!Look(t, "FALL", s.face)
           m == [t EXCEPT !.stance = "FALL"]
<1>1. t \in P!PlayerType /\ t.stomped = s.stomped /\ ~ t.ground /\ s.face \in P!Sides
  BY DEF P!PlayerType
<1>2. l \in P!PlayerType /\ l.stomped = s.stomped /\ ~ l.ground /\ l.stance = "FALL" /\ Shaped(l)
  <2> HIDE DEF t
  <2>1. "FALL" \in P!OnGround \cup P!InAir BY DEF P!InAir
  <2> DEFINE face == s.face
  <2>2. face \in P!Sides BY <1>1
  <2>4. l = P!Look(t, "FALL", face) OBVIOUS
  <2> HIDE DEF face
  <2>3. /\ P!Look(t, "FALL", face) \in P!PlayerType
        /\ P!Look(t, "FALL", face).stomped = t.stomped /\ P!Look(t, "FALL", face).ground = t.ground
        /\ P!Look(t, "FALL", face).stance = "FALL" /\ Shaped(P!Look(t, "FALL", face))
    BY <1>1, <2>1, <2>2, LookType
  <2> QED BY <1>1, <2>3, <2>4
<1>3. m \in P!PlayerType /\ m.stomped = s.stomped /\ ~ m.ground /\ m.stance = "FALL"
  BY DEF P!PlayerType, P!InAir
<1>4. legacy.character => P!LegacyFalls(s)
  BY DEF P!LegacyFalls, Shaped, P!OnGround
<1>5. P!Fallen(s) = IF legacy.character THEN l ELSE m
  BY <1>4 DEF P!Fallen
<1> HIDE DEF t, l, m
<1>6. Keeps(s, l) /\ Keeps(s, m)
  BY <1>2, <1>3 DEF Keeps, Agrees, P!InAir, P!OnGround
<1> QED BY <1>2, <1>5, <1>6

\* Above another player it is in the air, whatever it was; below it stays as it is or ducks.
LEMMA OnTopLeaves ==
  ASSUME NEW s \in P!PlayerType, legacy.character \in BOOLEAN
  PROVE  /\ P!OnTop(s) \in P!PlayerType /\ P!OnTop(s).stomped = s.stomped
         /\ Agrees(FALSE, P!OnTop(s))
         /\ (legacy.character => Shaped(P!OnTop(s)))
<1> DEFINE l == P!Look(s, "JUMP", s.face)
           t == IF legacy.character THEN l ELSE [s EXCEPT !.stance = "JUMP"]
<1>1. l \in P!PlayerType /\ l.stomped = s.stomped /\ l.stance = "JUMP" /\ Shaped(l)
  BY DEF P!Look, P!PlayerType, Shaped, P!Sides, P!Aims, P!InAir
<1> HIDE DEF l
<1>2. t \in P!PlayerType /\ t.stomped = s.stomped /\ t.stance = "JUMP" /\ (legacy.character => Shaped(t))
  BY <1>1 DEF P!PlayerType, P!InAir
<1>3. P!OnTop(s) = [t EXCEPT !.vy = "up", !.ground = FALSE]
  BY DEF P!OnTop, l
<1> HIDE DEF t
<1> QED BY <1>2, <1>3 DEF Agrees, P!PlayerType, P!OnGround, Shaped

LEMMA BelowKeeps ==
  ASSUME NEW s \in P!PlayerType, NEW higher \in BOOLEAN, legacy.character \in BOOLEAN
  PROVE  /\ P!Below(s, higher) \in P!PlayerType
         /\ P!Below(s, higher).stomped = IF P!Ducks(s) THEN (IF higher THEN 3 ELSE 2) ELSE s.stomped
         /\ \A f \in BOOLEAN : Agrees(f, s) => Agrees(f, P!Below(s, higher))
         /\ (legacy.character /\ Shaped(s) => Shaped(P!Below(s, higher)))
<1>1. CASE P!Ducks(s)
  <2> DEFINE l == P!Look(s, "DUCK", s.face)
             t == IF legacy.character THEN l ELSE [s EXCEPT !.stance = "DUCK"]
  <2>1. l \in P!PlayerType /\ l.stance = "DUCK" /\ Shaped(l) /\ l.ground = s.ground
    BY DEF P!Look, P!PlayerType, Shaped, P!Sides, P!Aims, P!OnGround
  <2> HIDE DEF l
  <2>2. t \in P!PlayerType /\ t.stance = "DUCK" /\ t.ground = s.ground /\ (legacy.character => Shaped(t))
    BY <2>1 DEF P!PlayerType, P!OnGround
  <2> DEFINE n == IF higher THEN 3 ELSE 2
  <2>3. P!Below(s, higher) = [t EXCEPT !.vy = "still", !.stomped = n]
    BY <1>1 DEF P!Below, l
  <2>8. n \in 0 .. 3 OBVIOUS
  <2>4. s.stance \in P!OnGround BY <1>1 DEF P!Ducks, P!OnGround
  <2> HIDE DEF t
  <2> DEFINE x == P!Below(s, higher)
  <2>5. /\ x \in P!PlayerType /\ x.stance = "DUCK" /\ x.ground = s.ground
        /\ x.stomped = n
        /\ (legacy.character => Shaped(x))
    <3> HIDE DEF n
    <3>1. x \in P!PlayerType /\ x.stance = t.stance /\ x.ground = t.ground /\ x.stomped = n
          /\ x.aim = t.aim /\ x.face = t.face
      BY <2>2, <2>3, <2>8 DEF P!PlayerType
    <3> HIDE DEF x
    <3> QED BY <2>2, <3>1 DEF Shaped
  <2> HIDE DEF x
  <2>6. x.stance \in P!OnGround BY <2>5 DEF P!OnGround
  <2>7. \A f \in BOOLEAN : Agrees(f, s) => Agrees(f, x)
    BY <2>4, <2>5, <2>6 DEF Agrees
  <2> QED BY <1>1, <2>5, <2>7 DEF x
<1>2. CASE ~ P!Ducks(s)
  <2>1. P!Below(s, higher) = [s EXCEPT !.vy = "still"] BY <1>2 DEF P!Below
  <2> QED BY <1>2, <2>1 DEF Agrees, P!PlayerType, P!OnGround, Shaped
<1> QED BY <1>1, <1>2

LEMMA LandedAgrees ==
  ASSUME NEW s \in P!PlayerType
  PROVE  /\ P!Landed(s) \in P!PlayerType /\ P!Landed(s).stomped = s.stomped
         /\ P!Landed(s).ground /\ Agrees(FALSE, P!Landed(s))
         /\ (Shaped(s) => Shaped(P!Landed(s)))
BY DEF P!Landed, P!PlayerType, P!OnGround, Agrees, Shaped

(***************************************************************************)
(* The invariant: the ground flag and the stance agree, or the player has  *)
(* not landed since it spawned; and who was landed on is held down for the *)
(* ticks that are left, one less once its own turn has served the timer.   *)
(***************************************************************************)
Remaining ==
  IF phase = "higher" THEN IF stomp.since < 2 THEN 2 - stomp.since ELSE 0
                      ELSE IF stomp.since < 3 THEN 3 - stomp.since ELSE 0

HeldDown ==
  stomp.by = "another" /\ stomp.since < P!LongAgo
    => fading # "in" /\ (fading = "no" => me.stomped = Remaining)

PInv ==
  /\ P!TypeOK
  /\ Agrees(fresh, me)
  /\ legacy.character => Shaped(me)
  /\ phase \in {"floor", "meet", "land"} => fading = "no"
  /\ HeldDown

LEMMA PostureInit == P!Init => PInv
BY DEF P!Init, PInv, P!TypeOK, Agrees, Shaped, HeldDown, P!Spawned, P!PlayerType, P!OnGround,
       P!InAir, P!Sides, P!Aims, P!Phases, P!LongAgo

LEMMA PostureImplies ==
  PInv => P!TypeOK /\ P!GroundAgrees /\ P!NeverFrozen /\ P!StompIsEven
<1> SUFFICES ASSUME PInv PROVE P!GroundAgrees /\ P!NeverFrozen /\ P!StompIsEven
  BY DEF PInv
<1>1. P!GroundAgrees BY DEF PInv, P!TypeOK, P!GroundAgrees, Agrees
<1>2. P!NeverFrozen BY DEF PInv, P!NeverFrozen, Shaped
<1>3. P!StompIsEven
  <2> SUFFICES ASSUME phase = "posture", fading = "no", stomp.by = "another", stomp.since < P!LongAgo
               PROVE  me.stomped > 0 <=> stomp.since <= 2
    BY DEF P!StompIsEven
  <2>1. me.stomped = IF stomp.since < 3 THEN 3 - stomp.since ELSE 0
    BY DEF PInv, HeldDown, Remaining
  <2>2. stomp.since \in 0 .. 4 BY DEF PInv, P!TypeOK, P!LongAgo
  <2> HIDE DEF PInv
  <2> QED BY <2>1, <2>2
<1> QED BY <1>1, <1>2, <1>3


\* What a step does to the player when the stomp and the phase stay as they count.
LEMMA Carried ==
  ASSUME PInv, NEW t \in P!PlayerType, t.stomped = me.stomped, legacy' = legacy, me' = t,
         fading' = fading, stomp' = stomp, phase' \in P!Phases, phase # "higher", phase' # "higher",
         phase' \in {"floor", "meet", "land"} => fading = "no",
         fresh' \in BOOLEAN, Agrees(fresh', t), legacy.character => Shaped(t)
  PROVE  PInv'
<1>1. P!TypeOK' BY DEF PInv, P!TypeOK
<1>2. Remaining' = Remaining BY DEF Remaining
<1>3. HeldDown' BY <1>2 DEF PInv, HeldDown
<1>4. Agrees(fresh, me)' BY DEF Agrees
<1> QED BY <1>1, <1>3, <1>4 DEF PInv, Shaped

LEMMA AdjustStep == PInv /\ P!Adjust => PInv'
<1> SUFFICES ASSUME PInv, P!Adjust PROVE PInv'
  OBVIOUS
<1>1. PICK b \in SUBSET P!Buttons, choose \in BOOLEAN, through \in BOOLEAN, flying \in BOOLEAN,
           stops \in BOOLEAN :
        /\ through => me.ground
        /\ LET t == IF legacy.character THEN P!Legacy(b, me, choose, through)
                                        ELSE P!Modern(b, me, choose, through)
               u == [t EXCEPT !.jumpedDown = @ /\ "JUMP" \in b]
           IN  \E v \in P!Pulled(b, u, flying) :
                 me' = [IF stops THEN P!Stop(u) ELSE u EXCEPT !.vy = v]
  BY DEF P!Adjust
<1>2. me \in P!PlayerType /\ legacy.character \in BOOLEAN /\ fresh \in BOOLEAN /\ Agrees(fresh, me)
      /\ (legacy.character => Shaped(me))
  BY DEF PInv, P!TypeOK
<1>3. phase = "posture" /\ fading = "no" /\ fresh' = (fresh /\ me'.stance \notin P!InAir)
      /\ phase' = "floor" /\ UNCHANGED <<legacy, fading, stomp>>
  BY DEF P!Adjust
<1> DEFINE t == IF legacy.character THEN P!Legacy(b, me, choose, through)
                                    ELSE P!Modern(b, me, choose, through)
           j == t.jumpedDown /\ "JUMP" \in b
           u == [t EXCEPT !.jumpedDown = j]
           w == IF stops THEN P!Stop(u) ELSE u
<1>4. PICK v \in P!Pulled(b, u, flying) : me' = [w EXCEPT !.vy = v]
  <2>1. [t EXCEPT !.jumpedDown = @ /\ "JUMP" \in b] = u OBVIOUS
  <2> QED BY <1>1, <2>1
<1>5. Keeps(me, t) /\ (legacy.character => Shaped(t))
  <2>1. CASE legacy.character
    <3>1. Good(me, P!Legacy(b, me, choose, through)) BY <1>1, <1>2, <2>1, LegacyKeeps
    <3> QED BY <2>1, <3>1 DEF Good
  <2>2. CASE ~ legacy.character
    <3>1. Keeps(me, P!Modern(b, me, choose, through)) BY <1>1, <1>2, <2>2, ModernKeeps
    <3> QED BY <2>2, <3>1
  <2> QED BY <2>1, <2>2, <1>2
<1> HIDE DEF t
<1>6. t \in P!PlayerType BY <1>5 DEF Keeps
<1>7. /\ u \in P!PlayerType /\ u.stomped = t.stomped /\ u.stance = t.stance /\ u.ground = t.ground
      /\ (Shaped(t) => Shaped(u))
  <2>1. j \in BOOLEAN BY <1>6 DEF P!PlayerType
  <2> HIDE DEF j
  <2> QED BY <1>6, <2>1 DEF P!PlayerType, Shaped
<1> HIDE DEF u
<1>8. v \in Speeds BY <1>7 DEF P!Pulled, Speeds, P!PlayerType
<1>9. /\ w \in P!PlayerType /\ w.stomped = t.stomped /\ w.ground = t.ground /\ (Shaped(t) => Shaped(w))
      /\ (w.stance \in P!InAir <=> t.stance \in P!InAir)
      /\ (w.stance \in P!OnGround <=> t.stance \in P!OnGround)
  BY <1>7, StopKeeps DEF Keeps
<1> HIDE DEF w
<1>10. PICK x : x = [w EXCEPT !.vy = v] OBVIOUS
<1>11. /\ x \in P!PlayerType /\ x.stomped = t.stomped /\ x.ground = t.ground /\ (Shaped(t) => Shaped(x))
       /\ (x.stance \in P!InAir <=> t.stance \in P!InAir)
       /\ (x.stance \in P!OnGround <=> t.stance \in P!OnGround)
  BY <1>8, <1>9, <1>10 DEF Speeds, P!PlayerType, Shaped
<1>12. me' = x BY <1>4, <1>10
<1>13. Agrees(fresh /\ x.stance \notin P!InAir, x)
  BY <1>2, <1>5, <1>11 DEF Keeps, Agrees
<1>14. x.stomped = me.stomped BY <1>5, <1>11 DEF Keeps
<1>15. fresh' = (fresh /\ x.stance \notin P!InAir) BY <1>3, <1>12
<1> QED
  BY <1>2, <1>3, <1>5, <1>11, <1>12, <1>13, <1>14, <1>15, Carried DEF P!Phases

LEMMA MoveXStep == PInv /\ P!MoveX => PInv'
<1> SUFFICES ASSUME PInv, P!MoveX PROVE PInv'
  OBVIOUS
<1>1. PICK wall \in BOOLEAN, floor \in BOOLEAN :
        LET s == IF wall THEN P!Stop(me) ELSE me
        IN  me' = IF s.ground /\ ~floor THEN P!Fallen(s) ELSE s
  BY DEF P!MoveX
<1>2. me \in P!PlayerType /\ legacy.character \in BOOLEAN /\ fresh \in BOOLEAN /\ Agrees(fresh, me)
      /\ (legacy.character => Shaped(me))
  BY DEF PInv, P!TypeOK
<1>3. phase = "floor" /\ fresh' = (fresh /\ me'.stance \notin P!InAir)
      /\ phase' = "meet" /\ UNCHANGED <<legacy, fading, stomp>> /\ fading = "no"
  BY DEF P!MoveX, PInv
<1> DEFINE s == IF wall THEN P!Stop(me) ELSE me
           x == IF s.ground /\ ~floor THEN P!Fallen(s) ELSE s
<1>4. me' = x BY <1>1
<1>5. /\ s \in P!PlayerType /\ s.stomped = me.stomped /\ (Shaped(me) => Shaped(s)) /\ s.ground = me.ground
      /\ (s.stance \in P!InAir <=> me.stance \in P!InAir)
      /\ (s.stance \in P!OnGround <=> me.stance \in P!OnGround)
  BY <1>2, StopKeeps DEF Keeps
<1> HIDE DEF s
<1>6. Agrees(fresh, s) BY <1>2, <1>5 DEF Agrees
<1>7. x \in P!PlayerType /\ x.stomped = me.stomped /\ Agrees(fresh /\ x.stance \notin P!InAir, x)
      /\ (legacy.character => Shaped(x))
  <2>1. CASE s.ground /\ ~ floor
    <3>1. s.stance \in P!OnGround BY <2>1, <1>2, <1>6 DEF Agrees
    <3>2. Keeps(s, P!Fallen(s)) /\ (legacy.character => Shaped(P!Fallen(s)))
      BY <2>1, <3>1, <1>2, <1>5, FallenKeeps
    <3> QED BY <1>2, <1>5, <1>6, <2>1, <3>2 DEF Keeps
  <2>2. CASE ~ (s.ground /\ ~ floor)
    <3>1. x = s BY <2>2
    <3>2. Agrees(fresh /\ s.stance \notin P!InAir, s)
      BY <1>2, <1>5, <1>6 DEF Agrees, P!PlayerType, P!OnGround, P!InAir
    <3> QED BY <1>2, <1>5, <3>1, <3>2
  <2> QED BY <2>1, <2>2
<1> HIDE DEF x
<1>8. fresh' = (fresh /\ x.stance \notin P!InAir) BY <1>3, <1>4
<1> QED BY <1>2, <1>3, <1>4, <1>7, <1>8, Carried DEF P!Phases

\* Who is met: on top of it the player jumps, below it it may be ducked.
LEMMA TouchedStep ==
  ASSUME PInv, NEW mover \in {"another", "itself"}, NEW higher \in BOOLEAN, P!Touched(mover, higher),
         UNCHANGED <<legacy, phase, fading>>,
         mover = "itself" => fading # "in",
         mover = "another" => phase = IF higher THEN "lower" ELSE "higher"
  PROVE  PInv'
<1>1. me \in P!PlayerType /\ legacy.character \in BOOLEAN /\ fresh \in BOOLEAN /\ Agrees(fresh, me)
      /\ (legacy.character => Shaped(me)) /\ legacy \in [character : BOOLEAN, level : BOOLEAN]
      /\ stomp \in [since : 0 .. 4, by : {"another", "itself"}] /\ fading \in {"no", "out", "in"}
  BY DEF PInv, P!TypeOK, P!LongAgo
<1>2. CASE me' = P!OnTop(me) /\ fresh' = FALSE /\ stomp' = stomp
  <2> DEFINE x == P!OnTop(me)
  <2>1. x \in P!PlayerType /\ x.stomped = me.stomped /\ Agrees(FALSE, x) /\ (legacy.character => Shaped(x))
    BY <1>1, OnTopLeaves
  <2> HIDE DEF x
  <2>2. me' = x BY <1>2 DEF x
  <2>3. P!TypeOK' BY <2>1, <2>2, <1>2 DEF PInv, P!TypeOK
  <2>4. Agrees(fresh, me)' BY <1>2, <2>1, <2>2 DEF Agrees
  <2>5. Remaining' = Remaining BY <1>2 DEF Remaining
  <2>6. HeldDown' BY <1>2, <2>1, <2>2, <2>5 DEF PInv, HeldDown
  <2> QED BY <2>1, <2>2, <2>3, <2>4, <2>6 DEF PInv, Shaped
<1>3. CASE me' = P!Below(me, higher) /\ fresh' = fresh
           /\ stomp' = IF P!Ducks(me) THEN [since |-> IF fading = "no" THEN 0 ELSE P!LongAgo, by |-> mover]
                       ELSE stomp
  <2> DEFINE x == P!Below(me, higher)
  <2>1. /\ x \in P!PlayerType /\ x.stomped = IF P!Ducks(me) THEN (IF higher THEN 3 ELSE 2) ELSE me.stomped
        /\ Agrees(fresh, x) /\ (legacy.character => Shaped(x))
    BY <1>1, BelowKeeps
  <2> HIDE DEF x
  <2>2. me' = x BY <1>3 DEF x
  <2>3. stomp' \in [since : 0 .. 4, by : {"another", "itself"}]
    BY <1>1, <1>3 DEF P!LongAgo
  <2>4. P!TypeOK' BY <2>1, <2>2, <1>3, <2>3 DEF PInv, P!TypeOK, P!LongAgo
  <2>5. Agrees(fresh, me)' BY <1>3, <2>1, <2>2 DEF Agrees
  <2>6. HeldDown'
    <3>1. CASE P!Ducks(me) /\ mover = "another"
      <4>1. stomp'.by = "another" /\ stomp'.since = IF fading = "no" THEN 0 ELSE 4
        BY <1>3, <3>1 DEF P!LongAgo
      <4>2. fading = "no" => Remaining' = IF higher THEN 3 ELSE 2
        BY <3>1, <4>1 DEF Remaining
      <4>3. fading # "no" => stomp'.since = 4
        BY <4>1
      <4> QED BY <2>1, <2>2, <3>1, <4>1, <4>2, <4>3 DEF HeldDown, P!LongAgo
    <3>2. CASE P!Ducks(me) /\ mover = "itself"
      <4>1. stomp'.by = "itself" BY <1>3, <3>2
      <4> QED BY <4>1 DEF HeldDown
    <3>3. CASE ~ P!Ducks(me)
      <4>1. stomp' = stomp /\ x.stomped = me.stomped BY <1>3, <2>1, <3>3
      <4>2. Remaining' = Remaining BY <4>1 DEF Remaining
      <4> QED BY <4>1, <4>2, <2>2 DEF PInv, HeldDown
    <3> QED BY <3>1, <3>2, <3>3
  <2> QED BY <2>1, <2>2, <2>4, <2>5, <2>6 DEF PInv, Shaped
<1> QED BY <1>2, <1>3 DEF P!Touched

LEMMA ArriveStep == PInv /\ P!Arrive => PInv'
<1> SUFFICES ASSUME PInv, P!Arrive PROVE PInv'
  OBVIOUS
<1>1. PICK s \in {me} \cup (IF me.ground /\ me.vy # "down" THEN {} ELSE {P!Landed(me)})
               \cup (IF me.vy = "up" THEN {[me EXCEPT !.vy = "still"]} ELSE {}) :
        /\ me' = [s EXCEPT !.stomped = IF @ > 0 THEN @ - 1 ELSE 0]
        /\ fresh' = (fresh /\ ~s.ground)
  BY DEF P!Arrive
<1>2. me \in P!PlayerType /\ legacy.character \in BOOLEAN /\ fresh \in BOOLEAN /\ Agrees(fresh, me)
      /\ (legacy.character => Shaped(me)) /\ phase = "land" /\ fading = "no"
      /\ stomp \in [since : 0 .. 4, by : {"another", "itself"}]
      /\ phase' = "higher" /\ UNCHANGED <<legacy, fading, stomp>>
  BY DEF PInv, P!TypeOK, P!LongAgo, P!Arrive
<1>3. s \in {me, P!Landed(me), [me EXCEPT !.vy = "still"]} BY <1>1
<1>4. /\ s \in P!PlayerType /\ s.stomped = me.stomped
      /\ Agrees(fresh /\ ~ s.ground, s) /\ (legacy.character => Shaped(s))
  <2>1. CASE s = me
    BY <2>1, <1>2 DEF Agrees, P!PlayerType
  <2>2. CASE s = P!Landed(me)
    <3>1. /\ s \in P!PlayerType /\ s.stomped = me.stomped /\ s.ground /\ Agrees(FALSE, s)
          /\ (Shaped(me) => Shaped(s))
      BY <2>2, <1>2, LandedAgrees
    <3>2. (fresh /\ ~ s.ground) = FALSE BY <3>1, <1>2
    <3> QED BY <3>1, <3>2, <1>2
  <2>3. CASE s = [me EXCEPT !.vy = "still"]
    <3>1. /\ s \in P!PlayerType /\ s.stomped = me.stomped /\ s.ground = me.ground /\ s.stance = me.stance
          /\ s.aim = me.aim /\ s.face = me.face
      BY <2>3, <1>2 DEF P!PlayerType
    <3> QED BY <3>1, <1>2 DEF Agrees, Shaped
  <2> QED BY <1>3, <2>1, <2>2, <2>3
<1>5. s.stomped \in 0 .. 3 BY <1>4 DEF P!PlayerType
<1> DEFINE n == IF s.stomped > 0 THEN s.stomped - 1 ELSE 0
<1>6. n \in 0 .. 3 BY <1>5
<1>7. me' = [s EXCEPT !.stomped = n] BY <1>1
<1>8. me.stomped = Remaining => n = IF stomp.since < 2 THEN 2 - stomp.since ELSE 0
  BY <1>2, <1>4, <1>5 DEF Remaining
<1> HIDE DEF n
<1>9. PICK x : x = [s EXCEPT !.stomped = n] OBVIOUS
<1>10. x \in P!PlayerType /\ x.stomped = n /\ x.stance = s.stance /\ x.ground = s.ground
       /\ x.aim = s.aim /\ x.face = s.face
  BY <1>9, <1>4, <1>6 DEF P!PlayerType
<1>11. me' = x /\ fresh' = (fresh /\ ~ s.ground) BY <1>1, <1>7, <1>9
<1>12. P!TypeOK' BY <1>2, <1>10, <1>11 DEF PInv, P!TypeOK, P!Phases
<1>13. Agrees(fresh, me)' BY <1>4, <1>10, <1>11 DEF Agrees
<1>14. HeldDown'
  <2>1. Remaining' = IF stomp.since < 2 THEN 2 - stomp.since ELSE 0 BY <1>2 DEF Remaining
  <2> QED BY <1>2, <1>8, <1>10, <1>11, <2>1 DEF PInv, HeldDown
<1> QED BY <1>2, <1>4, <1>10, <1>11, <1>12, <1>13, <1>14 DEF PInv, Shaped

LEMMA FadeStep == PInv /\ P!Fade => PInv'
<1> SUFFICES ASSUME PInv, P!Fade PROVE PInv'
  OBVIOUS
<1>1. phase = "posture" /\ phase' = "higher" /\ legacy' = legacy
  BY DEF P!Fade
<1>2. CASE fading \in {"no", "out"} /\ fading' = "out" /\ UNCHANGED <<me, fresh, stomp>>
  BY <1>1, <1>2 DEF PInv, P!TypeOK, P!Phases, Agrees, Shaped, HeldDown
<1>3. CASE fading = "out" /\ fading' = "in" /\ me' = P!Spawned /\ fresh' = TRUE
           /\ stomp' = [stomp EXCEPT !.since = P!LongAgo]
  <2>1. PICK x : x = P!Spawned OBVIOUS
  <2>2. x \in P!PlayerType /\ ~ x.ground /\ x.stance \in P!OnGround /\ Shaped(x)
    BY <2>1 DEF P!Spawned, P!PlayerType, P!OnGround, P!Sides, P!Aims, Shaped
  <2>3. stomp' \in [since : 0 .. 4, by : {"another", "itself"}] /\ stomp'.since = P!LongAgo
    BY <1>3 DEF PInv, P!TypeOK, P!LongAgo
  <2>4. me' = x BY <1>3, <2>1
  <2>5. P!TypeOK' BY <1>1, <1>3, <2>2, <2>3, <2>4 DEF PInv, P!TypeOK, P!Phases, P!LongAgo
  <2>6. Agrees(fresh, me)' BY <1>3, <2>2, <2>4 DEF Agrees
  <2>7. HeldDown' BY <2>3 DEF HeldDown, P!LongAgo
  <2> QED BY <1>1, <2>2, <2>4, <2>5, <2>6, <2>7 DEF PInv, Shaped
<1>4. CASE fading = "in" /\ fading' \in {"in", "no"} /\ UNCHANGED <<me, fresh, stomp>>
  BY <1>1, <1>4 DEF PInv, P!TypeOK, P!Phases, Agrees, Shaped, HeldDown
<1> QED BY <1>2, <1>3, <1>4 DEF P!Fade

LEMMA TickEndsStep == PInv /\ P!TickEnds => PInv'
<1> SUFFICES ASSUME PInv, P!TickEnds PROVE PInv'
  OBVIOUS
<1>1. phase = "higher" /\ phase' = "lower" /\ UNCHANGED <<legacy, fading, fresh>>
      /\ me \in P!PlayerType /\ stomp \in [since : 0 .. 4, by : {"another", "itself"}]
  BY DEF P!TickEnds, PInv, P!TypeOK, P!LongAgo
<1>2. PICK x : x = me' OBVIOUS
<1>3. x \in P!PlayerType /\ x.stomped = me.stomped /\ x.stance = me.stance /\ x.ground = me.ground
      /\ x.aim = me.aim /\ x.face = me.face
  <2>1. x \in {me, [me EXCEPT !.vy = "up"], [me EXCEPT !.vy = "down"]} BY <1>2 DEF P!TickEnds
  <2> QED BY <2>1, <1>1 DEF P!PlayerType
<1>4. stomp' \in [since : 0 .. 4, by : {"another", "itself"}] /\ stomp'.by = stomp.by
      /\ stomp'.since = IF stomp.since = 4 THEN 4 ELSE stomp.since + 1
  <2> DEFINE n == IF stomp.since = 4 THEN 4 ELSE stomp.since + 1
  <2>1. n \in 0 .. 4 BY <1>1
  <2>2. stomp' = [stomp EXCEPT !.since = n] BY DEF P!TickEnds, P!LongAgo
  <2> HIDE DEF n
  <2>3. stomp' \in [since : 0 .. 4, by : {"another", "itself"}] /\ stomp'.by = stomp.by /\ stomp'.since = n
    BY <1>1, <2>1, <2>2
  <2> QED BY <2>3 DEF n
<1>5. P!TypeOK' BY <1>1, <1>2, <1>3, <1>4 DEF PInv, P!TypeOK, P!Phases, P!LongAgo
<1>6. Agrees(fresh, me)' BY <1>1, <1>2, <1>3 DEF PInv, Agrees
<1>7. HeldDown'
  <2> SUFFICES ASSUME stomp'.by = "another", stomp'.since < 4
               PROVE  fading' # "in" /\ (fading' = "no" => me'.stomped = Remaining')
    BY DEF HeldDown, P!LongAgo
  <2>1. stomp.by = "another" /\ stomp.since < 3 /\ stomp'.since = stomp.since + 1
    BY <1>1, <1>4
  <2>2. fading # "in" /\ (fading = "no" => me.stomped = Remaining)
    BY <1>1, <2>1 DEF PInv, HeldDown, P!LongAgo
  <2>3. Remaining = Remaining'
    BY <1>1, <2>1 DEF Remaining
  <2> QED BY <1>1, <1>2, <1>3, <2>2, <2>3
<1> QED BY <1>1, <1>2, <1>3, <1>5, <1>6, <1>7 DEF PInv, Shaped

LEMMA PostureStep == PInv /\ P!Next => PInv'
<1> SUFFICES ASSUME PInv, P!Next PROVE PInv'
  OBVIOUS
<1>1. CASE P!Others
  BY <1>1, TouchedStep DEF P!Others
<1>2. CASE P!OthersMoved
  BY <1>2 DEF P!OthersMoved, PInv, P!TypeOK, P!Phases, Agrees, Shaped, HeldDown, Remaining
<1>3. CASE P!Meet
  BY <1>3, TouchedStep DEF P!Meet, PInv
<1>4. CASE P!MoveY
  BY <1>4 DEF P!MoveY, PInv, P!TypeOK, P!Phases, Agrees, Shaped, HeldDown, Remaining
<1> QED
  BY <1>1, <1>2, <1>3, <1>4, AdjustStep, MoveXStep, ArriveStep, FadeStep, TickEndsStep DEF P!Next

LEMMA PostureStutters == PInv /\ UNCHANGED postureVars => PInv'
BY DEF postureVars, PInv, P!TypeOK, Agrees, Shaped, HeldDown, Remaining

\* Whatever buttons are held, wherever floors, walls and other players are: the
\* ground flag and the stance agree from the first landing on
\* (pp2_player_land, _jump and the rest), a legacy character is in a state its
\* logic has a case for, and who is landed on counts as stomped as long if the
\* other player is served before it as if it is served after it; who strafes on
\* the ground changes its stance in that time too.
THEOREM PostureHolds == MCSpec => []PostureSound
<1>1. MCInit => PInv BY PostureInit DEF MCInit
<1>2. PInv /\ [MCNext]_allVars => PInv'
  <2> SUFFICES ASSUME PInv, [MCNext]_allVars PROVE PInv'
    OBVIOUS
  <2>1. P!Next \/ UNCHANGED postureVars
    BY DEF MCNext, Only, allVars
  <2> QED BY <2>1, PostureStep, PostureStutters
<1>3. PInv => PostureSound BY PostureImplies DEF PostureSound
<1> QED BY <1>1, <1>2, <1>3, PTL DEF MCSpec

-----------------------------------------------------------------------------
(***************************************************************************)
(* Recursive functions.  With the set of numbers a statement holds for     *)
(* named, induction needs no operator as a parameter; what is computed     *)
(* step by step is then typed by any set that every step stays in.         *)
(***************************************************************************)
\* A set of numbers with 0, and with n + 1 for each n in it, has them all.
LEMMA SetInduction ==
  ASSUME NEW S, 0 \in S, \A n \in Nat : n \in S => n + 1 \in S
  PROVE  Nat \subseteq S
<1> SUFFICES ASSUME ~ (Nat \subseteq S) PROVE FALSE
  OBVIOUS
<1> DEFINE T == Nat \ S
<1>1. PICK x \in T : \A y \in T : x <= y
  <2> HIDE DEF T
  <2>1. T \in SUBSET Nat /\ T # {} BY DEF T
  <2> QED BY ONLY <2>1, LeastIn
<1>2. x # 0 BY <1>1
<1>3. x - 1 \in Nat /\ x - 1 \notin T BY <1>1, <1>2
<1> QED BY <1>1, <1>3

\* What is repeated exists: a sequence of results, each made from the one before.
Iterates(g, X, b, N, G) ==
  /\ g \in [0 .. N -> X] /\ g[0] = b
  /\ \A n \in 1 .. N : g[n] = G[<<n, g[n - 1]>>]

LEMMA Iterated ==
  ASSUME NEW X, NEW b \in X, NEW N \in Nat, NEW G \in [(1 .. N) \X X -> X]
  PROVE  \E g : Iterates(g, X, b, N, G)
<1> DEFINE Upto(k) == \E g \in [0 .. k -> X] : g[0] = b /\ \A n \in 1 .. k : g[n] = G[<<n, g[n - 1]>>]
           S == {k \in Nat : k <= N => Upto(k)}
<1>1. 0 \in S
  <2> DEFINE g == [i \in 0 .. 0 |-> b]
  <2>1. g \in [0 .. 0 -> X] /\ g[0] = b OBVIOUS
  <2>2. \A n \in 1 .. 0 : g[n] = G[<<n, g[n - 1]>>] OBVIOUS
  <2> HIDE DEF g
  <2> QED BY <2>1, <2>2
<1>2. \A k \in Nat : k \in S => k + 1 \in S
  <2> SUFFICES ASSUME NEW k \in Nat, Upto(k), k + 1 <= N PROVE Upto(k + 1)
    OBVIOUS
  <2>1. PICK g \in [0 .. k -> X] : g[0] = b /\ \A n \in 1 .. k : g[n] = G[<<n, g[n - 1]>>]
    OBVIOUS
  <2> DEFINE h == [i \in 0 .. k + 1 |-> IF i = k + 1 THEN G[<<k + 1, g[k]>>] ELSE g[i]]
  <2>2. g[k] \in X /\ k + 1 \in 1 .. N OBVIOUS
  <2>3. G[<<k + 1, g[k]>>] \in X BY <2>2
  <2>4. h \in [0 .. k + 1 -> X] /\ h[0] = b BY <2>1, <2>3
  <2>5. ASSUME NEW n \in 1 .. k + 1 PROVE h[n] = G[<<n, h[n - 1]>>]
    <3>1. CASE n = k + 1
      <4>1. h[n] = G[<<n, g[k]>>] BY <3>1
      <4>2. h[n - 1] = g[k] /\ n - 1 = k BY <3>1
      <4> QED BY <4>1, <4>2
    <3>2. CASE n \in 1 .. k
      <4>1. h[n] = g[n] /\ h[n - 1] = g[n - 1] BY <3>2
      <4> QED BY <4>1, <3>2, <2>1
    <3> QED BY <3>1, <3>2
  <2> HIDE DEF h
  <2> QED BY <2>4, <2>5
<1> HIDE DEF S
<1>3. Nat \subseteq S
  <2>1. 0 \in S /\ \A k \in Nat : k \in S => k + 1 \in S BY <1>1, <1>2
  <2> QED BY ONLY <2>1, SetInduction
<1>4. Upto(N) BY <1>3 DEF S
<1> QED BY <1>4 DEF Iterates

\* And what every step keeps, all results have.
LEMMA StepByStep ==
  ASSUME NEW X, NEW N \in Nat, NEW f, f[0] \in X,
         \A n \in 1 .. N : f[n - 1] \in X => f[n] \in X
  PROVE  \A n \in 0 .. N : f[n] \in X
<1> DEFINE S == {n \in Nat : n <= N => f[n] \in X}
<1>1. 0 \in S OBVIOUS
<1>2. \A n \in Nat : n \in S => n + 1 \in S
  <2> SUFFICES ASSUME NEW n \in Nat, n \in S, n + 1 <= N PROVE f[n + 1] \in X
    OBVIOUS
  <2>1. n + 1 \in 1 .. N /\ (n + 1) - 1 = n OBVIOUS
  <2> QED BY <2>1
<1> HIDE DEF S
<1>3. Nat \subseteq S BY ONLY <1>1, <1>2, SetInduction
<1> QED BY <1>3 DEF S

-----------------------------------------------------------------------------
(***************************************************************************)
(* Paintballs.  Clear: long enough on its way, or not to hit its owner for *)
(* as long as it takes.  Kept: cell c is being served; what it holds may   *)
(* have been destroyed, and is gone through all the same.                  *)
(***************************************************************************)
Balls == [B!Cells -> B!BallType]
Clear(x) == x.served + x.leaving >= PieceLeaves
Kept(b, c) == b \in Balls /\ \A d \in B!Cells : b[d].active \/ d = c => Clear(b[d])

LEMMA BallNumbers ==
  /\ Fragments \in Nat /\ Bounces \in Nat /\ ShotLeaves \in Nat /\ PieceLeaves \in Nat
  /\ Deflected \in Nat /\ PieceLeaves <= ShotLeaves /\ NumCells \in Nat /\ NumCells > 0
  /\ B!Cells = 1 .. NumCells
BY ArenaAssumption DEF B!Cells

LEMMA FirstFreeIs ==
  ASSUME NEW b, B!FreeCells(b) # {}
  PROVE  B!FirstFree(b) \in B!Cells /\ ~ b[B!FirstFree(b)].active
<1> DEFINE T == B!FreeCells(b)
<1>1. T \subseteq B!Cells /\ T \in SUBSET Nat /\ T # {} /\ \A d \in T : ~ b[d].active
  BY BallNumbers DEF B!FreeCells
<1> HIDE DEF T
<1>2. \E x \in T : \A y \in T : x <= y BY ONLY <1>1, LeastIn
<1>3. B!FirstFree(b) = CHOOSE x \in T : \A y \in T : x <= y
  BY DEF B!FirstFree, T
<1>4. B!FirstFree(b) \in T BY <1>2, <1>3
<1> QED BY <1>1, <1>4

LEMMA FreshIs ==
  ASSUME NEW type \in B!Types, NEW leaving \in 0 .. ShotLeaves, NEW deflect \in 0 .. Deflected
  PROVE  /\ B!Fresh(type, leaving, deflect) \in B!BallType
         /\ B!Fresh(type, leaving, deflect).leaving = leaving
         /\ B!Fresh(type, leaving, deflect).served = 0
         /\ B!Fresh(type, leaving, deflect).type = type
         /\ B!Fresh(type, leaving, deflect).deflect = deflect
BY BallNumbers DEF B!Fresh, B!BallType, B!Nobody

LEMMA GoneIs ==
  ASSUME NEW x \in B!BallType
  PROVE  B!Gone(x) \in B!BallType /\ ~ B!Gone(x).active
<1> DEFINE d == x.deflect
<1>1. d \in 0 .. Deflected BY DEF B!BallType
<1>2. B!Gone(x) = [B!Fresh("normal", 0, d) EXCEPT !.active = FALSE]
  BY DEF B!Gone
<1> HIDE DEF d
<1>3. "normal" \in B!Types /\ 0 \in 0 .. ShotLeaves BY BallNumbers DEF B!Types
<1>4. B!Fresh("normal", 0, d) \in B!BallType BY <1>1, <1>3, FreshIs
<1> QED BY <1>2, <1>4 DEF B!BallType

LEMMA CreateIs ==
  ASSUME NEW b \in Balls, NEW type \in B!Types
  PROVE  /\ B!Create(b, type) \in Balls
         /\ \A d \in B!Cells : \/ B!Create(b, type)[d] = b[d]
                               \/ Clear(B!Create(b, type)[d])
<1>1. CASE B!FreeCells(b) = {}
  BY <1>1 DEF B!Create
<1>2. CASE B!FreeCells(b) # {}
  <2> DEFINE c == B!FirstFree(b)
             x == B!Fresh(type, PieceLeaves, b[c].deflect)
  <2>1. c \in B!Cells BY <1>2, FirstFreeIs
  <2>2. B!Create(b, type) = [b EXCEPT ![c] = x] BY <1>2 DEF B!Create
  <2> HIDE DEF c
  <2>3. b[c].deflect \in 0 .. Deflected BY <2>1 DEF Balls, B!BallType
  <2>4. PieceLeaves \in 0 .. ShotLeaves BY BallNumbers
  <2>5. x \in B!BallType /\ x.leaving = PieceLeaves /\ x.served = 0
    BY <2>3, <2>4, FreshIs
  <2> HIDE DEF x
  <2>6. Clear(x) BY <2>5, BallNumbers DEF Clear
  <2> QED BY <2>1, <2>2, <2>5, <2>6 DEF Balls
<1> QED BY <1>1, <1>2

LEMMA CreateKeeps ==
  ASSUME NEW c, NEW b, Kept(b, c), NEW type \in B!Types
  PROVE  Kept(B!Create(b, type), c)
<1> DEFINE e == B!Create(b, type)
<1>1. e \in Balls /\ \A d \in B!Cells : e[d] = b[d] \/ Clear(e[d])
  BY CreateIs DEF Kept
<1> HIDE DEF e
<1> QED BY <1>1 DEF Kept, e

LEMMA PiecesIs ==
  ASSUME NEW type
  PROVE  B!Pieces(type) \in Nat
BY BallNumbers DEF B!Pieces

LEMMA DestroyKeeps ==
  ASSUME NEW c \in B!Cells, NEW b, Kept(b, c)
  PROVE  Kept(B!Destroy(b, c), c)
<1> DEFINE N == B!Pieces(b[c].type)
           X == {e \in Balls : Kept(e, c)}
           made[n \in 0 .. N] == IF n = 0 THEN b ELSE B!Create(made[n - 1], "normal")
           G == [p \in (1 .. N) \X X |-> B!Create(p[2], "normal")]
<1>1. N \in Nat BY PiecesIs
<1>2. b \in X BY DEF Kept
<1>3. \A e \in X : B!Create(e, "normal") \in X
  BY CreateKeeps DEF Kept, B!Types
<1>4. B!Destroy(b, c) = [made[N] EXCEPT ![c].active = FALSE]
  BY DEF B!Destroy
<1> HIDE DEF N, X
<1>5. G \in [(1 .. N) \X X -> X]
  BY <1>3
<1> HIDE DEF G
<1>6. PICK g : Iterates(g, X, b, N, G)
  BY ONLY <1>1, <1>2, <1>5, Iterated
<1>7. \A n \in 0 .. N : g[n] = IF n = 0 THEN b ELSE B!Create(g[n - 1], "normal")
  <2> TAKE n \in 0 .. N
  <2>1. CASE n = 0 BY <2>1, <1>6 DEF Iterates
  <2>2. CASE n # 0
    <3>1. n \in 1 .. N /\ n - 1 \in 0 .. N BY <2>2, <1>1
    <3>2. <<n, g[n - 1]>> \in (1 .. N) \X X BY <3>1, <1>6 DEF Iterates
    <3>3. G[<<n, g[n - 1]>>] = B!Create(g[n - 1], "normal") BY <3>2 DEF G
    <3> QED BY <2>2, <3>1, <3>3, <1>6 DEF Iterates
  <2> QED BY <2>1, <2>2
<1>8. g = [n \in 0 .. N |-> IF n = 0 THEN b ELSE B!Create(g[n - 1], "normal")]
  BY <1>7, <1>6 DEF Iterates
<1>9. made = [n \in 0 .. N |-> IF n = 0 THEN b ELSE B!Create(made[n - 1], "normal")]
  BY <1>8, Zenon
<1> HIDE DEF made
<1>10. made[0] \in X
  <2>1. 0 \in 0 .. N BY <1>1
  <2>2. made[0] = b BY <1>9, <2>1
  <2> QED BY <2>2, <1>2
<1>11. \A n \in 1 .. N : made[n - 1] \in X => made[n] \in X
  <2> TAKE n \in 1 .. N
  <2>1. n \in 0 .. N /\ n # 0 BY <1>1
  <2>2. made[n] = B!Create(made[n - 1], "normal") BY <1>9, <2>1
  <2> QED BY <2>2, <1>3
<1>12. \A n \in 0 .. N : made[n] \in X
  BY ONLY <1>1, <1>10, <1>11, StepByStep
<1>13. made[N] \in X BY <1>12, <1>1
<1> DEFINE e == made[N]
           y == [e[c] EXCEPT !.active = FALSE]
<1>14. Kept(e, c) BY <1>13 DEF X
<1>15. B!Destroy(b, c) = [e EXCEPT ![c] = y] BY <1>4
<1> HIDE DEF e
<1>16. y \in B!BallType /\ (Clear(e[c]) => Clear(y))
  BY <1>14 DEF Kept, Balls, B!BallType, Clear
<1> HIDE DEF y
<1> QED BY <1>14, <1>15, <1>16 DEF Kept, Balls

\* A paintball changed in its own cell.
LEMMA ChangedKeeps ==
  ASSUME NEW c \in B!Cells, NEW b, Kept(b, c), NEW x \in B!BallType,
         x.served = b[c].served, x.leaving = b[c].leaving
  PROVE  Kept([b EXCEPT ![c] = x], c)
<1>1. Clear(x) BY DEF Kept, Clear
<1> QED BY <1>1 DEF Kept, Balls

LEMMA ReflectKeeps ==
  ASSUME NEW c \in B!Cells, NEW b, Kept(b, c)
  PROVE  Kept(B!Reflect(b, c), c)
<1> DEFINE n == b[c].counter
           x == [b[c] EXCEPT !.counter = n - 1]
<1>1. b[c] \in B!BallType BY DEF Kept, Balls
<1>2. CASE n > 0
  <2>1. n - 1 \in 0 .. Bounces BY <1>1, <1>2, BallNumbers DEF B!BallType
  <2>2. x \in B!BallType /\ x.served = b[c].served /\ x.leaving = b[c].leaving
    <3> HIDE DEF n
    <3> QED BY <1>1, <2>1 DEF B!BallType
  <2>3. B!Reflect(b, c) = [b EXCEPT ![c] = x]
    BY <1>2 DEF B!Reflect
  <2> HIDE DEF x
  <2> QED BY <2>2, <2>3, ChangedKeeps
<1>3. CASE ~ (n > 0)
  BY <1>3, DestroyKeeps DEF B!Reflect
<1> QED BY <1>2, <1>3

LEMMA AtWallKeeps ==
  ASSUME NEW c \in B!Cells, NEW b, Kept(b, c)
  PROVE  Kept(B!AtWall(b, c), c) /\ Kept(B!AtFloor(b, c), c)
<1>1. B!AtWall(b, c) \in {b, B!Destroy(b, c), B!Reflect(b, c)}
  BY DEF B!AtWall
<1>2. B!AtFloor(b, c) \in {b, B!Destroy(b, c), B!Reflect(b, c)}
  BY DEF B!AtFloor
<1>3. Kept(B!Destroy(b, c), c) /\ Kept(B!Reflect(b, c), c)
  BY DestroyKeeps, ReflectKeeps
<1>4. \A e \in {b, B!Destroy(b, c), B!Reflect(b, c)} : Kept(e, c)
  BY <1>3
<1> QED BY <1>1, <1>2, <1>4

LEMMA MovedKeeps ==
  ASSUME NEW c \in B!Cells, Kept(ball, c), NEW way \in B!Ways
  PROVE  Kept(B!Moved(c, way), c)
<1> DEFINE type == ball[c].type
           d == ball[c].deflect
           x == [ball[c] EXCEPT !.deflect = IF d > 0 THEN d - 1 ELSE 0]
           b0 == [ball EXCEPT ![c].deflect = IF @ > 0 THEN @ - 1 ELSE 0]
           b1 == IF way.wall THEN B!AtWall(b0, c) ELSE b0
           b2 == IF ~way.floor THEN b1
                 ELSE IF type \in {"splitter", "seeker"} THEN B!Destroy(b1, c) ELSE B!AtFloor(b1, c)
<1>1. ball[c] \in B!BallType BY DEF Kept, Balls
<1>2. Kept(b0, c)
  <2>1. (IF d > 0 THEN d - 1 ELSE 0) \in 0 .. Deflected BY <1>1, BallNumbers DEF B!BallType
  <2>2. x \in B!BallType /\ x.served = ball[c].served /\ x.leaving = ball[c].leaving
    BY <1>1, <2>1 DEF B!BallType
  <2>3. b0 = [ball EXCEPT ![c] = x] OBVIOUS
  <2> HIDE DEF x, b0
  <2> QED BY <2>2, <2>3, ChangedKeeps
<1> HIDE DEF b0
<1>3. Kept(b1, c) BY <1>2, AtWallKeeps
<1> HIDE DEF b1
<1>4. Kept(b2, c) BY <1>3, AtWallKeeps, DestroyKeeps
<1>5. B!Moved(c, way) = IF type = "pmine" /\ way.near THEN B!Destroy(b2, c) ELSE b2
  BY DEF B!Moved, b0, b1
<1> HIDE DEF b2
<1>6. Kept(B!Destroy(b2, c), c) BY <1>4, DestroyKeeps
<1> QED BY <1>4, <1>5, <1>6

LEMMA UntargetKeeps ==
  ASSUME NEW c \in B!Cells, NEW b, Kept(b, c), NEW hidden
  PROVE  Kept(B!Untarget(b, c, hidden), c)
<1> DEFINE x == [b[c] EXCEPT !.target = B!Nobody]
<1>1. x \in B!BallType /\ x.served = b[c].served /\ x.leaving = b[c].leaving
  BY DEF Kept, Balls, B!BallType
<1>2. B!Untarget(b, c, hidden) = b \/ B!Untarget(b, c, hidden) = [b EXCEPT ![c] = x]
  BY DEF B!Untarget
<1> HIDE DEF x
<1>3. Kept([b EXCEPT ![c] = x], c) BY <1>1, ChangedKeeps
<1> QED BY <1>2, <1>3

LEMMA DeflectKeeps ==
  ASSUME NEW c \in B!Cells, NEW b, Kept(b, c), NEW p \in Players, NEW still \in BOOLEAN
  PROVE  Kept(B!Deflect(b, c, p, still), c)
<1> DEFINE t == IF b[c].type # "seeker" THEN b[c].target ELSE IF p = Owner THEN B!Nobody ELSE Owner
           x == [b[c] EXCEPT !.deflect = Deflected, !.target = t]
<1>1. b[c] \in B!BallType BY DEF Kept, Balls
<1>2. t \in Players \cup {B!Nobody} BY <1>1, ArenaAssumption DEF B!BallType
<1>3. B!Deflect(b, c, p, still) \in {b, B!Destroy(b, c), [b EXCEPT ![c] = x]}
  BY DEF B!Deflect
<1> HIDE DEF t
<1>4. x \in B!BallType /\ x.served = b[c].served /\ x.leaving = b[c].leaving
  <2>1. Deflected \in 0 .. Deflected BY BallNumbers
  <2> QED BY <1>1, <1>2, <2>1 DEF B!BallType
<1> HIDE DEF x
<1>5. Kept([b EXCEPT ![c] = x], c) /\ Kept(B!Destroy(b, c), c)
  BY <1>4, ChangedKeeps, DestroyKeeps
<1>6. \A e \in {b, B!Destroy(b, c), [b EXCEPT ![c] = x]} : Kept(e, c)
  BY <1>5
<1> QED BY <1>3, <1>6

\* Whoever is struck, and how old the paintball is then.
Strikes == {who \in SUBSET (Players \X (0 .. ShotLeaves)) : \A s \in who : s[1] = Owner => s[2] >= PieceLeaves}
HitType(c) == {h \in [balls : Balls, who : Strikes] : Kept(h.balls, c)}

LEMMA StrikeIs ==
  ASSUME NEW c \in B!Cells, NEW h \in HitType(c), NEW p \in Players, ~ B!Spared(h.balls, c, p)
  PROVE  [balls |-> B!Destroy(h.balls, c), who |-> h.who \cup {<<p, h.balls[c].served>>}] \in HitType(c)
<1> DEFINE b == h.balls
           n == b[c].served
           e == B!Destroy(b, c)
           w == h.who \cup {<<p, n>>}
<1>1. Kept(b, c) /\ h.who \in Strikes BY DEF HitType
<1>2. b[c] \in B!BallType /\ Clear(b[c]) BY <1>1 DEF Kept, Balls
<1>3. n \in 0 .. ShotLeaves BY <1>2 DEF B!BallType
<1>4. p = Owner => n >= PieceLeaves
  <2>1. p = Owner => b[c].leaving = 0 BY <1>2, BallNumbers DEF B!Spared, B!BallType
  <2> QED BY <1>2, <1>3, <2>1, BallNumbers DEF Clear
<1>5. Kept(e, c) BY <1>1, DestroyKeeps
<1>6. w \in Strikes
  <2> HIDE DEF n
  <2>1. <<p, n>> \in Players \X (0 .. ShotLeaves) BY <1>3
  <2> QED BY <1>1, <1>4, <2>1 DEF Strikes
<1>7. [balls |-> e, who |-> w] \in HitType(c)
  <2> HIDE DEF e, w
  <2> QED BY <1>5, <1>6 DEF HitType, Kept
<1> QED BY <1>7

LEMMA HitIs ==
  ASSUME NEW c \in B!Cells, NEW b, Kept(b, c), NEW touching \in SUBSET Players,
         NEW deflecting \in SUBSET Players, NEW still \in BOOLEAN
  PROVE  B!Hit(b, c, touching, deflecting, still) \in HitType(c)
<1> DEFINE last == CHOOSE p \in Players : \A q \in Players : q <= p
           First == [balls |-> b, who |-> {}]
           Next1(p, h) == IF p \notin touching \/ B!Spared(h.balls, c, p) THEN h
                          ELSE IF p \in deflecting
                          THEN [h EXCEPT !.balls = B!Deflect(@, c, p, still)]
                          ELSE [balls |-> B!Destroy(h.balls, c),
                                who |-> h.who \cup {<<p, h.balls[c].served>>}]
           hit[p \in -1 .. last] == IF p = -1 THEN First ELSE Next1(p, hit[p - 1])
           X == HitType(c)
           N == last + 1
           G == [q \in (1 .. N) \X X |-> Next1(q[1] - 1, q[2])]
<1>1. last \in Nat /\ N \in Nat
  <2>1. \E p \in Players : \A q \in Players : q <= p BY ArenaAssumption
  <2>2. last \in Players BY ONLY <2>1
  <2>3. Players \subseteq Nat BY ArenaAssumption
  <2> HIDE DEF last
  <2> QED BY <2>2, <2>3
<1>2. B!Hit(b, c, touching, deflecting, still) = hit[last]
  BY DEF B!Hit
<1> HIDE DEF last
<1>3. First \in X
  <2>1. {} \in Strikes BY DEF Strikes
  <2> QED BY <2>1 DEF HitType, Kept
<1>4. \A p, h : h \in X => Next1(p, h) \in X
  <2> SUFFICES ASSUME NEW p, NEW h \in X PROVE Next1(p, h) \in X
    OBVIOUS
  <2>1. CASE p \notin touching \/ B!Spared(h.balls, c, p)
    BY <2>1
  <2>2. CASE p \in touching /\ ~ B!Spared(h.balls, c, p) /\ p \in deflecting
    <3> DEFINE e == B!Deflect(h.balls, c, p, still)
    <3>1. Kept(h.balls, c) BY DEF HitType
    <3>2. Kept(e, c) BY <3>1, <2>2, DeflectKeeps
    <3>3. Next1(p, h) = [h EXCEPT !.balls = e] BY <2>2
    <3> HIDE DEF e, Next1
    <3> QED BY <3>2, <3>3 DEF HitType, Kept
  <2>3. CASE p \in touching /\ ~ B!Spared(h.balls, c, p) /\ p \notin deflecting
    BY <2>3, StrikeIs
  <2> QED BY <2>1, <2>2, <2>3
<1> HIDE DEF First, X, N, Next1
<1>5. G \in [(1 .. N) \X X -> X] BY <1>4
<1> HIDE DEF G
<1>6. PICK g : Iterates(g, X, First, N, G)
  BY ONLY <1>1, <1>3, <1>5, Iterated
<1> DEFINE f == [p \in -1 .. last |-> g[p + 1]]
<1>7. \A p \in -1 .. last : f[p] = IF p = -1 THEN First ELSE Next1(p, f[p - 1])
  <2> TAKE p \in -1 .. last
  <2>1. CASE p = -1 BY <2>1, <1>6 DEF Iterates
  <2>2. CASE p # -1
    <3>1. p + 1 \in 1 .. N /\ (p + 1) - 1 = p /\ p \in 0 .. N /\ p - 1 \in -1 .. last BY <2>2, <1>1 DEF N
    <3>2. g[p] \in X BY <3>1, <1>6 DEF Iterates
    <3>3. g[p + 1] = G[<<p + 1, g[p]>>] BY <3>1, <1>6 DEF Iterates
    <3>4. <<p + 1, g[p]>> \in (1 .. N) \X X BY <3>1, <3>2
    <3>5. G[<<p + 1, g[p]>>] = Next1(p, g[p]) BY <3>1, <3>4 DEF G
    <3>6. f[p] = g[p + 1] /\ f[p - 1] = g[p] BY <3>1
    <3> QED BY <2>2, <3>3, <3>5, <3>6
  <2> QED BY <2>1, <2>2
<1>8. f = [p \in -1 .. last |-> IF p = -1 THEN First ELSE Next1(p, f[p - 1])]
  BY <1>7
<1> HIDE DEF f
<1>9. hit = [p \in -1 .. last |-> IF p = -1 THEN First ELSE Next1(p, hit[p - 1])]
  BY <1>8, Zenon
<1> HIDE DEF hit
<1> DEFINE e == [n \in 0 .. N |-> hit[n - 1]]
<1>10. e[0] \in X
  <2>1. -1 \in -1 .. last /\ 0 \in 0 .. N BY <1>1
  <2>2. e[0] = hit[-1] BY <2>1
  <2>3. hit[-1] = First BY <1>9, <2>1
  <2> QED BY <2>2, <2>3, <1>3
<1>11. \A n \in 1 .. N : e[n - 1] \in X => e[n] \in X
  <2> TAKE n \in 1 .. N
  <2>1. n - 1 \in -1 .. last /\ n - 1 # -1 /\ n \in 0 .. N /\ n - 1 \in 0 .. N BY <1>1 DEF N
  <2>2. hit[n - 1] = Next1(n - 1, hit[n - 1 - 1]) BY <1>9, <2>1
  <2>3. e[n] = hit[n - 1] /\ e[n - 1] = hit[n - 1 - 1] BY <2>1
  <2> QED BY <2>2, <2>3, <1>4
<1> HIDE DEF e
<1>12. \A n \in 0 .. N : e[n] \in X
  BY ONLY <1>1, <1>10, <1>11, StepByStep
<1>13. e[N] = hit[last]
  <2>1. N \in 0 .. N /\ N - 1 = last BY <1>1 DEF N
  <2> QED BY <2>1 DEF e
<1>14. e[N] \in X BY <1>12, <1>1
<1> QED BY <1>2, <1>13, <1>14 DEF X

(***************************************************************************)
(* The invariant: a paintball in flight was served, or will not hit its    *)
(* owner, for as many ticks as it takes to get clear of it.                *)
(***************************************************************************)
BInv ==
  /\ B!TypeOK
  /\ \A d \in B!Cells : ball[d].active => Clear(ball[d])
  /\ \A s \in struck : s[1] = Owner => s[2] >= PieceLeaves

LEMMA TidyIs ==
  ASSUME NEW c \in B!Cells, NEW b, Kept(b, c)
  PROVE  /\ B!Tidy(b, c) \in Balls
         /\ \A d \in B!Cells : B!Tidy(b, c)[d].active => Clear(B!Tidy(b, c)[d])
<1> DEFINE l == b[c].leaving
           n == b[c].served
           l1 == IF l > 0 THEN l - 1 ELSE 0
           n1 == IF n < ShotLeaves THEN n + 1 ELSE n
           x == B!Older(b[c])
           y == B!Gone(b[c])
<1>1. b[c] \in B!BallType /\ Clear(b[c]) BY DEF Kept, Balls
<1>2. l \in 0 .. ShotLeaves /\ n \in 0 .. ShotLeaves /\ n + l >= PieceLeaves
  BY <1>1 DEF B!BallType, Clear
<1>3. l1 \in 0 .. ShotLeaves /\ n1 \in 0 .. ShotLeaves /\ n1 + l1 >= PieceLeaves
  <2> HIDE DEF l, n
  <2> QED BY <1>2, BallNumbers
<1>4. x = [b[c] EXCEPT !.leaving = l1, !.served = n1]
  BY DEF B!Older
<1> HIDE DEF l1, n1, x
<1>5. x \in B!BallType /\ Clear(x)
  BY <1>1, <1>3, <1>4 DEF B!BallType, Clear
<1>6. y \in B!BallType /\ ~ y.active BY <1>1, GoneIs
<1>7. B!Tidy(b, c) = IF b[c].active THEN [b EXCEPT ![c] = x] ELSE [b EXCEPT ![c] = y]
  BY DEF B!Tidy, x
<1> HIDE DEF y
<1> QED BY <1>5, <1>6, <1>7 DEF Kept, Balls

LEMMA BallsInit == B!Init => BInv
<1> SUFFICES ASSUME B!Init PROVE BInv
  OBVIOUS
<1> DEFINE x == B!Gone(B!Fresh("normal", 0, 0))
<1>1. "normal" \in B!Types /\ 0 \in 0 .. ShotLeaves /\ 0 \in 0 .. Deflected BY BallNumbers DEF B!Types
<1>2. x \in B!BallType /\ ~ x.active BY <1>1, FreshIs, GoneIs
<1>3. ball = [c \in B!Cells |-> x] /\ ballAt = 0 /\ struck = {} BY DEF B!Init
<1> HIDE DEF x
<1> QED BY <1>2, <1>3 DEF BInv, B!TypeOK

\* A step that leaves the array right is right.
LEMMA BallsRight ==
  ASSUME ball' \in Balls, \A d \in B!Cells : ball'[d].active => Clear(ball'[d]),
         ballAt' \in B!Cells \cup {0}, struck' \in Strikes
  PROVE  BInv'
<1>1. B!TypeOK' BY DEF B!TypeOK, Balls, Strikes
<1>2. \A d \in B!Cells : ball'[d].active => Clear(ball[d])'
  BY DEF Clear
<1> QED BY <1>1, <1>2 DEF BInv, Strikes

LEMMA NobodyStruck == {} \in Strikes
BY DEF Strikes

LEMMA ShootStep == BInv /\ B!Shoot => BInv'
<1> SUFFICES ASSUME BInv, B!Shoot PROVE BInv'
  OBVIOUS
<1>1. PICK w \in BallWeapons, t \in (Players \ {Owner}) \cup {B!Nobody} :
        ball' = IF B!FreeCells(ball) = {} THEN ball
                ELSE [B!Create(ball, w) EXCEPT
                       ![B!FirstFree(ball)].leaving = ShotLeaves,
                       ![B!FirstFree(ball)].target = t,
                       ![B!FirstFree(ball)].counter = IF w = "reflector" THEN Bounces ELSE 0]
  BY DEF B!Shoot
<1>2. ball \in Balls /\ \A d \in B!Cells : ball[d].active => Clear(ball[d])
  BY DEF BInv, B!TypeOK, Balls
<1>3. ballAt' \in B!Cells \cup {0} /\ struck' \in Strikes
  BY NobodyStruck, BallNumbers DEF B!Shoot
<1>4. CASE B!FreeCells(ball) = {}
  <2>1. ball' = ball BY <1>1, <1>4
  <2> QED BY <1>2, <1>3, <2>1, BallsRight
<1>5. CASE B!FreeCells(ball) # {}
  <2> DEFINE c == B!FirstFree(ball)
             e == B!Create(ball, w)
             k == IF w = "reflector" THEN Bounces ELSE 0
             x == [e[c] EXCEPT !.leaving = ShotLeaves, !.target = t, !.counter = k]
             z == [e EXCEPT ![c] = x]
  <2>1. c \in B!Cells BY <1>5, FirstFreeIs
  <2>2. e \in Balls /\ \A d \in B!Cells : e[d] = ball[d] \/ Clear(e[d])
    BY <1>2, ArenaAssumption, CreateIs
  <2>3. k \in 0 .. Bounces /\ ShotLeaves \in 0 .. ShotLeaves BY BallNumbers
  <2>4. ball' = z BY <1>1, <1>5
  <2> HIDE DEF c, e, k
  <2>5. x \in B!BallType /\ x.leaving = ShotLeaves /\ x.served = e[c].served
    BY <2>1, <2>2, <2>3 DEF Balls, B!BallType
  <2>6. Clear(x)
    <3>1. e[c].served \in 0 .. ShotLeaves BY <2>1, <2>2 DEF Balls, B!BallType
    <3> QED BY <2>5, <3>1, BallNumbers DEF Clear
  <2> HIDE DEF x
  <2>7. z \in Balls BY <2>1, <2>2, <2>5 DEF Balls
  <2>8. \A d \in B!Cells : z[d].active => Clear(z[d])
    BY <2>1, <2>2, <2>6, <1>2 DEF Balls
  <2> HIDE DEF z
  <2> QED BY <2>4, <2>7, <2>8, <1>3, BallsRight
<1> QED BY <1>4, <1>5

LEMMA ServeStep == BInv /\ B!Serve => BInv'
<1> SUFFICES ASSUME BInv, B!Serve PROVE BInv'
  OBVIOUS
<1> DEFINE c == ballAt
<1>1. c \in B!Cells /\ ball[c].active BY DEF B!Serve
<1>2. PICK way \in B!Ways, hidden \in SUBSET Players, deflecting \in SUBSET Players,
           touching \in SUBSET Players, still \in BOOLEAN :
        LET b == B!Untarget(B!Moved(c, way), c, hidden)
            h == B!Hit(b, c, touching, deflecting, still)
        IN  IF way.lost
            THEN ball' = [b EXCEPT ![c] = B!Gone(@)] /\ struck' = {}
            ELSE ball' = B!Tidy(h.balls, c) /\ struck' = h.who
  BY DEF B!Serve
<1>3. ballAt' \in B!Cells \cup {0}
  <2>1. ballAt' = IF c = NumCells THEN 0 ELSE c + 1 BY DEF B!Serve
  <2> HIDE DEF c
  <2> QED BY <1>1, <2>1, BallNumbers
<1>4. Kept(ball, c)
  BY <1>1 DEF BInv, B!TypeOK, Kept, Balls
<1> DEFINE b1 == B!Moved(c, way)
           b == B!Untarget(b1, c, hidden)
           h == B!Hit(b, c, touching, deflecting, still)
<1>5. way.lost => ball' = [b EXCEPT ![c] = B!Gone(b[c])] /\ struck' = {}
  BY <1>2
<1>6. ~ way.lost => ball' = B!Tidy(h.balls, c) /\ struck' = h.who
  BY <1>2
<1> HIDE DEF c
<1>7. Kept(b1, c) BY <1>1, <1>4, MovedKeeps
<1> HIDE DEF b1
<1>8. Kept(b, c) BY <1>1, <1>7, UntargetKeeps
<1> HIDE DEF b
<1>9. h \in HitType(c) BY <1>1, <1>8, HitIs
<1> HIDE DEF h
<1>10. CASE way.lost
  <2> DEFINE y == B!Gone(b[c])
             e == [b EXCEPT ![c] = y]
  <2>1. y \in B!BallType /\ ~ y.active BY <1>1, <1>8, GoneIs DEF Kept, Balls
  <2> HIDE DEF y
  <2>2. e \in Balls /\ \A d \in B!Cells : e[d].active => Clear(e[d])
    BY <1>1, <1>8, <2>1 DEF Kept, Balls
  <2>3. ball' = e /\ struck' = {} BY <1>5, <1>10 DEF y
  <2> HIDE DEF e
  <2> QED BY <1>3, <2>2, <2>3, NobodyStruck, BallsRight
<1>11. CASE ~ way.lost
  <2> DEFINE g == h.balls
             e == B!Tidy(g, c)
  <2>1. Kept(g, c) /\ h.who \in Strikes BY <1>9 DEF HitType
  <2>2. ball' = e /\ struck' = h.who BY <1>6, <1>11
  <2> HIDE DEF g
  <2>3. e \in Balls /\ \A d \in B!Cells : e[d].active => Clear(e[d])
    BY <1>1, <2>1, TidyIs
  <2> HIDE DEF e
  <2> QED BY <1>3, <2>1, <2>2, <2>3, BallsRight
<1> QED BY <1>10, <1>11

LEMMA RespawnStep == BInv /\ B!Respawn => BInv'
<1> SUFFICES ASSUME BInv, B!Respawn PROVE BInv'
  OBVIOUS
<1> DEFINE e == [c \in B!Cells |-> B!Gone(ball[c])]
<1>1. \A c \in B!Cells : B!Gone(ball[c]) \in B!BallType /\ ~ B!Gone(ball[c]).active
  BY GoneIs DEF BInv, B!TypeOK
<1>2. e \in Balls /\ \A d \in B!Cells : e[d].active => Clear(e[d])
  BY <1>1 DEF Balls
<1>3. ball' = e /\ ballAt' = 1 /\ struck' = {} BY DEF B!Respawn
<1> HIDE DEF e
<1> QED BY <1>2, <1>3, BallNumbers, NobodyStruck, BallsRight

LEMMA BallsStep == BInv /\ B!Next => BInv'
<1> SUFFICES ASSUME BInv, B!Next PROVE BInv'
  OBVIOUS
<1>1. ball \in Balls /\ \A d \in B!Cells : ball[d].active => Clear(ball[d])
  BY DEF BInv, B!TypeOK, Balls
<1>2. CASE B!HoldFire
  <2>1. ball' = ball /\ ballAt' = 1 /\ struck' = {} BY <1>2 DEF B!HoldFire
  <2> QED BY <1>1, <2>1, BallNumbers, NobodyStruck, BallsRight
<1>3. CASE B!Skip
  <2>1. ball' = ball /\ ballAt \in B!Cells /\ ballAt' = IF ballAt = NumCells THEN 0 ELSE ballAt + 1 BY <1>3 DEF B!Skip
  <2>2. ballAt' \in B!Cells \cup {0} /\ struck' = {} BY <1>3, <2>1, BallNumbers DEF B!Skip
  <2> QED BY <1>1, <2>1, <2>2, NobodyStruck, BallsRight
<1> QED BY <1>2, <1>3, ShootStep, ServeStep, RespawnStep DEF B!Next

\* Nobody is struck by a paintball of its own, shot or split off, before that
\* has flown for the ticks it takes to get clear (leaving_timer), whatever the
\* cells of the array are taken by while one of them is served.
THEOREM ClearOfOwner == MCSpec => []OwnerSafe
<1>1. MCInit => BInv BY BallsInit DEF MCInit
<1>2. BInv /\ [MCNext]_allVars => BInv'
  <2> SUFFICES ASSUME BInv, [MCNext]_allVars PROVE BInv'
    OBVIOUS
  <2>1. B!Next \/ UNCHANGED ballVars
    BY DEF MCNext, Only, allVars
  <2>2. UNCHANGED ballVars => BInv'
    BY DEF ballVars, BInv, B!TypeOK, Clear
  <2> QED BY <2>1, <2>2, BallsStep
<1>3. BInv => OwnerSafe BY DEF BInv, OwnerSafe, B!OwnerSafe
<1> QED BY <1>1, <1>2, <1>3, PTL DEF MCSpec
=============================================================================
