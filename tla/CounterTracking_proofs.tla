----------------------- MODULE CounterTracking_proofs -----------------------
(***************************************************************************)
(* Proofs about the claims of update_counter, for counters of every width, *)
(* any number of sources and any rate.  The argument relates every reading *)
(* still under way, the baseline and the device to one another: how far    *)
(* apart two of them are in events is bounded by how far apart they are in *)
(* time, and agrees with what the register shows up to whole turns.        *)
(***************************************************************************)
EXTENDS CounterTracking, TLAPS

-----------------------------------------------------------------------------
(* Arithmetic *)

\* Whole turns of the register; only 0 if it does not wrap.
Turns == {k * Modulus : k \in Int}

LEMMA NoTurn == 0 \in Turns
  <1>1. 0 = 0 * Modulus
    BY CounterAssumption
  <1> QED BY <1>1 DEF Turns

LEMMA TurnsAdd ==
    ASSUME NEW a \in Turns, NEW b \in Turns
    PROVE  a + b \in Turns /\ a \in Int /\ b \in Int
  <1>1. PICK k \in Int : a = k * Modulus
    BY DEF Turns
  <1>2. PICK l \in Int : b = l * Modulus
    BY DEF Turns
  <1>3. (k + l) * Modulus = k * Modulus + l * Modulus /\ k + l \in Int
    BY CounterAssumption
  <1>4. a + b = (k + l) * Modulus
    BY <1>1, <1>2, <1>3
  <1>5. a + b \in Turns
    BY <1>3, <1>4 DEF Turns
  <1>6. k * Modulus \in Int /\ l * Modulus \in Int
    BY CounterAssumption
  <1> QED BY <1>1, <1>2, <1>5, <1>6

LEMMA TurnsNegate ==
    ASSUME NEW a \in Turns
    PROVE  -a \in Turns /\ a \in Int
  <1>1. PICK k \in Int : a = k * Modulus
    BY DEF Turns
  <1>2. (-k) * Modulus = -(k * Modulus) /\ -k \in Int
    BY CounterAssumption
  <1> QED BY <1>1, <1>2, CounterAssumption DEF Turns

\* What the register loses when it wraps is whole turns.
LEMMA RegisterTurns ==
    ASSUME WrapsInRange, NEW x \in Int
    PROVE  x - (x % Modulus) \in Turns /\ x % Modulus \in 0..(Modulus - 1)
  <1>1. Modulus \in Nat /\ Modulus > 0
    BY CounterAssumption DEF WrapsInRange
  <1>2. x % Modulus \in 0..(Modulus - 1) /\ x = Modulus * (x \div Modulus) + (x % Modulus)
        /\ x \div Modulus \in Int
    BY <1>1
  <1>3. Modulus * (x \div Modulus) = (x \div Modulus) * Modulus
    BY <1>1, <1>2
  <1>4. x - (x % Modulus) = (x \div Modulus) * Modulus
    BY <1>1, <1>2, <1>3
  <1> QED BY <1>2, <1>4 DEF Turns

\* Less than a whole turn either way is none.
LEMMA TurnsApart ==
    ASSUME NEW a \in Turns, -Modulus < a, a < Modulus, WrapsInRange
    PROVE  a = 0
  <1>1. PICK k \in Int : a = k * Modulus
    BY DEF Turns
  <1>2. Modulus \in Nat /\ Modulus > 0
    BY CounterAssumption DEF WrapsInRange
  <1>3. CASE k >= 1
    <2>1. k * Modulus >= Modulus
      BY <1>2, <1>3
    <2> QED BY <1>1, <1>2, <2>1
  <1>4. CASE k <= -1
    <2>1. k * Modulus <= -Modulus
      BY <1>2, <1>4
    <2> QED BY <1>1, <1>2, <2>1
  <1>5. CASE k = 0
    BY <1>1, <1>2, <1>5
  <1> QED BY <1>3, <1>4, <1>5

\* An advance bound grows with the gap.
LEMMA AdvanceBy ==
    ASSUME NEW e \in Nat, NEW a \in Int, NEW b \in Int
    PROVE  e * (a + b) = e * a + e * b /\ e * a \in Int /\ e * b \in Int
  OBVIOUS

\* The configured rate allows at least what the device can count in the gap.
LEMMA RateCoversGap ==
    ASSUME RateHolds, NEW gap \in 0..MaxTime
    PROVE  /\ AdvanceBounded(gap)
           /\ MaxAdvance(gap) \in Int
           /\ EventsPerTick * gap <= MaxAdvance(gap)
  <1>1. MaxRate \in Nat /\ NanosPerSecond \in Nat /\ NanosPerSecond > 0 /\ Word \in Nat
        /\ EventsPerTick \in Nat /\ MaxTime \in Nat /\ gap \in Nat /\ gap <= MaxTime
    BY CounterAssumption, TrackingAssumption DEF RateHolds
  <1>2. MaxRate * gap <= MaxRate * MaxTime /\ MaxRate * gap \in Nat /\ MaxRate * MaxTime \in Nat
    BY <1>1
  <1>3. (EventsPerTick * NanosPerSecond) * gap <= MaxRate * gap
    BY <1>1 DEF RateHolds
  <1>4. (EventsPerTick * NanosPerSecond) * gap = NanosPerSecond * (EventsPerTick * gap)
        /\ EventsPerTick * gap \in Nat
    BY <1>1
  <1> DEFINE p == MaxRate * gap
             q == p \div NanosPerSecond
  <1>5. q \in Int /\ p < NanosPerSecond * (q + 1)
    <2> HIDE DEF p
    <2>1. p \in Nat
      BY <1>2 DEF p
    <2>2. q \in Int /\ p = NanosPerSecond * q + (p % NanosPerSecond)
          /\ p % NanosPerSecond \in 0..(NanosPerSecond - 1)
      BY <1>1, <2>1
    <2>3. NanosPerSecond * (q + 1) = NanosPerSecond * q + NanosPerSecond
      BY <1>1, <2>2
    <2> QED BY <1>1, <2>1, <2>2, <2>3
  <1>6. EventsPerTick * gap < q + 1
    <2> DEFINE e == EventsPerTick * gap
    <2>1. NanosPerSecond * e < NanosPerSecond * (q + 1) /\ e \in Nat
      BY <1>1, <1>2, <1>3, <1>4, <1>5
    <2> HIDE DEF e, q
    <2> QED BY <1>1, <1>5, <2>1 DEF e
  <1> QED BY <1>1, <1>2, <1>5, <1>6 DEF AdvanceBounded, MaxAdvance, RateHolds

-----------------------------------------------------------------------------
(* The inductive invariant *)

\* A reading, taken by any source at any time.
IsReading(r) ==
    /\ r # Empty
    /\ r.raw \in Nat /\ r.wide \in BOOLEAN /\ r.produced \in Nat
    /\ r.resets \in Nat /\ r.observed.ns \in Nat
    /\ WrapsInRange => (r.wide <=> r.raw >= Modulus)
    /\ ~WrapsInRange => ~r.wide

\* What the device shows now, as a reading.
Device ==
    [raw |-> register, wide |-> FALSE, produced |-> produced, resets |-> resets,
     observed |-> [domain |-> NoDomain, ns |-> now]]

\* The readings that still matter.
Held == ({slot[s] : s \in Sources} \cup {base}) \ {Empty}

\* Two readings of one device: the later one has counted more, by no more than
\* the device can count in between, and unless it reloaded the register has
\* moved by as much, but for whole turns.
Consistent(x, y) ==
    /\ x.observed.ns <= y.observed.ns =>
         /\ x.produced <= y.produced
         /\ y.produced - x.produced <= EventsPerTick * (y.observed.ns - x.observed.ns)
    /\ x.resets = y.resets /\ ~x.wide /\ ~y.wide =>
         (y.produced - y.raw) - (x.produced - x.raw) \in Turns

AllConsistent == \A x, y \in Held \cup {Device} : Consistent(x, y)

\* The scalar variables have their types, and no reading is newer than the
\* device.
TrackingTypes ==
    /\ now \in 0..MaxTime
    /\ IsReading(Device)
    /\ DOMAIN slot = Sources
    /\ \A x \in Held : IsReading(x) /\ x.observed.ns <= now /\ x.resets <= resets
    /\ \A s \in Sources : slot[s] # Empty => slot[s].observed.domain = DomainOf[s]
    /\ base # Empty => \E s \in Sources : base.observed.domain = DomainOf[s]

\* The counter's baseline is the reading `base`.  Unless the first reading may
\* be one the register cannot show, the baseline never is, and before it nothing
\* beyond the width is under way.
Baseline ==
    /\ counter.initialized = (base # Empty)
    /\ base # Empty => counter.last_raw = base.raw
    /\ ~WideFirst =>
         IF base = Empty THEN \A s \in Sources : slot[s] # Empty => ~slot[s].wide
         ELSE ~base.wide

\* The total stays below what the device had counted at the baseline.
TotalBehind ==
    /\ counter.known_total \in Nat
    /\ ~WideFirst /\ resets = 0 /\ ~overtaken =>
         counter.known_total <= IF base = Empty THEN 0 ELSE base.produced

\* The inductive invariant
TrackingInv == TrackingTypes /\ AllConsistent /\ Baseline /\ TotalBehind
-----------------------------------------------------------------------------
(* The steps that leave the counter alone *)

\* Going back less than a whole turn in whole turns is not going back.
LEMMA TurnsFloor ==
    ASSUME NEW a \in Turns, WrapsInRange => -Modulus < a
    PROVE  a \in Int /\ (WrapsInRange => a >= 0) /\ (~WrapsInRange => a = 0)
  <1>1. a \in Int
    BY NoTurn, TurnsAdd
  <1>2. ASSUME WrapsInRange PROVE a >= 0
    <2>1. Modulus \in Nat /\ Modulus > 0
      BY <1>2, CounterAssumption DEF WrapsInRange
    <2> SUFFICES ASSUME a < 0 PROVE FALSE
      BY <1>1
    <2> QED BY <1>1, <1>2, <2>1, TurnsApart
  <1>3. ASSUME ~WrapsInRange PROVE a = 0
    <2>1. PICK k \in Int : a = k * Modulus
      BY DEF Turns
    <2> QED BY <1>3, <2>1 DEF WrapsInRange
  <1> QED BY <1>1, <1>2, <1>3

\* A reading agrees with itself.
LEMMA ConsistentSelf ==
    ASSUME NEW x, IsReading(x)
    PROVE  Consistent(x, x)
  <1>1. EventsPerTick * (x.observed.ns - x.observed.ns) = 0
    BY TrackingAssumption DEF IsReading
  <1>2. (x.produced - x.raw) - (x.produced - x.raw) = 0
    BY DEF IsReading
  <1> QED BY <1>1, <1>2, NoTurn DEF Consistent, IsReading

\* A reading that says what another one says agrees with what that one does.
LEMMA ConsistentTwin ==
    ASSUME NEW x, NEW y, NEW z, Consistent(x, y), Consistent(y, x),
           z.produced = y.produced, z.resets = y.resets, z.observed.ns = y.observed.ns,
           ~z.wide => ~y.wide /\ z.raw = y.raw
    PROVE  Consistent(x, z) /\ Consistent(z, x)
  BY DEF Consistent

LEMMA DeviceIsReading ==
    ASSUME TrackingInv
    PROVE  /\ now \in Nat /\ register \in Nat /\ produced \in Nat /\ resets \in Nat
           /\ WrapsInRange => register < Modulus
           /\ Modulus \in Nat /\ EventsPerTick \in Nat /\ MaxTime \in Nat
  BY CounterAssumption, TrackingAssumption DEF TrackingInv, TrackingTypes, IsReading, Device

LEMMA TickKeeps ==
    ASSUME TrackingInv, NEW n \in 0..EventsPerTick, Tick(n)
    PROVE  TrackingInv'
  <1> USE DeviceIsReading
  <1>1. Held' = Held /\ n \in Nat /\ now' = now + 1 /\ produced' = produced + n /\ resets' = resets
    BY DEF Tick, Held
  <1>2. register' \in Nat /\ (register + n) - register' \in Turns
        /\ (WrapsInRange => register' < Modulus)
    <2>1. CASE WrapsInRange
      <3>1. register' = (register + n) % Modulus
        BY <2>1 DEF Tick
      <3> QED BY <1>1, <2>1, <3>1, RegisterTurns
    <2>2. CASE ~WrapsInRange
      BY <1>1, <2>2, NoTurn DEF Tick
    <2> QED BY <2>1, <2>2
  <1>3. IsReading(Device)'
    BY <1>1, <1>2 DEF IsReading, Device, Empty
  <1>4. TrackingTypes'
    BY <1>1, <1>3 DEF TrackingTypes, TrackingInv, Tick, IsReading
  <1>5. ASSUME NEW x \in Held PROVE Consistent(x, Device') /\ Consistent(Device', x)
    <2>1. IsReading(x) /\ x.observed.ns <= now
      BY DEF TrackingInv, TrackingTypes
    <2>2. Consistent(x, Device)
      BY DEF TrackingInv, AllConsistent
    <2>3. x.produced <= produced
          /\ produced - x.produced <= EventsPerTick * (now - x.observed.ns)
      BY <2>1, <2>2 DEF Consistent, Device
    <2>4. EventsPerTick * ((now - x.observed.ns) + 1)
            = EventsPerTick * (now - x.observed.ns) + EventsPerTick * 1
          /\ EventsPerTick * (now - x.observed.ns) \in Int
      BY <2>1, AdvanceBy DEF IsReading
    <2>5. (now - x.observed.ns) + 1 = (now + 1) - x.observed.ns /\ EventsPerTick * 1 = EventsPerTick
      BY <2>1 DEF IsReading
    <2>6. EventsPerTick * ((now + 1) - x.observed.ns)
            = EventsPerTick * (now - x.observed.ns) + EventsPerTick
      BY <2>4, <2>5
    <2> DEFINE m == EventsPerTick * (now - x.observed.ns)
    <2>7. x.produced <= produced + n
          /\ (produced + n) - x.produced <= EventsPerTick * ((now + 1) - x.observed.ns)
      <3>1. m \in Int /\ produced - x.produced <= m /\ n <= EventsPerTick
        BY <2>3, <2>4
      <3>2. x.produced <= produced + n /\ (produced + n) - x.produced <= m + EventsPerTick
        <4> HIDE DEF m
        <4> QED BY <1>1, <2>1, <2>3, <3>1 DEF IsReading
      <3> QED BY <2>6, <3>2
    <2>8. ASSUME x.resets = resets, ~x.wide
          PROVE  /\ ((produced + n) - register') - (x.produced - x.raw) \in Turns
                 /\ (x.produced - x.raw) - ((produced + n) - register') \in Turns
      <3>1. (produced - register) - (x.produced - x.raw) \in Turns
        BY <2>2, <2>8 DEF Consistent, Device
      <3>2. ((produced - register) - (x.produced - x.raw)) + ((register + n) - register') \in Turns
        BY <1>2, <3>1, TurnsAdd
      <3>3. ((produced - register) - (x.produced - x.raw)) + ((register + n) - register')
              = ((produced + n) - register') - (x.produced - x.raw)
        BY <1>1, <1>2, <2>1 DEF IsReading
      <3>4. (x.produced - x.raw) - ((produced + n) - register')
              = -(((produced + n) - register') - (x.produced - x.raw))
        BY <1>1, <1>2, <2>1 DEF IsReading
      <3> QED BY <3>2, <3>3, <3>4, TurnsNegate
    <2>9. ~(now + 1 <= x.observed.ns)
      BY <2>1 DEF IsReading
    <2> QED BY <1>1, <2>7, <2>8, <2>9 DEF Consistent, Device
  <1>6. AllConsistent'
    <2>1. Consistent(Device', Device')
      BY <1>3, ConsistentSelf DEF IsReading
    <2>2. \A x, y \in Held : Consistent(x, y)
      BY DEF TrackingInv, AllConsistent
    <2> QED BY <1>1, <1>5, <2>1, <2>2 DEF AllConsistent, Consistent
  <1> QED BY <1>4, <1>6 DEF TrackingInv, Baseline, TotalBehind, Tick

LEMMA ResetKeeps ==
    ASSUME TrackingInv, Reset
    PROVE  TrackingInv'
  <1> USE DeviceIsReading
  <1>1. Held' = Held /\ now' = now /\ produced' = produced /\ resets' = resets + 1 /\ register' = 0
    BY DEF Reset, Held
  <1>2. IsReading(Device)'
    BY <1>1, CounterAssumption DEF IsReading, Device, Empty, WrapsInRange
  <1>3. TrackingTypes'
    BY <1>1, <1>2 DEF TrackingTypes, TrackingInv, Reset, IsReading
  <1>4. ASSUME NEW x \in Held PROVE Consistent(x, Device') /\ Consistent(Device', x)
    <2>1. IsReading(x) /\ x.resets <= resets
      BY DEF TrackingInv, TrackingTypes
    <2>2. x.resets # resets + 1
      BY <2>1 DEF IsReading
    <2>3. Consistent(x, Device) /\ Consistent(Device, x)
      BY DEF TrackingInv, AllConsistent
    <2> QED BY <1>1, <2>2, <2>3 DEF Consistent, Device
  <1>5. AllConsistent'
    <2>1. Consistent(Device', Device')
      BY <1>2, ConsistentSelf DEF IsReading
    <2>2. \A x, y \in Held : Consistent(x, y)
      BY DEF TrackingInv, AllConsistent
    <2> QED BY <1>1, <1>4, <2>1, <2>2 DEF AllConsistent, Consistent
  <1> QED BY <1>1, <1>3, <1>5 DEF TrackingInv, Baseline, TotalBehind, Reset

\* A source takes a reading r that says of the device what the device shows, but
\* perhaps for a value beyond the width.
LEMMA TakingKeeps ==
    ASSUME TrackingInv, NEW s \in Sources, NEW r, IsReading(r), slot[s] = Empty,
           slot' = [slot EXCEPT ![s] = r],
           r.produced = produced, r.resets = resets,
           r.observed = [domain |-> DomainOf[s], ns |-> now],
           ~r.wide => r.raw = register,
           ~WideFirst /\ r.wide => counter.initialized,
           UNCHANGED <<now, register, produced, resets, counter, base, overtaken, last>>
    PROVE  TrackingInv'
  <1> USE DeviceIsReading
  <1>1. Device' = Device
    BY DEF Device
  <1>2. Held' \subseteq Held \cup {r}
    <2>1. DOMAIN slot = Sources
      BY DEF TrackingInv, TrackingTypes
    <2> QED BY <2>1 DEF Held
  <1>3. TrackingTypes'
    <2>1. \A x \in Held : IsReading(x) /\ x.observed.ns <= now /\ x.resets <= resets
      BY DEF TrackingInv, TrackingTypes
    <2>2. \A x \in Held' : IsReading(x) /\ x.observed.ns <= now /\ x.resets <= resets
      BY <1>2, <2>1
    <2>3. \A t \in Sources : slot'[t] # Empty => slot'[t].observed.domain = DomainOf[t]
      BY DEF TrackingInv, TrackingTypes
    <2>4. IsReading(Device)' /\ DOMAIN slot' = Sources /\ now' \in 0..MaxTime
      BY <1>1 DEF TrackingInv, TrackingTypes, IsReading
    <2>5. base' # Empty => \E t \in Sources : base'.observed.domain = DomainOf[t]
      BY DEF TrackingInv, TrackingTypes
    <2> QED BY <2>2, <2>3, <2>4, <2>5 DEF TrackingTypes, IsReading
  <1>4. AllConsistent'
    <2>1. \A x, y \in Held \cup {Device} : Consistent(x, y)
      BY DEF TrackingInv, AllConsistent
    <2>2. r.observed.ns = now /\ ~Device.wide /\ Device.raw = register
          /\ Device.produced = produced /\ Device.resets = resets /\ Device.observed.ns = now
      BY DEF Device
    <2>3. \A x \in Held \cup {Device} : Consistent(x, r) /\ Consistent(r, x)
      BY <2>1, <2>2, ConsistentTwin
    <2>4. Consistent(r, r)
      BY ConsistentSelf
    <2>5. \A x, y \in Held' \cup {Device'} : Consistent(x, y)
      BY <1>1, <1>2, <2>1, <2>3, <2>4
    <2> QED BY <2>5 DEF AllConsistent, Consistent
  <1>5. Baseline'
    <2>1. DOMAIN slot = Sources
      BY DEF TrackingInv, TrackingTypes
    <2> QED BY <2>1 DEF TrackingInv, Baseline
  <1> QED BY <1>3, <1>4, <1>5 DEF TrackingInv, TotalBehind

LEMMA ObserveKeeps ==
    ASSUME TrackingInv, NEW s \in Sources, Observe(s) \/ ObserveWide(s)
    PROVE  TrackingInv'
  <1> USE DeviceIsReading
  <1>1. CASE Observe(s)
    <2> DEFINE r == Reading(register, FALSE, s)
    <2>1. IsReading(r)
      BY DEF IsReading, Reading, Empty
    <2> QED BY <1>1, <2>1, TakingKeeps DEF Observe, Reading
  <1>2. CASE ObserveWide(s)
    <2>1. PICK raw \in WideReadings : slot' = [slot EXCEPT ![s] = Reading(raw, TRUE, s)]
      BY <1>2 DEF ObserveWide
    <2> DEFINE r == Reading(raw, TRUE, s)
    <2>2. raw \in Nat /\ WrapsInRange /\ raw >= Modulus
      BY TrackingAssumption
    <2>3. IsReading(r)
      BY <2>2 DEF IsReading, Reading, Empty
    <2>4. r.produced = produced /\ r.resets = resets /\ r.wide
          /\ r.observed = [domain |-> DomainOf[s], ns |-> now]
      BY DEF Reading
    <2> QED BY <1>2, <2>1, <2>3, <2>4, TakingKeeps DEF ObserveWide
  <1> QED BY <1>1, <1>2

-----------------------------------------------------------------------------
(* A reading is delivered *)

\* Delivering a reading adds none and changes no device.
LEMMA DeliveryHolds ==
    ASSUME TrackingInv, NEW s \in Sources, Deliver(s)
    PROVE  /\ Held' \subseteq Held /\ Device' = Device
           /\ slot[s] \in Held /\ IsReading(slot[s])
           /\ base # Empty => base \in Held /\ IsReading(base)
           /\ base' # Empty /\ base' \in {base, slot[s]}
           /\ TooWide(slot[s].raw) = slot[s].wide
  <1>1. slot[s] \in Held /\ IsReading(slot[s]) /\ base \in Held \cup {Empty} /\ DOMAIN slot = Sources
    BY DEF Deliver, Held, TrackingInv, TrackingTypes
  <1>2. base # Empty => IsReading(base)
    BY <1>1 DEF TrackingInv, TrackingTypes
  <1>3. base' # Empty /\ base' \in {base, slot[s]}
    BY <1>1 DEF Deliver, TrackingInv, Baseline
  <1>4. Held' \subseteq Held
    BY <1>1, <1>3 DEF Held, Deliver
  <1>5. Device' = Device
    BY DEF Device, Deliver
  <1>6. TooWide(slot[s].raw) = slot[s].wide
    BY <1>1, CounterAssumption DEF TooWide, IsReading
  <1> QED BY <1>1, <1>2, <1>3, <1>4, <1>5, <1>6

\* What update_counter claims never exceeds the truth: the readings agree up to
\* whole turns, and what it claims is less than one.
LEMMA ClaimBelowTruth ==
    ASSUME TrackingInv, NEW s \in Sources, Deliver(s), base # Empty, ~base.wide, ~slot[s].wide,
           base.resets = slot[s].resets, base.produced <= slot[s].produced
    PROVE  /\ last'.delta \in Nat /\ last'.truth \in Nat
           /\ last'.truth - last'.delta \in Int
           /\ last'.delta <= last'.truth
           /\ last'.continuity \in {"continuous", "wrapped"} =>
                /\ last'.truth - last'.delta \in Turns
                /\ WrapsInRange => last'.delta < Modulus
                /\ ~WrapsInRange => last'.delta = last'.truth
  <1> DEFINE r == slot[s]
             delta == last'.delta
             truth == last'.truth
             cont == last'.continuity
  <1> USE DeviceIsReading
  <1>1. IsReading(r) /\ IsReading(base) /\ Consistent(base, r) /\ counter.initialized
        /\ counter.last_raw = base.raw
    <2>1. r \in Held /\ base \in Held /\ IsReading(r) /\ IsReading(base)
      BY DeliveryHolds
    <2>2. Consistent(base, r)
      BY <2>1 DEF TrackingInv, AllConsistent
    <2> QED BY <2>1, <2>2 DEF TrackingInv, Baseline
  <1>2. truth = r.produced - base.produced /\ truth \in Nat
    BY <1>1 DEF Deliver, IsReading
  <1>3. cont = ContinuityOf(counter, r.raw, r.observed, now) /\ delta = DeltaOf(counter, r.raw, cont)
    BY DEF Deliver
  <1>4. truth - (r.raw - base.raw) \in Turns
    <2>1. (r.produced - r.raw) - (base.produced - base.raw) \in Turns
      BY <1>1 DEF Consistent
    <2>2. (r.produced - r.raw) - (base.produced - base.raw) = truth - (r.raw - base.raw)
      BY <1>1, <1>2 DEF IsReading
    <2> QED BY <2>1, <2>2
  <1>5. r.raw \in Nat /\ base.raw \in Nat
        /\ (WrapsInRange => r.raw < Modulus /\ base.raw < Modulus)
    BY <1>1 DEF IsReading
  <1>6. CASE cont = "continuous"
    <2>1. delta = r.raw - base.raw /\ r.raw > base.raw
      BY <1>1, <1>3, <1>5, <1>6 DEF ContinuityOf, DeltaOf, ForwardDelta
    <2>2. truth - delta \in Turns /\ delta \in Nat /\ (WrapsInRange => delta < Modulus)
      BY <1>4, <1>5, <2>1
    <2>3. WrapsInRange => -Modulus < truth - delta
      BY <1>2, <2>2
    <2>4. (WrapsInRange => truth - delta >= 0) /\ (~WrapsInRange => truth - delta = 0)
      BY <2>2, <2>3, TurnsFloor
    <2> QED BY <1>2, <2>2, <2>4
  <1>7. CASE cont = "wrapped"
    <2>1. delta = (Modulus - base.raw + r.raw) % Word /\ base.raw > r.raw /\ WrapsInRange
      BY <1>1, <1>3, <1>5, <1>7 DEF ContinuityOf, DeltaOf, WrapDelta, LooksLikeWrap
    <2>2. Modulus - base.raw + r.raw \in 0..(Modulus - 1) /\ Modulus < Word /\ Word \in Nat
      BY <1>5, <2>1, CounterAssumption
    <2>3. delta = Modulus - base.raw + r.raw
      <3> DEFINE d == Modulus - base.raw + r.raw
      <3>1. d \in Nat /\ d < Word /\ Word \in Nat /\ Word > 0
        BY <2>2
      <3> HIDE DEF d
      <3>2. d % Word = d
        BY <3>1
      <3> QED BY <2>1, <3>2 DEF d
    <2>4. -(1 * Modulus) \in Turns
      <3>1. 1 * Modulus \in Turns
        BY DEF Turns
      <3> QED BY <3>1, TurnsNegate
    <2>5. (truth - (r.raw - base.raw)) + (-(1 * Modulus)) \in Turns
      BY <1>4, <2>4, TurnsAdd
    <2>6. (truth - (r.raw - base.raw)) + (-(1 * Modulus)) = truth - delta
      BY <1>2, <1>5, <2>3
    <2>7. truth - delta \in Turns /\ delta \in Nat /\ delta < Modulus
      BY <2>2, <2>3, <2>5, <2>6
    <2>8. -Modulus < truth - delta
      BY <1>2, <2>7
    <2>9. truth - delta >= 0
      BY <2>1, <2>7, <2>8, TurnsFloor
    <2> QED BY <1>2, <2>1, <2>7, <2>9
  <1>8. CASE cont \notin {"continuous", "wrapped"}
    BY <1>2, <1>3, <1>8 DEF DeltaOf
  <1> QED BY <1>6, <1>7, <1>8

LEMMA DeliverKeeps ==
    ASSUME TrackingInv, NEW s \in Sources, Deliver(s)
    PROVE  TrackingInv'
  <1> DEFINE r == slot[s]
  <1> USE DeviceIsReading
  <1>1. TrackingTypes'
    <2>1. \A x \in Held' : IsReading(x) /\ x.observed.ns <= now /\ x.resets <= resets
      BY DeliveryHolds DEF TrackingInv, TrackingTypes
    <2>2. IsReading(Device)' /\ DOMAIN slot' = Sources /\ now' \in 0..MaxTime
      BY DeliveryHolds DEF TrackingInv, TrackingTypes, IsReading, Deliver
    <2>3. \A t \in Sources : slot'[t] # Empty => slot'[t].observed.domain = DomainOf[t]
      BY DEF TrackingInv, TrackingTypes, Deliver
    <2>4. \E t \in Sources : base'.observed.domain = DomainOf[t]
      BY DeliveryHolds DEF TrackingInv, TrackingTypes, Deliver
    <2> QED BY <2>1, <2>2, <2>3, <2>4 DEF TrackingTypes, IsReading, Deliver
  <1>2. AllConsistent'
    <2>1. \A x, y \in Held' \cup {Device'} : Consistent(x, y)
      BY DeliveryHolds DEF TrackingInv, AllConsistent
    <2> QED BY <2>1 DEF AllConsistent, Consistent
  <1>3. Baseline'
    <2>1. counter'.initialized = (base' # Empty)
      BY DeliveryHolds DEF Deliver, UpdateCounter
    <2>2. counter'.last_raw = base'.raw
      BY DeliveryHolds DEF Deliver, UpdateCounter, TrackingInv, Baseline
    <2>3. ~WideFirst => ~base'.wide
      BY DeliveryHolds DEF Deliver, TrackingInv, Baseline
    <2> QED BY <2>1, <2>2, <2>3, DeliveryHolds DEF Baseline
  <1>4. TotalBehind'
    <2>1. last'.continuity = ContinuityOf(counter, r.raw, r.observed, now)
          /\ last'.delta = DeltaOf(counter, r.raw, last'.continuity)
          /\ counter'.known_total = (counter.known_total + last'.delta) % Word
      BY DEF Deliver, UpdateCounter
    <2>2. Word \in Nat /\ Word > 0 /\ counter.known_total \in Nat
      BY CounterAssumption DEF TrackingInv, TotalBehind
    <2>3. last'.delta \in Int
      <3>1. r.raw \in Nat /\ (base # Empty => counter.last_raw \in Nat)
        BY DeliveryHolds DEF IsReading, TrackingInv, Baseline
      <3>2. CASE base = Empty
        <4>1. last'.continuity = "first_observation"
          BY <2>1, <3>2 DEF ContinuityOf, TrackingInv, Baseline
        <4> QED BY <2>1, <4>1 DEF DeltaOf
      <3>3. CASE base # Empty
        BY <2>1, <2>2, <3>1, <3>3 DEF DeltaOf, ForwardDelta, WrapDelta
      <3> QED BY <3>2, <3>3
    <2>4. counter'.known_total \in Nat
      BY <2>1, <2>2, <2>3
    <2>5. ASSUME ~WideFirst, resets = 0, ~overtaken' PROVE counter'.known_total <= base'.produced
      <3>1. ~overtaken /\ (base # Empty => ~(r.observed.ns < base.observed.ns)) /\ IsReading(r)
            /\ r \in Held
        BY <2>5, DeliveryHolds DEF Deliver
      <3>2. CASE base = Empty
        <4>1. last'.continuity = "first_observation" /\ base' = r
          BY <2>1, <3>2 DEF ContinuityOf, TrackingInv, Baseline, Deliver
        <4>2. last'.delta = 0
          BY <2>1, <4>1 DEF DeltaOf
        <4>3. counter.known_total = 0
          BY <2>2, <2>5, <3>1, <3>2 DEF TrackingInv, TotalBehind
        <4>4. counter'.known_total = 0
          BY <2>1, <2>2, <4>2, <4>3
        <4> QED BY <3>1, <4>1, <4>4 DEF IsReading
      <3>3. CASE base # Empty
        <4>1. IsReading(base) /\ base \in Held /\ ~base.wide /\ counter.initialized
          BY <2>5, <3>3, DeliveryHolds DEF TrackingInv, Baseline
        <4>2. counter.known_total <= base.produced
          BY <2>5, <3>1, <3>3 DEF TrackingInv, TotalBehind
        <4>3. CASE r.wide
          <5>1. last'.continuity = "undetermined" /\ base' = base
            BY <2>1, <4>1, <4>3, DeliveryHolds DEF ContinuityOf, Deliver
          <5>2. last'.delta = 0
            BY <2>1, <5>1 DEF DeltaOf
          <5>3. counter'.known_total <= counter.known_total
            BY <2>1, <2>2, <5>2
          <5> QED BY <2>2, <2>4, <4>1, <4>2, <5>1, <5>3 DEF IsReading
        <4>4. CASE ~r.wide
          <5>1. base' = r
            BY <4>1, <4>4, DeliveryHolds DEF Deliver
          <5>2. r.resets = 0 /\ base.resets = 0
            BY <2>5, <3>1, <4>1 DEF TrackingInv, TrackingTypes, IsReading
          <5>3. base.produced <= r.produced
            <6>1. Consistent(base, r)
              BY <3>1, <4>1 DEF TrackingInv, AllConsistent
            <6> QED BY <3>1, <3>3, <4>1, <6>1 DEF Consistent, IsReading
          <5>4. last'.delta \in Nat /\ last'.delta <= last'.truth
            BY <3>3, <4>1, <4>4, <5>2, <5>3, ClaimBelowTruth
          <5>5. last'.truth = r.produced - base.produced
            BY <3>3 DEF Deliver
          <5>6. counter'.known_total <= counter.known_total + last'.delta
            BY <2>1, <2>2, <5>4
          <5> QED BY <2>2, <2>4, <3>1, <4>1, <4>2, <5>1, <5>4, <5>5, <5>6 DEF IsReading
        <4> QED BY <4>3, <4>4
      <3> QED BY <3>2, <3>3
    <2>6. base' # Empty /\ resets' = resets
      BY DeliveryHolds DEF Deliver
    <2> QED BY <2>4, <2>5, <2>6 DEF TotalBehind
  <1> QED BY <1>1, <1>2, <1>3, <1>4 DEF TrackingInv

-----------------------------------------------------------------------------
(* The theorems *)

LEMMA TrackingInit == Init => TrackingInv
  <1> SUFFICES ASSUME Init PROVE TrackingInv
    OBVIOUS
  <1>1. Held = {}
    BY DEF Init, Held
  <1>2. IsReading(Device)
    BY CounterAssumption DEF Init, IsReading, Device, Empty, WrapsInRange
  <1>3. Consistent(Device, Device)
    BY <1>2, ConsistentSelf
  <1>4. TrackingTypes
    BY <1>1, <1>2, TrackingAssumption DEF Init, TrackingTypes
  <1>5. AllConsistent
    BY <1>1, <1>3 DEF AllConsistent
  <1>6. base = Empty /\ ~counter.initialized /\ counter.initialized \in BOOLEAN
        /\ counter.known_total = 0 /\ \A s \in Sources : slot[s] = Empty
    BY DEF Init, NewCounter
  <1>7. Baseline
    BY <1>6, Zenon DEF Baseline
  <1>8. TotalBehind
    BY <1>6 DEF TotalBehind
  <1> QED BY <1>4, <1>5, <1>7, <1>8 DEF TrackingInv

LEMMA TrackingStep ==
    ASSUME TrackingInv, [Next]_vars
    PROVE  TrackingInv'
  <1>1. CASE UNCHANGED vars
    <2>1. Device' = Device /\ Held' = Held
      BY <1>1 DEF vars, Device, Held
    <2> QED BY <1>1, <2>1 DEF vars, TrackingInv, TrackingTypes, AllConsistent, Baseline,
            TotalBehind, IsReading, Consistent
  <1>2. CASE Next
    BY <1>2, TickKeeps, ResetKeeps, ObserveKeeps, DeliverKeeps DEF Next
  <1> QED BY <1>1, <1>2

\* The readings under way, the baseline and the device always agree with one
\* another, and known_total stays behind the baseline.
THEOREM TrackingInvariant == Spec => []TrackingInv
  <1> QED BY TrackingInit, TrackingStep, PTL DEF Spec

\* known_total never exceeds what the device counted, for every width, rate and
\* number of sources, as long as the first reading is one the counter can show,
\* the device did not reload and no reading was overtaken.
THEOREM TrackingTotalNeverInvents ==
    ASSUME ~WideFirst
    PROVE  Spec => []TotalNeverInventsProgress
  <1>1. TrackingInv => TotalNeverInventsProgress
    <2> SUFFICES ASSUME TrackingInv, resets = 0, ~overtaken
                 PROVE  counter.known_total <= produced
      BY DEF TotalNeverInventsProgress
    <2>1. counter.known_total \in Nat /\ produced \in Nat
      BY DeviceIsReading DEF TrackingInv, TotalBehind
    <2>2. CASE base = Empty
      BY <2>1, <2>2 DEF TrackingInv, TotalBehind
    <2>3. CASE base # Empty
      <3>1. base \in Held /\ IsReading(base) /\ base.observed.ns <= now
        BY <2>3 DEF Held, TrackingInv, TrackingTypes
      <3>2. Consistent(base, Device)
        BY <3>1 DEF TrackingInv, AllConsistent
      <3>3. base.produced <= produced
        BY <3>1, <3>2 DEF Consistent, Device
      <3> QED BY <2>1, <2>3, <3>1, <3>3 DEF TrackingInv, TotalBehind, IsReading
    <2> QED BY <2>2, <2>3
  <1> QED BY <1>1, TrackingInvariant, PTL

\* A claimed delta is smaller than one turn of the counter, for every width, as
\* long as the first reading is one the counter can show.
THEOREM TrackingDeltaFitsWidth ==
    ASSUME ~WideFirst
    PROVE  Spec => []DeltaFitsWidth
  <1>1. Init => DeltaFitsWidth
    BY DEF Init, DeltaFitsWidth, YieldsKnownDelta
  <1>2. ASSUME TrackingInv, DeltaFitsWidth, [Next]_vars PROVE DeltaFitsWidth'
    <2>1. CASE UNCHANGED last
      BY <1>2, <2>1 DEF DeltaFitsWidth
    <2>2. ASSUME NEW s \in Sources, Deliver(s) PROVE DeltaFitsWidth'
      <3> DEFINE r == slot[s]
                 cont == last'.continuity
      <3> SUFFICES ASSUME WrapsInRange, YieldsKnownDelta(cont) PROVE last'.delta < Modulus
        BY DEF DeltaFitsWidth
      <3>1. cont = ContinuityOf(counter, r.raw, r.observed, now)
            /\ last'.delta = DeltaOf(counter, r.raw, cont)
        BY <2>2 DEF Deliver
      <3>2. Modulus \in Nat /\ Modulus > 0 /\ Word \in Nat /\ Modulus < Word
        BY CounterAssumption DEF WrapsInRange
      <3>3. base # Empty /\ counter.last_raw = base.raw /\ ~TooWide(r.raw)
        BY <1>2, <3>1 DEF ContinuityOf, YieldsKnownDelta, TrackingInv, Baseline
      <3>4. r.raw \in 0..(Modulus - 1) /\ counter.last_raw \in 0..(Modulus - 1)
        BY <1>2, <2>2, <3>2, <3>3, DeliveryHolds DEF IsReading, TrackingInv, Baseline
      <3>5. CASE cont = "continuous"
        BY <3>1, <3>2, <3>4, <3>5 DEF DeltaOf, ForwardDelta
      <3>6. CASE cont = "wrapped"
        <4>1. last'.delta = (Modulus - counter.last_raw + r.raw) % Word /\ counter.last_raw > r.raw
          BY <3>1, <3>2, <3>3, <3>4, <3>6 DEF ContinuityOf, DeltaOf, WrapDelta, LooksLikeWrap
        <4> DEFINE d == Modulus - counter.last_raw + r.raw
        <4>2. d \in Nat /\ d < Modulus
          BY <3>2, <3>4, <4>1
        <4>3. d % Word = d
          <5> HIDE DEF d
          <5> QED BY <3>2, <4>2
        <4> QED BY <4>1, <4>2, <4>3
      <3>7. CASE cont = "unchanged"
        BY <3>1, <3>2, <3>7 DEF DeltaOf
      <3> QED BY <3>5, <3>6, <3>7 DEF YieldsKnownDelta
    <2>3. CASE UNCHANGED vars
      BY <2>1, <2>3 DEF vars
    <2> QED BY <1>2, <2>1, <2>2, <2>3 DEF Next, Tick, Reset, Observe, ObserveWide
  <1> QED BY <1>1, <1>2, TrackingInvariant, PTL DEF Spec

\* With one clock and a rate bound that is true of the device, a delta claimed
\* as continuous or as a single wrap is the true number of events, for every
\* width, rate and number of sources: were it off, it would be off by a whole
\* turn at least, and the ambiguity check leaves no room for one.
THEOREM TrackingKnownDeltaExact ==
    ASSUME OneClock, RateHolds
    PROVE  Spec => []KnownDeltaExact
  <1>1. Init => KnownDeltaExact
    BY DEF Init, KnownDeltaExact
  <1>2. ASSUME TrackingInv, KnownDeltaExact, [Next]_vars PROVE KnownDeltaExact'
    <2>1. CASE UNCHANGED last
      BY <1>2, <2>1 DEF KnownDeltaExact
    <2>2. ASSUME NEW s \in Sources, Deliver(s) PROVE KnownDeltaExact'
      <3> DEFINE r == slot[s]
                 cont == last'.continuity
                 gap == r.observed.ns - base.observed.ns
      <3> SUFFICES ASSUME last'.exact, cont \in {"continuous", "wrapped"}
                   PROVE  last'.delta = last'.truth
        BY DEF KnownDeltaExact
      <3>1. cont = ContinuityOf(counter, r.raw, r.observed, now)
            /\ last'.delta = DeltaOf(counter, r.raw, cont)
            /\ base # Empty /\ ~base.wide /\ ~r.wide /\ base.resets = r.resets
            /\ counter.last_observed = base.observed
        BY <2>2 DEF Deliver
      <3>2. last'.truth = r.produced - base.produced
        BY <2>2, <3>1 DEF Deliver
      <3>3. r \in Held /\ base \in Held /\ IsReading(r) /\ IsReading(base) /\ r # Empty
        BY <1>2, <2>2, <3>1, DeliveryHolds DEF IsReading
      <3>4. Comparable(counter.last_observed, r.observed)
        BY <1>2, <3>1, <3>3 DEF TrackingInv, TrackingTypes, OneClock, Comparable
      <3>5. Gap(counter, r.observed, now) = gap
        BY <3>1, <3>4 DEF Gap
      <3>6. gap >= 0 /\ gap \in 0..MaxTime
        <4>1. gap \in Int /\ gap <= MaxTime
          BY <1>2, <3>3, TrackingAssumption DEF IsReading, TrackingInv, TrackingTypes
        <4>2. ~(gap < 0)
          BY <3>1, <3>5 DEF ContinuityOf
        <4> QED BY <4>1, <4>2, TrackingAssumption
      <3>7. base.produced <= r.produced /\ last'.truth <= EventsPerTick * gap
        <4>1. Consistent(base, r)
          BY <1>2, <3>3 DEF TrackingInv, AllConsistent
        <4>2. base.observed.ns <= r.observed.ns
          BY <3>3, <3>6 DEF IsReading
        <4> QED BY <3>2, <4>1, <4>2 DEF Consistent
      <3>8. /\ last'.delta \in Nat /\ last'.truth \in Nat
            /\ last'.truth - last'.delta \in Turns
            /\ WrapsInRange => last'.delta < Modulus
            /\ ~WrapsInRange => last'.delta = last'.truth
        BY <1>2, <2>2, <3>1, <3>7, ClaimBelowTruth
      <3>9. CASE WrapsInRange
        <4>1. AdvanceBounded(gap) /\ MaxAdvance(gap) \in Int /\ EventsPerTick * gap <= MaxAdvance(gap)
          BY <3>6, RateCoversGap
        <4>2. ~ExtraWrapFits(gap, last'.delta)
          BY <3>1, <3>5, <3>9 DEF ContinuityOf, DeltaOf
        <4>3. MaxAdvance(gap) < last'.delta + Modulus
          BY <3>8, <4>1, <4>2, CounterAssumption DEF ExtraWrapFits
        <4>4. EventsPerTick * gap \in Int /\ Modulus \in Nat
          BY <3>6, TrackingAssumption, CounterAssumption
        <4>5. last'.truth - last'.delta < Modulus /\ -Modulus < last'.truth - last'.delta
          BY <3>7, <3>8, <3>9, <4>1, <4>3, <4>4
        <4>6. last'.truth - last'.delta = 0
          BY <3>8, <3>9, <4>5, TurnsApart
        <4> QED BY <3>8, <4>6
      <3> QED BY <3>8, <3>9
    <2>3. CASE UNCHANGED vars
      BY <2>1, <2>3 DEF vars
    <2> QED BY <1>2, <2>1, <2>2, <2>3 DEF Next, Tick, Reset, Observe, ObserveWide
  <1> QED BY <1>1, <1>2, TrackingInvariant, PTL DEF Spec
=============================================================================
