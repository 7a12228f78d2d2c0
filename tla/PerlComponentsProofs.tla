------------------------ MODULE PerlComponentsProofs ------------------------
(***************************************************************************)
(* Proofs about PerlComponents, for any classes, any number of values and  *)
(* clients.  The invariant speaks of one item at a time: its record and    *)
(* who holds it.  A lemma for each way in which a record changes says that *)
(* the item stays good; the actions only put these together.               *)
(***************************************************************************)
EXTENDS PerlComponents, TLAPS

\* References to the scalar beyond its owners.
Extra(r, isPending) ==
  CASE r.by = "GetModule" /\ r.object = "module"  -> 1
    [] r.by = "GetModule" /\ r.object = "nothing" -> -1
    [] r.by = "CreateInstance" /\ ~isPending      -> 1
    [] r.by = "failure"                           -> 1
    [] OTHER                                      -> 0

\* The scalar of an item has the owners that it should have.
GoodScalar(r, isPending) ==
  /\ r.scalar.refs = r.scalar.owners + Extra(r, isPending)
  /\ r.object # "nothing" =>
       r.scalar.owners = One(r.refs > 0) + One(r.var) + One(isPending)
                           + One(r.by = "GetModule")

\* An item that n clients hold.
Good(r, n, inTable, isPending) ==
  /\ r \in ItemRecord
  /\ n \in Nat
  /\ r.refs = n + One(inTable) + One(isPending)
  /\ GoodScalar(r, isPending)
  /\ r.kind = "unused" => r = UnusedItem
  /\ inTable => r.object = "module"
  /\ isPending => r.by = "CreateInstance" /\ r.object = "instance" /\ n = 0
  /\ r.var => r.by = "WrapObject"
  /\ r.by = "WrapObject" => r.object = "instance"
  /\ r.by = "GetModule" /\ r.object = "nothing" => r.refs = 0
  /\ r.by = "CreateInstance" => r.object = "instance"
  /\ r.by # "WrapObject" => r.class = r.asked

ItemsGood == \A i \in Item : Good(item[i], clients[i], i \in cached, i \in pending)

IInv == TypeOK /\ ItemsGood

-----------------------------------------------------------------------------
\* There is a class, so that an unused item has one.
LEMMA ClassExists == AnyClass \in Class
BY PerlComponentsAssumption DEF AnyClass

\* Nothing in memory, and held by nobody, is a good item.
LEMMA UnusedGood == Good(UnusedItem, 0, FALSE, FALSE)
BY ClassExists DEF Good, GoodScalar, Extra, UnusedItem, NoScalar, ItemRecord, Kinds, Objects,
                   Origins, Scalar, One

\* What a failing method leaves.
LEMMA FailedGood == Good(FailedValue, 0, FALSE, FALSE)
<1>1. Forgotten(Returned) = [refs |-> 1, owners |-> 0]
  <2>1. Returned = [refs |-> 1, owners |-> 1]
    BY DEF Returned, Own, NewScalar
  <2>. QED BY <2>1 DEF Forgotten, Disown
<1>. QED
  BY <1>1, ClassExists
  DEF FailedValue, Value, Good, GoodScalar, Extra, ItemRecord, Kinds, Objects, Origins, Scalar, One

\* A wrapper is a reference and an owner more.
LEMMA WrappedScalar ==
  ASSUME NEW s \in Scalar
  PROVE  Wrapped(s) \in Scalar /\ Wrapped(s).refs = s.refs + 1 /\ Wrapped(s).owners = s.owners + 1
<1> DEFINE t == Inc(s)
<1>1. t \in Scalar /\ t.refs = s.refs + 1 /\ t.owners = s.owners
  BY DEF Inc, Scalar
<1>2. Wrapped(s) = Own(t) BY DEF Wrapped
<1> HIDE DEF t
<1>. QED BY <1>1, <1>2 DEF Own, Scalar

\* An owner that gives up its reference.
LEMMA GivenUpScalar ==
  ASSUME NEW s \in Scalar
  PROVE  GivenUp(s) \in Scalar /\ GivenUp(s).refs = s.refs - 1 /\ GivenUp(s).owners = s.owners - 1
<1> DEFINE t == Dec(s)
<1>1. t \in Scalar /\ t.refs = s.refs - 1 /\ t.owners = s.owners
  BY DEF Dec, Scalar
<1>2. GivenUp(s) = Disown(t) BY DEF GivenUp
<1> HIDE DEF t
<1>. QED BY <1>1, <1>2 DEF Disown, Scalar

\* An owner that goes without doing so.
LEMMA ForgottenScalar ==
  ASSUME NEW s \in Scalar
  PROVE  Forgotten(s) \in Scalar /\ Forgotten(s).refs = s.refs /\ Forgotten(s).owners = s.owners - 1
BY DEF Forgotten, Disown, Scalar

\* A wrapper changes the kind, the references and the scalar of a value.
LEMMA WrappedFields ==
  ASSUME NEW v \in ItemRecord, NEW kind \in Kinds, NEW w, w = WrappedAs(v, kind)
  PROVE  /\ w \in ItemRecord /\ w.kind = kind /\ w.by = v.by /\ w.object = v.object
         /\ w.class = v.class /\ w.asked = v.asked /\ w.refs = 1 /\ w.var = v.var
         /\ w.scalar = Wrapped(v.scalar)
<1>1. v.scalar \in Scalar BY DEF ItemRecord
<1>2. Wrapped(v.scalar) \in Scalar BY <1>1, WrappedScalar
<1>. QED BY <1>2 DEF WrappedAs, ItemRecord, Kinds

\* A native reference dropped takes that of the wrapper to the scalar with it if it is the last.
LEMMA ReleasedFields ==
  ASSUME NEW v \in ItemRecord, v.refs # 0, NEW w, w = Released(v)
  PROVE  /\ w \in ItemRecord /\ w.kind = v.kind /\ w.by = v.by /\ w.object = v.object
         /\ w.class = v.class /\ w.asked = v.asked /\ w.refs = v.refs - 1 /\ w.var = v.var
         /\ v.refs = 1 /\ v.object # "nothing" => w.scalar = GivenUp(v.scalar)
         /\ ~(v.refs = 1 /\ v.object # "nothing") => w.scalar = v.scalar
<1>1. v.scalar \in Scalar BY DEF ItemRecord
<1>2. GivenUp(v.scalar) \in Scalar BY <1>1, GivenUpScalar
<1>3. CASE v.refs = 1 /\ v.object # "nothing"
  <2> DEFINE s == GivenUp(v.scalar)
             n == 0
  <2>1. w = [v EXCEPT !.refs = n, !.scalar = s]
    BY <1>3 DEF Released
  <2>2. s \in Scalar /\ n \in Nat BY <1>2
  <2> HIDE DEF s, n
  <2>3. /\ w \in ItemRecord /\ w.kind = v.kind /\ w.by = v.by /\ w.object = v.object
        /\ w.class = v.class /\ w.asked = v.asked /\ w.refs = n /\ w.var = v.var
        /\ w.scalar = s
    BY <2>1, <2>2 DEF ItemRecord
  <2>. QED BY <1>3, <2>3 DEF s, n
<1>4. CASE ~(v.refs = 1 /\ v.object # "nothing")
  BY <1>4 DEF Released, ItemRecord
<1>. QED BY <1>3, <1>4

\* The caller's reference to a value is given up.
LEMMA HandedOverFields ==
  ASSUME NEW v \in ItemRecord, NEW w, w = HandedOver(v)
  PROVE  /\ w \in ItemRecord /\ w.kind = v.kind /\ w.by = v.by /\ w.object = v.object
         /\ w.class = v.class /\ w.asked = v.asked /\ w.refs = v.refs /\ w.var = v.var
         /\ w.scalar.refs = v.scalar.refs - 1 /\ w.scalar.owners = v.scalar.owners - 1
<1> DEFINE s == GivenUp(v.scalar)
<1>1. s \in Scalar /\ s.refs = v.scalar.refs - 1 /\ s.owners = v.scalar.owners - 1
  BY GivenUpScalar DEF ItemRecord
<1>2. w = [v EXCEPT !.scalar = s] BY DEF HandedOver
<1> HIDE DEF s
<1>. QED BY <1>1, <1>2 DEF ItemRecord

\* A mortal scalar has one reference, which FREETMPS gives up.
LEMMA NewMortalCounts == NewMortal = [refs |-> 1, owners |-> 1]
BY DEF NewMortal, Mortal, Own, NewScalar

\* A value that was returned has one reference, its caller's.
LEMMA ReturnedCounts == Returned = [refs |-> 1, owners |-> 1]
BY DEF Returned, Own, NewScalar

\* What GetModule makes of the module object, for a client and the table.
LEMMA ModuleGood ==
  ASSUME NEW r,
         r = Put(WrappedAs(Value("GetModule", "module", AnyClass, AnyClass, Inc(NewMortal)),
                           "native"))
  PROVE  Good(r, 1, TRUE, FALSE)
<1> DEFINE s == Inc(NewMortal)
           v == Value("GetModule", "module", AnyClass, AnyClass, s)
           w == WrappedAs(v, "native")
<1>1. s \in Scalar /\ s.refs = 2 /\ s.owners = 1
  BY NewMortalCounts DEF Inc, Scalar
<1>2. r = Put(w) OBVIOUS
<1>3. w = WrappedAs(v, "native") OBVIOUS
<1>4. v = Value("GetModule", "module", AnyClass, AnyClass, s) OBVIOUS
<1> HIDE DEF s, v, w
<1>5. /\ v \in ItemRecord /\ v.kind = "none" /\ v.by = "GetModule" /\ v.object = "module"
      /\ v.class = AnyClass /\ v.asked = AnyClass /\ v.refs = 0 /\ v.var = FALSE /\ v.scalar = s
  BY <1>1, <1>4, ClassExists DEF Value, ItemRecord, Kinds, Origins, Objects
<1>6. /\ w \in ItemRecord /\ w.kind = "native" /\ w.by = "GetModule" /\ w.object = "module"
      /\ w.class = AnyClass /\ w.asked = AnyClass /\ w.refs = 1 /\ w.var = FALSE
      /\ w.scalar = Wrapped(s)
  BY <1>3, <1>5, WrappedFields DEF Kinds
<1>7. /\ r \in ItemRecord /\ r.kind = "native" /\ r.by = "GetModule" /\ r.object = "module"
      /\ r.class = AnyClass /\ r.asked = AnyClass /\ r.refs = 2 /\ r.var = FALSE
      /\ r.scalar = Wrapped(s)
  BY <1>2, <1>6 DEF Put, ItemRecord
<1>8. r.scalar.refs = 3 /\ r.scalar.owners = 2
  BY <1>1, <1>7, WrappedScalar
<1>. QED BY <1>7, <1>8 DEF Good, GoodScalar, Extra, One

\* What getClassObject returned, in a factory.
LEMMA FactoryGood ==
  ASSUME NEW c \in Class, NEW r,
         r = HandedOver(WrappedAs(Value("GetClassObject", "factory", c, c, Returned), "native"))
  PROVE  Good(r, 1, FALSE, FALSE)
<1> DEFINE v == Value("GetClassObject", "factory", c, c, Returned)
           w == WrappedAs(v, "native")
<1>1. Returned \in Scalar /\ Returned.refs = 1 /\ Returned.owners = 1
  BY ReturnedCounts DEF Scalar
<1>2. r = HandedOver(w) OBVIOUS
<1>3. w = WrappedAs(v, "native") OBVIOUS
<1>4. v = Value("GetClassObject", "factory", c, c, Returned) OBVIOUS
<1> HIDE DEF v, w
<1>5. /\ v \in ItemRecord /\ v.kind = "none" /\ v.by = "GetClassObject" /\ v.object = "factory"
      /\ v.class = c /\ v.asked = c /\ v.refs = 0 /\ v.var = FALSE /\ v.scalar = Returned
  BY <1>1, <1>4 DEF Value, ItemRecord, Kinds, Origins, Objects
<1>6. /\ w \in ItemRecord /\ w.kind = "native" /\ w.by = "GetClassObject" /\ w.object = "factory"
      /\ w.class = c /\ w.asked = c /\ w.refs = 1 /\ w.var = FALSE /\ w.scalar = Wrapped(Returned)
  BY <1>3, <1>5, WrappedFields DEF Kinds
<1>7. w.scalar \in Scalar /\ w.scalar.refs = 2 /\ w.scalar.owners = 2
  BY <1>1, <1>6, WrappedScalar
<1>8. /\ r \in ItemRecord /\ r.kind = "native" /\ r.by = "GetClassObject" /\ r.object = "factory"
      /\ r.class = c /\ r.asked = c /\ r.refs = 1 /\ r.var = FALSE
      /\ r.scalar.refs = 1 /\ r.scalar.owners = 1
  BY <1>2, <1>6, <1>7, HandedOverFields
<1>. QED BY <1>8 DEF Good, GoodScalar, Extra, One

\* What createInstance returned, before it is asked for an interface.
LEMMA InstanceGood ==
  ASSUME NEW c \in Class, NEW kind \in {"native", "stub"}, NEW r,
         r = WrappedAs(Value("CreateInstance", "instance", c, c, Returned), kind)
  PROVE  Good(r, 0, FALSE, TRUE)
<1> DEFINE v == Value("CreateInstance", "instance", c, c, Returned)
<1>1. Returned \in Scalar /\ Returned.refs = 1 /\ Returned.owners = 1
  BY ReturnedCounts DEF Scalar
<1>2. r = WrappedAs(v, kind) OBVIOUS
<1>3. v = Value("CreateInstance", "instance", c, c, Returned) OBVIOUS
<1> HIDE DEF v
<1>4. /\ v \in ItemRecord /\ v.kind = "none" /\ v.by = "CreateInstance" /\ v.object = "instance"
      /\ v.class = c /\ v.asked = c /\ v.refs = 0 /\ v.var = FALSE /\ v.scalar = Returned
  BY <1>1, <1>3 DEF Value, ItemRecord, Kinds, Origins, Objects
<1>5. /\ r \in ItemRecord /\ r.kind = kind /\ r.by = "CreateInstance" /\ r.object = "instance"
      /\ r.class = c /\ r.asked = c /\ r.refs = 1 /\ r.var = FALSE /\ r.scalar = Wrapped(Returned)
  BY <1>2, <1>4, WrappedFields DEF Kinds
<1>6. r.scalar.refs = 2 /\ r.scalar.owners = 2
  BY <1>1, <1>5, WrappedScalar
<1>. QED BY <1>5, <1>6 DEF Good, GoodScalar, Extra, One

\* What QueryInterface returned.
LEMMA QueriedGood ==
  ASSUME NEW c \in Class, NEW kind \in {"native", "stub"}, NEW r,
         r = HandedOver(WrappedAs(Value("QueryInterface", "instance", c, c, Returned), kind))
  PROVE  Good(r, 1, FALSE, FALSE)
<1> DEFINE v == Value("QueryInterface", "instance", c, c, Returned)
           w == WrappedAs(v, kind)
<1>1. Returned \in Scalar /\ Returned.refs = 1 /\ Returned.owners = 1
  BY ReturnedCounts DEF Scalar
<1>2. r = HandedOver(w) OBVIOUS
<1>3. w = WrappedAs(v, kind) OBVIOUS
<1>4. v = Value("QueryInterface", "instance", c, c, Returned) OBVIOUS
<1> HIDE DEF v, w
<1>5. /\ v \in ItemRecord /\ v.kind = "none" /\ v.by = "QueryInterface" /\ v.object = "instance"
      /\ v.class = c /\ v.asked = c /\ v.refs = 0 /\ v.var = FALSE /\ v.scalar = Returned
  BY <1>1, <1>4 DEF Value, ItemRecord, Kinds, Origins, Objects
<1>6. /\ w \in ItemRecord /\ w.kind = kind /\ w.by = "QueryInterface" /\ w.object = "instance"
      /\ w.class = c /\ w.asked = c /\ w.refs = 1 /\ w.var = FALSE /\ w.scalar = Wrapped(Returned)
  BY <1>3, <1>5, WrappedFields DEF Kinds
<1>7. w.scalar \in Scalar /\ w.scalar.refs = 2 /\ w.scalar.owners = 2
  BY <1>1, <1>6, WrappedScalar
<1>8. /\ r \in ItemRecord /\ r.kind = kind /\ r.by = "QueryInterface" /\ r.object = "instance"
      /\ r.class = c /\ r.asked = c /\ r.refs = 1 /\ r.var = FALSE
      /\ r.scalar.refs = 1 /\ r.scalar.owners = 1
  BY <1>2, <1>6, <1>7, HandedOverFields
<1>. QED BY <1>8 DEF Good, GoodScalar, Extra, One

\* What WrapObject makes of a variable.
LEMMA WrapGood ==
  ASSUME NEW c \in Class, NEW kind \in {"native", "stub"}, NEW r,
         r = [WrappedAs(Value("WrapObject", "instance", c, c, Own(NewScalar)), kind)
                EXCEPT !.var = TRUE]
  PROVE  Good(r, 1, FALSE, FALSE)
<1> DEFINE v == Value("WrapObject", "instance", c, c, Own(NewScalar))
           w == WrappedAs(v, kind)
<1>1. Own(NewScalar) \in Scalar /\ Own(NewScalar).refs = 1 /\ Own(NewScalar).owners = 1
  BY DEF Own, NewScalar, Scalar
<1>2. r = [w EXCEPT !.var = TRUE] OBVIOUS
<1>3. w = WrappedAs(v, kind) OBVIOUS
<1>4. v = Value("WrapObject", "instance", c, c, Own(NewScalar)) OBVIOUS
<1> HIDE DEF v, w
<1>5. /\ v \in ItemRecord /\ v.kind = "none" /\ v.by = "WrapObject" /\ v.object = "instance"
      /\ v.class = c /\ v.asked = c /\ v.refs = 0 /\ v.var = FALSE /\ v.scalar = Own(NewScalar)
  BY <1>1, <1>4 DEF Value, ItemRecord, Kinds, Origins, Objects
<1>6. /\ w \in ItemRecord /\ w.kind = kind /\ w.by = "WrapObject" /\ w.object = "instance"
      /\ w.class = c /\ w.asked = c /\ w.refs = 1 /\ w.scalar = Wrapped(Own(NewScalar))
  BY <1>3, <1>5, WrappedFields DEF Kinds
<1>7. w.scalar.refs = 2 /\ w.scalar.owners = 2
  BY <1>1, <1>6, WrappedScalar
<1>8. /\ r \in ItemRecord /\ r.kind = kind /\ r.by = "WrapObject" /\ r.object = "instance"
      /\ r.class = c /\ r.asked = c /\ r.refs = 1 /\ r.var = TRUE /\ r.scalar = w.scalar
  BY <1>2, <1>6 DEF ItemRecord
<1>. QED BY <1>7, <1>8 DEF Good, GoodScalar, Extra, One

\* A module or factory that the component manager constructs.
LEMMA ConstructedGood ==
  ASSUME NEW r, r = [UnusedItem EXCEPT !.kind = "native", !.refs = 1]
  PROVE  Good(r, 1, FALSE, FALSE)
<1> DEFINE v == UnusedItem
           kind == "native"
           n == 1
<1>1. /\ v \in ItemRecord /\ v.by = "constructor" /\ v.object = "nothing"
      /\ v.class = AnyClass /\ v.asked = AnyClass /\ v.var = FALSE
      /\ v.scalar.refs = 0 /\ v.scalar.owners = 0
  BY ClassExists DEF UnusedItem, NoScalar, ItemRecord, Kinds, Objects, Origins, Scalar
<1>2. r = [v EXCEPT !.kind = kind, !.refs = n] OBVIOUS
<1>3. kind \in Kinds /\ n \in Nat BY DEF Kinds
<1> HIDE DEF v, kind, n
<1>4. /\ r \in ItemRecord /\ r.kind = kind /\ r.by = v.by /\ r.object = v.object
      /\ r.class = v.class /\ r.asked = v.asked /\ r.refs = n /\ r.var = v.var
      /\ r.scalar = v.scalar
  BY <1>1, <1>2, <1>3 DEF ItemRecord
<1>. QED BY <1>1, <1>4 DEF Good, GoodScalar, Extra, One, kind, n

\* The temporary of a load that failed.
LEMMA BadTemporaryGood ==
  ASSUME NEW s \in BadTemporary, NEW r,
         r = Value("GetModule", "nothing", AnyClass, AnyClass, s)
  PROVE  Good(r, 0, FALSE, FALSE)
<1>1. s \in Scalar /\ s.refs = s.owners - 1
  <2>1. NewMortal \in Scalar /\ NewMortal.refs = 1 /\ NewMortal.owners = 1
    BY NewMortalCounts DEF Scalar
  <2>2. CASE s = GivenUp(Dec(NewMortal))
    <3> DEFINE t == Dec(NewMortal)
    <3>1. t \in Scalar /\ t.refs = 0 /\ t.owners = 1
      BY NewMortalCounts DEF Dec, Scalar
    <3>2. s = GivenUp(t) BY <2>2
    <3> HIDE DEF t
    <3>. QED BY <3>1, <3>2, GivenUpScalar
  <2>3. CASE s = Mortal(GivenUp(NewMortal))
    <3> DEFINE t == GivenUp(NewMortal)
    <3>1. t \in Scalar /\ t.refs = 0 /\ t.owners = 0
      BY <2>1, GivenUpScalar
    <3>2. s = Own(t) BY <2>3 DEF Mortal
    <3> HIDE DEF t
    <3>. QED BY <3>1, <3>2 DEF Own, Scalar
  <2>. QED BY <2>2, <2>3 DEF BadTemporary
<1>2. /\ r \in ItemRecord /\ r.kind = "none" /\ r.by = "GetModule" /\ r.object = "nothing"
      /\ r.class = AnyClass /\ r.asked = AnyClass /\ r.refs = 0 /\ r.var = FALSE /\ r.scalar = s
  BY <1>1, ClassExists DEF Value, ItemRecord, Kinds, Origins, Objects
<1>3. r.scalar.refs = r.scalar.owners + (-1)
  BY <1>1, <1>2 DEF Scalar
<1>4. GoodScalar(r, FALSE)
  BY <1>2, <1>3 DEF GoodScalar, Extra
<1>5. r.refs = 0 + One(FALSE) + One(FALSE)
  BY <1>2 DEF One
<1>. QED BY <1>2, <1>4, <1>5 DEF Good

\* A reference more.
LEMMA OneMoreGood ==
  ASSUME NEW r, NEW n, NEW t \in BOOLEAN, NEW w,
         Good(r, n, t, FALSE), r.refs > 0, w = [r EXCEPT !.refs = @ + 1]
  PROVE  Good(w, n + 1, t, FALSE)
<1> DEFINE m == r.refs + 1
<1>1. r \in ItemRecord BY DEF Good
<1>2. m \in Nat /\ w = [r EXCEPT !.refs = m] BY <1>1 DEF ItemRecord
<1>3. m = r.refs + 1 OBVIOUS
<1> HIDE DEF m
<1>4. /\ w \in ItemRecord /\ w.kind = r.kind /\ w.by = r.by /\ w.object = r.object
      /\ w.class = r.class /\ w.asked = r.asked /\ w.refs = m /\ w.var = r.var
      /\ w.scalar = r.scalar
  BY <1>1, <1>2 DEF ItemRecord
<1>5. n \in Nat /\ r.refs \in Nat /\ r.refs # 0
  <2>1. r.refs \in Nat BY <1>1 DEF ItemRecord
  <2>2. n \in Nat BY DEF Good
  <2>. QED BY <2>1, <2>2
<1>6. r.kind # "unused"
  <2>1. UnusedItem.refs = 0 BY DEF UnusedItem
  <2>. QED BY <1>5, <2>1 DEF Good
<1>. QED BY <1>3, <1>4, <1>5, <1>6 DEF Good, GoodScalar, Extra, One

\* A reference less: a client's, or that of a loader's table.
LEMMA OneLessGood ==
  ASSUME NEW r, NEW n \in Nat, NEW t \in BOOLEAN, NEW m \in Nat, NEW u \in BOOLEAN,
         NEW p \in BOOLEAN, NEW w,
         Good(r, n, t, p), m + One(u) = n + One(t) - 1, u => t, p => m = 0, w = Released(r)
  PROVE  Good(w, m, u, p)
<1>1. r \in ItemRecord /\ r.refs # 0 /\ r.refs \in Nat BY DEF Good, One, ItemRecord
<1>2. /\ w \in ItemRecord /\ w.kind = r.kind /\ w.by = r.by /\ w.object = r.object
      /\ w.class = r.class /\ w.asked = r.asked /\ w.refs = r.refs - 1 /\ w.var = r.var
      /\ r.refs = 1 /\ r.object # "nothing" => w.scalar = GivenUp(r.scalar)
      /\ ~(r.refs = 1 /\ r.object # "nothing") => w.scalar = r.scalar
  BY <1>1, ReleasedFields
<1>3. r.kind # "unused"
  <2>1. UnusedItem.refs = 0 BY DEF UnusedItem
  <2>. QED BY <1>1, <2>1 DEF Good
<1>4. w.refs = m + One(u) + One(p) BY <1>2 DEF Good, One
<1>5. GoodScalar(w, p)
  <2>1. r.scalar \in Scalar BY <1>1 DEF ItemRecord
  <2>2. r.scalar.refs \in Int /\ r.scalar.owners \in Int BY <2>1 DEF Scalar
  <2>3. Extra(w, p) = Extra(r, p) BY <1>2 DEF Extra
  <2>4. Extra(r, p) \in Int BY DEF Extra
  <2>5. GoodScalar(r, p) BY DEF Good
  <2>6. CASE r.refs = 1 /\ r.object # "nothing"
    <3>1. w.scalar.refs = r.scalar.refs - 1 /\ w.scalar.owners = r.scalar.owners - 1
      BY <1>2, <2>1, <2>6, GivenUpScalar
    <3>2. w.refs = 0 BY <1>2, <2>6
    <3>. QED BY <1>2, <2>2, <2>3, <2>4, <2>5, <2>6, <3>1, <3>2 DEF GoodScalar, One
  <2>7. CASE ~(r.refs = 1 /\ r.object # "nothing")
    <3>1. w.scalar = r.scalar BY <1>2, <2>7
    <3>2. r.object # "nothing" => w.refs > 0 /\ r.refs > 0 BY <1>1, <1>2, <2>7
    <3>. QED BY <1>2, <2>3, <2>5, <3>1, <3>2 DEF GoodScalar, One
  <2>. QED BY <2>6, <2>7
<1>. QED BY <1>1, <1>2, <1>3, <1>4, <1>5 DEF Good

\* An item of which nothing is left.
LEMMA SettledGood ==
  ASSUME NEW r, NEW n, NEW t \in BOOLEAN, NEW p \in BOOLEAN, Good(r, n, t, p)
  PROVE  Good(Settled(r), n, t, p)
<1>1. CASE r.refs = 0 /\ r.scalar = NoScalar
  <2>1. n = 0 /\ t = FALSE /\ p = FALSE BY <1>1 DEF Good, One
  <2>. QED BY <1>1, <2>1, UnusedGood DEF Settled
<1>2. CASE ~(r.refs = 0 /\ r.scalar = NoScalar)
  BY <1>2 DEF Settled
<1>. QED BY <1>1, <1>2

\* A pending item has its wrapper, for CreateInstance, and the value.
LEMMA PendingFields ==
  ASSUME NEW r, NEW n, NEW t \in BOOLEAN, Good(r, n, t, TRUE)
  PROVE  /\ r \in ItemRecord /\ n = 0 /\ ~t /\ r.refs = 1 /\ r.object = "instance"
         /\ r.by = "CreateInstance" /\ r.var = FALSE /\ r.kind # "unused" /\ r.class = r.asked
         /\ r.scalar \in Scalar /\ r.scalar.refs = 2 /\ r.scalar.owners = 2
<1>1. /\ r \in ItemRecord /\ n = 0 /\ ~t /\ r.refs = 1 /\ r.object = "instance"
      /\ r.by = "CreateInstance" /\ r.var = FALSE /\ r.class = r.asked
  BY DEF Good, One, ItemRecord
<1>2. r.kind # "unused"
  <2>1. UnusedItem.refs = 0 BY DEF UnusedItem
  <2>. QED BY <1>1, <2>1 DEF Good
<1>3. r.scalar \in Scalar BY <1>1 DEF ItemRecord
<1>4. r.scalar.refs = r.scalar.owners + 0 /\ r.scalar.owners = 2
  BY <1>1 DEF Good, GoodScalar, Extra, One
<1>. QED BY <1>1, <1>2, <1>3, <1>4

\* CreateInstance returns the wrapper, and keeps its reference to the value.
LEMMA ReturnedGood ==
  ASSUME NEW r, NEW n, NEW t \in BOOLEAN, NEW w,
         Good(r, n, t, TRUE), w = ValueKept(r)
  PROVE  Good(w, n + 1, t, FALSE)
<1>0. /\ r \in ItemRecord /\ n = 0 /\ ~t /\ r.refs = 1 /\ r.object = "instance"
      /\ r.by = "CreateInstance" /\ r.var = FALSE /\ r.kind # "unused" /\ r.class = r.asked
      /\ r.scalar \in Scalar /\ r.scalar.refs = 2 /\ r.scalar.owners = 2
  BY PendingFields
<1> DEFINE s == Forgotten(r.scalar)
<1>1. w = [r EXCEPT !.scalar = s] BY DEF ValueKept
<1>2. s \in Scalar /\ s.refs = 2 /\ s.owners = 1 BY <1>0, ForgottenScalar
<1> HIDE DEF s
<1>3. /\ w \in ItemRecord /\ w.kind = r.kind /\ w.by = r.by /\ w.object = r.object
      /\ w.class = r.class /\ w.asked = r.asked /\ w.refs = r.refs /\ w.var = r.var
      /\ w.scalar = s
  BY <1>0, <1>1, <1>2 DEF ItemRecord
<1>. QED BY <1>0, <1>2, <1>3 DEF Good, GoodScalar, Extra, One

\* CreateInstance drops the wrapper of the object it was given.
LEMMA DroppedFields ==
  ASSUME NEW r, NEW n, NEW t \in BOOLEAN, NEW w,
         Good(r, n, t, TRUE), w = Released(r)
  PROVE  /\ w \in ItemRecord /\ w.refs = 0 /\ w.object = "instance" /\ w.kind = r.kind
         /\ w.by = "CreateInstance" /\ w.var = FALSE /\ w.class = w.asked
         /\ w.scalar \in Scalar /\ w.scalar.refs = 1 /\ w.scalar.owners = 1
<1>1. r \in ItemRecord /\ r.refs = 1 /\ r.object = "instance" /\ r.scalar \in Scalar
      /\ r.scalar.refs = 2 /\ r.scalar.owners = 2 /\ r.by = "CreateInstance"
      /\ r.var = FALSE /\ r.class = r.asked
  BY PendingFields
<1>2. /\ w \in ItemRecord /\ w.kind = r.kind /\ w.by = r.by /\ w.object = r.object
      /\ w.class = r.class /\ w.asked = r.asked /\ w.refs = r.refs - 1 /\ w.var = r.var
      /\ w.scalar = GivenUp(r.scalar)
  BY <1>1, ReleasedFields
<1>. QED BY <1>1, <1>2, GivenUpScalar

\* Perl's QueryInterface answered: the value is kept all the same.
LEMMA DroppedGood ==
  ASSUME NEW r, NEW n, NEW t \in BOOLEAN, NEW w,
         Good(r, n, t, TRUE), w = ValueKept(Released(r))
  PROVE  Good(w, n, t, FALSE)
<1>0. n = 0 /\ ~t /\ r.kind # "unused"
  <2>1. n = 0 /\ ~t BY DEF Good
  <2>2. r.kind # "unused" BY PendingFields
  <2>. QED BY <2>1, <2>2
<1> DEFINE v == Released(r)
           s == Forgotten(v.scalar)
<1>1. /\ v \in ItemRecord /\ v.refs = 0 /\ v.object = "instance" /\ v.kind = r.kind
      /\ v.by = "CreateInstance" /\ v.var = FALSE /\ v.class = v.asked
      /\ v.scalar \in Scalar /\ v.scalar.refs = 1 /\ v.scalar.owners = 1
  BY DroppedFields
<1>2. w = [v EXCEPT !.scalar = s] BY DEF ValueKept
<1> HIDE DEF v
<1>3. s \in Scalar /\ s.refs = 1 /\ s.owners = 0 BY <1>1, ForgottenScalar
<1> HIDE DEF s
<1>4. /\ w \in ItemRecord /\ w.kind = v.kind /\ w.by = v.by /\ w.object = v.object
      /\ w.class = v.class /\ w.asked = v.asked /\ w.refs = v.refs /\ w.var = v.var
      /\ w.scalar = s
  BY <1>1, <1>2, <1>3 DEF ItemRecord
<1>. QED BY <1>0, <1>1, <1>3, <1>4 DEF Good, GoodScalar, Extra, One

\* The query failed: nothing is left.
LEMMA RefusedGood ==
  ASSUME NEW r, NEW n, NEW t \in BOOLEAN,
         Good(r, n, t, TRUE)
  PROVE  Good(Settled(ValueGivenUp(Released(r))), n, t, FALSE)
<1> DEFINE v == Released(r)
           s == GivenUp(v.scalar)
           w == ValueGivenUp(v)
<1>1. /\ v \in ItemRecord /\ v.refs = 0 /\ v.object = "instance" /\ v.kind = r.kind
      /\ v.by = "CreateInstance" /\ v.var = FALSE /\ v.class = v.asked
      /\ v.scalar \in Scalar /\ v.scalar.refs = 1 /\ v.scalar.owners = 1
  BY DroppedFields
<1>2. w = [v EXCEPT !.scalar = s] BY DEF ValueGivenUp
<1> HIDE DEF v
<1>3. s \in Scalar /\ s.refs = 0 /\ s.owners = 0 BY <1>1, GivenUpScalar
<1> HIDE DEF s, w
<1>4. w.refs = 0 /\ w.scalar = s
  BY <1>1, <1>2, <1>3 DEF ItemRecord
<1>5. s = NoScalar
  BY <1>3 DEF NoScalar, Scalar
<1>6. Settled(w) = UnusedItem
  BY <1>4, <1>5 DEF Settled
<1>7. n = 0 /\ ~t BY DEF Good
<1>. QED BY <1>6, <1>7, UnusedGood DEF w, v, s

\* The variable is assigned another object.
LEMMA AssignedGood ==
  ASSUME NEW r, NEW n, NEW t \in BOOLEAN, NEW p \in BOOLEAN, NEW c \in Class, NEW w,
         Good(r, n, t, p), r.var, w = [r EXCEPT !.class = c]
  PROVE  Good(w, n, t, p)
<1>1. r \in ItemRecord /\ r.by = "WrapObject" BY DEF Good
<1>2. /\ w \in ItemRecord /\ w.kind = r.kind /\ w.by = r.by /\ w.object = r.object
      /\ w.class = c /\ w.asked = r.asked /\ w.refs = r.refs /\ w.var = r.var
      /\ w.scalar = r.scalar
  BY <1>1 DEF ItemRecord
<1>3. r.kind # "unused"
  <2>1. UnusedItem.var = FALSE BY DEF UnusedItem
  <2>. QED BY <2>1 DEF Good
<1>. QED BY <1>1, <1>2, <1>3 DEF Good, GoodScalar, Extra

\* The variable goes away.
LEMMA GoneGood ==
  ASSUME NEW r, NEW n, NEW t \in BOOLEAN, NEW p \in BOOLEAN, NEW w,
         Good(r, n, t, p), r.var, w = WithoutVariable(r)
  PROVE  Good(w, n, t, p)
<1> DEFINE s == GivenUp(r.scalar)
           no == FALSE
<1>1. r \in ItemRecord /\ r.by = "WrapObject" /\ r.var = TRUE /\ r.scalar \in Scalar
  BY DEF Good, ItemRecord
<1>2. w = [r EXCEPT !.var = no, !.scalar = s] BY DEF WithoutVariable
<1>3. s \in Scalar /\ s.refs = r.scalar.refs - 1 /\ s.owners = r.scalar.owners - 1
  BY <1>1, GivenUpScalar
<1>4. no \in BOOLEAN OBVIOUS
<1> HIDE DEF s, no
<1>5. /\ w \in ItemRecord /\ w.kind = r.kind /\ w.by = r.by /\ w.object = r.object
      /\ w.class = r.class /\ w.asked = r.asked /\ w.refs = r.refs /\ w.var = no
      /\ w.scalar = s
  BY <1>1, <1>2, <1>3, <1>4 DEF ItemRecord
<1>6. r.kind # "unused"
  <2>1. UnusedItem.var = FALSE BY DEF UnusedItem
  <2>. QED BY <1>1, <2>1 DEF Good
<1>7. GoodScalar(w, p)
  <2>1. r.scalar.refs \in Int /\ r.scalar.owners \in Int BY <1>1 DEF Scalar
  <2>2. GoodScalar(r, p) BY DEF Good
  <2>. QED BY <1>1, <1>3, <1>5, <2>1, <2>2 DEF GoodScalar, Extra, One, no
<1>. QED BY <1>1, <1>5, <1>6, <1>7 DEF Good, no

-----------------------------------------------------------------------------
(* The actions. *)

\* Nothing about the item has changed.
LEMMA SameGood ==
  ASSUME IInv, NEW j \in Item, item'[j] = item[j], clients'[j] = clients[j],
         j \in cached' <=> j \in cached, j \in pending' <=> j \in pending
  PROVE  Good(item'[j], clients'[j], j \in cached', j \in pending')
BY DEF IInv, ItemsGood, Good, GoodScalar, Extra, One

\* An unused item is in nobody's hands.
LEMMA UnusedFields ==
  ASSUME IInv, NEW j \in Item, Unused(j)
  PROVE  item[j] = UnusedItem /\ clients[j] = 0 /\ j \notin cached /\ j \notin pending
<1>1. Good(item[j], clients[j], j \in cached, j \in pending)
  BY DEF IInv, ItemsGood
<1>2. item[j] = UnusedItem BY <1>1 DEF Unused, Good
<1>3. item[j].refs = 0 /\ item[j].object = "nothing" BY <1>2 DEF UnusedItem
<1>4. j \notin cached /\ j \notin pending BY <1>1, <1>3 DEF Good
<1>. QED BY <1>1, <1>2, <1>3, <1>4 DEF Good, One

\* The invariant survives GetModule.
LEMMA GetModuleStep == ASSUME IInv, GetModule PROVE IInv'
<1> DEFINE r == Put(WrappedAs(Value("GetModule", "module", AnyClass, AnyClass, Inc(NewMortal)),
                              "native"))
<1>1. PICK i \in Item :
        /\ Unused(i)
        /\ item' = [item EXCEPT ![i] = r]
        /\ clients' = [clients EXCEPT ![i] = 1]
        /\ cached' = cached \cup {i}
        /\ UNCHANGED <<pending, running, lost>>
  BY DEF GetModule
<1>2. Good(r, 1, TRUE, FALSE) BY ModuleGood
<1>3. i \notin pending BY <1>1, UnusedFields
<1> HIDE DEF r
<1>4. TypeOK' BY <1>1, <1>2 DEF IInv, TypeOK, Good
<1>5. ItemsGood'
  <2> SUFFICES ASSUME NEW j \in Item
               PROVE  Good(item'[j], clients'[j], j \in cached', j \in pending')
    BY DEF ItemsGood
  <2>1. CASE j = i
    <3>1. item'[j] = r /\ clients'[j] = 1 /\ j \in cached' /\ j \notin pending'
      BY <1>1, <1>3, <2>1 DEF IInv, TypeOK
    <3>. QED BY <1>2, <3>1 DEF Good, GoodScalar, Extra, One
  <2>2. CASE j # i BY <1>1, <2>2, SameGood DEF IInv, TypeOK
  <2>. QED BY <2>1, <2>2
<1>. QED BY <1>4, <1>5 DEF IInv

\* The invariant survives a failed load.
LEMMA GetModuleFailsStep == ASSUME IInv, GetModuleFails PROVE IInv'
<1>1. PICK i \in Item, s \in BadTemporary :
        /\ Unused(i)
        /\ item' = [item EXCEPT ![i] = Value("GetModule", "nothing", AnyClass, AnyClass, s)]
        /\ UNCHANGED <<clients, cached, pending, running, lost>>
  BY DEF GetModuleFails
<1> DEFINE r == Value("GetModule", "nothing", AnyClass, AnyClass, s)
<1>2. Good(r, 0, FALSE, FALSE) BY BadTemporaryGood
<1>3. clients[i] = 0 /\ i \notin cached /\ i \notin pending BY <1>1, UnusedFields
<1>4. item' = [item EXCEPT ![i] = r] BY <1>1
<1> HIDE DEF r
<1>5. TypeOK' BY <1>1, <1>2, <1>4 DEF IInv, TypeOK, Good
<1>6. ItemsGood'
  <2> SUFFICES ASSUME NEW j \in Item
               PROVE  Good(item'[j], clients'[j], j \in cached', j \in pending')
    BY DEF ItemsGood
  <2>1. CASE j = i
    <3>1. item'[j] = r /\ clients'[j] = 0 /\ j \notin cached' /\ j \notin pending'
      BY <1>1, <1>3, <1>4, <2>1 DEF IInv, TypeOK
    <3>. QED BY <1>2, <3>1 DEF Good, GoodScalar, Extra, One
  <2>2. CASE j # i BY <1>1, <1>4, <2>2, SameGood DEF IInv, TypeOK
  <2>. QED BY <2>1, <2>2
<1>. QED BY <1>5, <1>6 DEF IInv

\* The table that counts a reference gives one to a client.
LEMMA GetCachedModuleStep == ASSUME IInv, GetCachedModule PROVE IInv'
<1>1. PICK i \in cached :
        /\ item' = [item EXCEPT ![i].refs = @ + 1]
        /\ clients' = [clients EXCEPT ![i] = @ + 1]
        /\ UNCHANGED <<cached, pending, running, lost>>
  BY DEF GetCachedModule
<1> DEFINE r == [item[i] EXCEPT !.refs = @ + 1]
<1>2. i \in Item /\ clients[i] \in Nat BY DEF IInv, TypeOK
<1>3. Good(item[i], clients[i], i \in cached, i \in pending) BY <1>2 DEF IInv, ItemsGood
<1>4. i \notin pending BY <1>3 DEF Good
<1>5. Good(item[i], clients[i], TRUE, FALSE) BY <1>3, <1>4 DEF Good, GoodScalar, Extra, One
<1>6. item[i].refs > 0 BY <1>2, <1>5 DEF Good, One
<1>7. Good(r, clients[i] + 1, TRUE, FALSE) BY <1>5, <1>6, OneMoreGood
<1>8. item' = [item EXCEPT ![i] = r] BY <1>1
<1> HIDE DEF r
<1>9. TypeOK' BY <1>1, <1>2, <1>7, <1>8 DEF IInv, TypeOK, Good
<1>10. ItemsGood'
  <2> SUFFICES ASSUME NEW j \in Item
               PROVE  Good(item'[j], clients'[j], j \in cached', j \in pending')
    BY DEF ItemsGood
  <2>1. CASE j = i
    <3>1. item'[j] = r /\ clients'[j] = clients[i] + 1 /\ j \in cached' /\ j \notin pending'
      BY <1>1, <1>2, <1>4, <1>8, <2>1 DEF IInv, TypeOK
    <3>. QED BY <1>7, <3>1 DEF Good, GoodScalar, Extra, One
  <2>2. CASE j # i BY <1>1, <1>8, <2>2, SameGood DEF IInv, TypeOK
  <2>. QED BY <2>1, <2>2
<1>. QED BY <1>9, <1>10 DEF IInv

\* The invariant survives the end of a loader.
LEMMA LoaderDestroyedStep == ASSUME IInv, LoaderDestroyed PROVE IInv'
<1>1. PICK i \in cached :
        /\ item' = [item EXCEPT ![i] = Settled(Released(@))]
        /\ lost' = (lost \/ LosesScalar(i))
        /\ cached' = cached \ {i}
        /\ UNCHANGED <<clients, pending, running>>
  BY DEF LoaderDestroyed
<1> DEFINE w == Released(item[i])
           r == Settled(w)
<1>2. i \in Item /\ clients[i] \in Nat BY DEF IInv, TypeOK
<1>3. Good(item[i], clients[i], i \in cached, i \in pending) BY <1>2 DEF IInv, ItemsGood
<1>4. i \notin pending BY <1>3 DEF Good
<1>5. Good(item[i], clients[i], TRUE, FALSE) BY <1>3, <1>4 DEF Good, GoodScalar, Extra, One
<1>6. clients[i] + One(FALSE) = clients[i] + One(TRUE) - 1 BY <1>2 DEF One
<1>7. Good(w, clients[i], FALSE, FALSE) BY <1>2, <1>5, <1>6, OneLessGood
<1> HIDE DEF w
<1>8. Good(r, clients[i], FALSE, FALSE) BY <1>7, SettledGood
<1>9. item' = [item EXCEPT ![i] = r] BY <1>1 DEF w
<1> HIDE DEF r
<1>10. TypeOK' BY <1>1, <1>8, <1>9 DEF IInv, TypeOK, Good
<1>11. ItemsGood'
  <2> SUFFICES ASSUME NEW j \in Item
               PROVE  Good(item'[j], clients'[j], j \in cached', j \in pending')
    BY DEF ItemsGood
  <2>1. CASE j = i
    <3>1. item'[j] = r /\ clients'[j] = clients[i] /\ j \notin cached' /\ j \notin pending'
      BY <1>1, <1>2, <1>4, <1>9, <2>1 DEF IInv, TypeOK
    <3>. QED BY <1>8, <3>1 DEF Good, GoodScalar, Extra, One
  <2>2. CASE j # i BY <1>1, <1>9, <2>2, SameGood DEF IInv, TypeOK
  <2>. QED BY <2>1, <2>2
<1>. QED BY <1>10, <1>11 DEF IInv

\* The invariant survives a release by a client.
LEMMA ReleaseStep == ASSUME IInv, Release PROVE IInv'
<1>1. PICK i \in Item :
        /\ clients[i] > 0
        /\ item' = [item EXCEPT ![i] = Settled(Released(@))]
        /\ lost' = (lost \/ LosesScalar(i))
        /\ clients' = [clients EXCEPT ![i] = @ - 1]
        /\ UNCHANGED <<cached, pending, running>>
  BY DEF Release
<1> DEFINE w == Released(item[i])
           r == Settled(w)
           t == i \in cached
           p == i \in pending
           m == clients[i] - 1
<1>2. clients[i] \in Nat /\ m \in Nat BY <1>1 DEF IInv, TypeOK
<1>3. Good(item[i], clients[i], t, p) BY DEF IInv, ItemsGood
<1>4. ~p BY <1>1, <1>2, <1>3 DEF Good
<1>5. m + One(t) = clients[i] + One(t) - 1 BY <1>2 DEF One
<1>6. t \in BOOLEAN /\ p \in BOOLEAN OBVIOUS
<1>7. clients' = [clients EXCEPT ![i] = m] BY <1>1
<1>8. item' = [item EXCEPT ![i] = r] BY <1>1
<1>9. w = Released(item[i]) OBVIOUS
<1>10. r = Settled(w) OBVIOUS
<1> HIDE DEF m, w, r, t, p
<1>11. Good(w, m, t, p) BY <1>2, <1>3, <1>4, <1>5, <1>6, <1>9, OneLessGood
<1>12. Good(r, m, t, p) BY <1>6, <1>10, <1>11, SettledGood
<1>13. TypeOK' BY <1>1, <1>2, <1>7, <1>8, <1>12 DEF IInv, TypeOK, Good
<1>14. ItemsGood'
  <2> SUFFICES ASSUME NEW j \in Item
               PROVE  Good(item'[j], clients'[j], j \in cached', j \in pending')
    BY DEF ItemsGood
  <2>1. CASE j = i
    <3>1. item'[j] = r /\ clients'[j] = m /\ (j \in cached' <=> t) /\ (j \in pending' <=> p)
      BY <1>1, <1>7, <1>8, <2>1 DEF IInv, TypeOK, t, p
    <3>. QED BY <1>6, <1>12, <3>1 DEF Good, GoodScalar, Extra, One
  <2>2. CASE j # i BY <1>1, <1>7, <1>8, <2>2, SameGood DEF IInv, TypeOK
  <2>. QED BY <2>1, <2>2
<1>. QED BY <1>13, <1>14 DEF IInv

\* The invariant survives getClassObject.
LEMMA GetClassObjectStep == ASSUME IInv, GetClassObject PROVE IInv'
<1>1. PICK i \in Item, k \in Item, c \in Class :
        /\ Unused(k)
        /\ item' = [item EXCEPT ![k] =
             HandedOver(WrappedAs(Value("GetClassObject", "factory", c, c, Returned), "native"))]
        /\ clients' = [clients EXCEPT ![k] = 1]
        /\ UNCHANGED <<cached, pending, running, lost>>
  BY DEF GetClassObject, FactoryOf
<1> DEFINE r == HandedOver(WrappedAs(Value("GetClassObject", "factory", c, c, Returned), "native"))
<1>2. Good(r, 1, FALSE, FALSE) BY FactoryGood
<1>3. k \notin cached /\ k \notin pending BY <1>1, UnusedFields
<1>4. item' = [item EXCEPT ![k] = r] BY <1>1
<1> HIDE DEF r
<1>5. TypeOK' BY <1>1, <1>2, <1>4 DEF IInv, TypeOK, Good
<1>6. ItemsGood'
  <2> SUFFICES ASSUME NEW j \in Item
               PROVE  Good(item'[j], clients'[j], j \in cached', j \in pending')
    BY DEF ItemsGood
  <2>1. CASE j = k
    <3>1. item'[j] = r /\ clients'[j] = 1 /\ j \notin cached' /\ j \notin pending'
      BY <1>1, <1>3, <1>4, <2>1 DEF IInv, TypeOK
    <3>. QED BY <1>2, <3>1 DEF Good, GoodScalar, Extra, One
  <2>2. CASE j # k BY <1>1, <1>4, <2>2, SameGood DEF IInv, TypeOK
  <2>. QED BY <2>1, <2>2
<1>. QED BY <1>5, <1>6 DEF IInv

\* The invariant survives createInstance.
LEMMA CreateInstanceStep == ASSUME IInv, CreateInstance PROVE IInv'
<1>1. PICK i \in Item, k \in Item, kind \in {"native", "stub"} :
        /\ item[i].object = "factory"
        /\ Unused(k)
        /\ item' = [item EXCEPT ![k] =
             WrappedAs(Value("CreateInstance", "instance", item[i].class, item[i].asked, Returned),
                       kind)]
        /\ pending' = pending \cup {k}
        /\ UNCHANGED <<clients, cached, running, lost>>
  BY DEF CreateInstance
<1> DEFINE c == item[i].class
           r == WrappedAs(Value("CreateInstance", "instance", c, c, Returned), kind)
<1>2. c \in Class /\ item[i].asked = c
  <2>1. Good(item[i], clients[i], i \in cached, i \in pending) BY DEF IInv, ItemsGood
  <2>2. item[i] \in ItemRecord /\ item[i].by # "WrapObject"
    BY <1>1, <2>1 DEF Good
  <2>. QED BY <2>1, <2>2 DEF Good, ItemRecord
<1>3. item' = [item EXCEPT ![k] = r] BY <1>1, <1>2
<1> HIDE DEF c
<1>4. Good(r, 0, FALSE, TRUE) BY <1>2, InstanceGood
<1>5. clients[k] = 0 /\ k \notin cached BY <1>1, UnusedFields
<1> HIDE DEF r
<1>6. TypeOK' BY <1>1, <1>3, <1>4 DEF IInv, TypeOK, Good
<1>7. ItemsGood'
  <2> SUFFICES ASSUME NEW j \in Item
               PROVE  Good(item'[j], clients'[j], j \in cached', j \in pending')
    BY DEF ItemsGood
  <2>1. CASE j = k
    <3>1. item'[j] = r /\ clients'[j] = 0 /\ j \notin cached' /\ j \in pending'
      BY <1>1, <1>3, <1>5, <2>1 DEF IInv, TypeOK
    <3>. QED BY <1>4, <3>1 DEF Good, GoodScalar, Extra, One
  <2>2. CASE j # k BY <1>1, <1>3, <2>2, SameGood DEF IInv, TypeOK
  <2>. QED BY <2>1, <2>2
<1>. QED BY <1>6, <1>7 DEF IInv

\* The invariant survives the component manager's constructor.
LEMMA ConstructStep == ASSUME IInv, Construct PROVE IInv'
<1> DEFINE r == [UnusedItem EXCEPT !.kind = "native", !.refs = 1]
<1>1. PICK k \in Item :
        /\ Unused(k)
        /\ item' = [item EXCEPT ![k] = r]
        /\ clients' = [clients EXCEPT ![k] = 1]
        /\ UNCHANGED <<cached, pending, running, lost>>
  BY DEF Construct
<1>2. Good(r, 1, FALSE, FALSE) BY ConstructedGood
<1>3. k \notin cached /\ k \notin pending BY <1>1, UnusedFields
<1> HIDE DEF r
<1>4. TypeOK' BY <1>1, <1>2 DEF IInv, TypeOK, Good
<1>5. ItemsGood'
  <2> SUFFICES ASSUME NEW j \in Item
               PROVE  Good(item'[j], clients'[j], j \in cached', j \in pending')
    BY DEF ItemsGood
  <2>1. CASE j = k
    <3>1. item'[j] = r /\ clients'[j] = 1 /\ j \notin cached' /\ j \notin pending'
      BY <1>1, <1>3, <2>1 DEF IInv, TypeOK
    <3>. QED BY <1>2, <3>1 DEF Good, GoodScalar, Extra, One
  <2>2. CASE j # k BY <1>1, <2>2, SameGood DEF IInv, TypeOK
  <2>. QED BY <2>1, <2>2
<1>. QED BY <1>4, <1>5 DEF IInv

\* The invariant survives Components::WrapObject.
LEMMA WrapObjectStep == ASSUME IInv, WrapObject PROVE IInv'
<1>1. PICK k \in Item, c \in Class, kind \in {"native", "stub"} :
        /\ Unused(k)
        /\ item' = [item EXCEPT ![k] =
             [WrappedAs(Value("WrapObject", "instance", c, c, Own(NewScalar)), kind)
                EXCEPT !.var = TRUE]]
        /\ clients' = [clients EXCEPT ![k] = 1]
        /\ UNCHANGED <<cached, pending, running, lost>>
  BY DEF WrapObject
<1> DEFINE r == [WrappedAs(Value("WrapObject", "instance", c, c, Own(NewScalar)), kind)
                   EXCEPT !.var = TRUE]
<1>2. Good(r, 1, FALSE, FALSE) BY WrapGood
<1>3. k \notin cached /\ k \notin pending BY <1>1, UnusedFields
<1>4. item' = [item EXCEPT ![k] = r] BY <1>1
<1> HIDE DEF r
<1>5. TypeOK' BY <1>1, <1>2, <1>4 DEF IInv, TypeOK, Good
<1>6. ItemsGood'
  <2> SUFFICES ASSUME NEW j \in Item
               PROVE  Good(item'[j], clients'[j], j \in cached', j \in pending')
    BY DEF ItemsGood
  <2>1. CASE j = k
    <3>1. item'[j] = r /\ clients'[j] = 1 /\ j \notin cached' /\ j \notin pending'
      BY <1>1, <1>3, <1>4, <2>1 DEF IInv, TypeOK
    <3>. QED BY <1>2, <3>1 DEF Good, GoodScalar, Extra, One
  <2>2. CASE j # k BY <1>1, <1>4, <2>2, SameGood DEF IInv, TypeOK
  <2>. QED BY <2>1, <2>2
<1>. QED BY <1>5, <1>6 DEF IInv

\* The invariant survives a query that Perl answers.
LEMMA QueryInterfaceStep == ASSUME IInv, QueryInterface PROVE IInv'
<1>1. PICK i \in Item, k \in Item, kind \in {"native", "stub"} :
        /\ Unused(k)
        /\ item' = [item EXCEPT ![k] = Queried(i, item[i].class, kind)]
        /\ clients' = [clients EXCEPT ![k] = 1]
        /\ UNCHANGED <<cached, pending, running, lost>>
  BY DEF QueryInterface
<1> DEFINE c == item[i].class
           r == HandedOver(WrappedAs(Value("QueryInterface", "instance", c, c, Returned), kind))
<1>2. c \in Class BY DEF IInv, TypeOK, ItemRecord
<1>3. item' = [item EXCEPT ![k] = r] BY <1>1 DEF Queried
<1> HIDE DEF c
<1>4. Good(r, 1, FALSE, FALSE) BY <1>2, QueriedGood
<1>5. k \notin cached /\ k \notin pending BY <1>1, UnusedFields
<1> HIDE DEF r
<1>6. TypeOK' BY <1>1, <1>3, <1>4 DEF IInv, TypeOK, Good
<1>7. ItemsGood'
  <2> SUFFICES ASSUME NEW j \in Item
               PROVE  Good(item'[j], clients'[j], j \in cached', j \in pending')
    BY DEF ItemsGood
  <2>1. CASE j = k
    <3>1. item'[j] = r /\ clients'[j] = 1 /\ j \notin cached' /\ j \notin pending'
      BY <1>1, <1>3, <1>5, <2>1 DEF IInv, TypeOK
    <3>. QED BY <1>4, <3>1 DEF Good, GoodScalar, Extra, One
  <2>2. CASE j # k BY <1>1, <1>3, <2>2, SameGood DEF IInv, TypeOK
  <2>. QED BY <2>1, <2>2
<1>. QED BY <1>6, <1>7 DEF IInv

\* The invariant survives an assignment to a shared variable.
LEMMA AssignStep == ASSUME IInv, Assign PROVE IInv'
<1>1. PICK i \in Item, c \in Class :
        /\ item[i].var
        /\ item' = [item EXCEPT ![i].class = c]
        /\ UNCHANGED <<clients, cached, pending, running, lost>>
  BY DEF Assign
<1> DEFINE r == [item[i] EXCEPT !.class = c]
           t == i \in cached
           p == i \in pending
<1>2. Good(item[i], clients[i], t, p) BY DEF IInv, ItemsGood
<1>3. t \in BOOLEAN /\ p \in BOOLEAN OBVIOUS
<1>4. r = [item[i] EXCEPT !.class = c] OBVIOUS
<1>5. item' = [item EXCEPT ![i] = r] BY <1>1
<1> HIDE DEF r, t, p
<1>6. Good(r, clients[i], t, p) BY <1>1, <1>2, <1>3, <1>4, AssignedGood
<1>7. TypeOK' BY <1>1, <1>5, <1>6 DEF IInv, TypeOK, Good
<1>8. ItemsGood'
  <2> SUFFICES ASSUME NEW j \in Item
               PROVE  Good(item'[j], clients'[j], j \in cached', j \in pending')
    BY DEF ItemsGood
  <2>1. CASE j = i
    <3>1. item'[j] = r /\ clients'[j] = clients[i]
          /\ (j \in cached' <=> t) /\ (j \in pending' <=> p)
      BY <1>1, <1>5, <2>1 DEF IInv, TypeOK, t, p
    <3>. QED BY <1>3, <1>6, <3>1 DEF Good, GoodScalar, Extra, One
  <2>2. CASE j # i BY <1>1, <1>5, <2>2, SameGood DEF IInv, TypeOK
  <2>. QED BY <2>1, <2>2
<1>. QED BY <1>7, <1>8 DEF IInv

\* The invariant survives the end of a shared variable.
LEMMA VariableGoneStep == ASSUME IInv, VariableGone PROVE IInv'
<1>1. PICK i \in Item :
        /\ item[i].var
        /\ item' = [item EXCEPT ![i] = Settled(WithoutVariable(@))]
        /\ UNCHANGED <<clients, cached, pending, running, lost>>
  BY DEF VariableGone
<1> DEFINE w == WithoutVariable(item[i])
           r == Settled(w)
           t == i \in cached
           p == i \in pending
<1>2. Good(item[i], clients[i], t, p) BY DEF IInv, ItemsGood
<1>3. t \in BOOLEAN /\ p \in BOOLEAN OBVIOUS
<1>4. w = WithoutVariable(item[i]) OBVIOUS
<1>5. r = Settled(w) OBVIOUS
<1>6. item' = [item EXCEPT ![i] = r] BY <1>1
<1> HIDE DEF r, w, t, p
<1>7. Good(w, clients[i], t, p) BY <1>1, <1>2, <1>3, <1>4, GoneGood
<1>8. Good(r, clients[i], t, p) BY <1>3, <1>5, <1>7, SettledGood
<1>9. TypeOK' BY <1>1, <1>6, <1>8 DEF IInv, TypeOK, Good
<1>10. ItemsGood'
  <2> SUFFICES ASSUME NEW j \in Item
               PROVE  Good(item'[j], clients'[j], j \in cached', j \in pending')
    BY DEF ItemsGood
  <2>1. CASE j = i
    <3>1. item'[j] = r /\ clients'[j] = clients[i]
          /\ (j \in cached' <=> t) /\ (j \in pending' <=> p)
      BY <1>1, <1>6, <2>1 DEF IInv, TypeOK, t, p
    <3>. QED BY <1>3, <1>8, <3>1 DEF Good, GoodScalar, Extra, One
  <2>2. CASE j # i BY <1>1, <1>6, <2>2, SameGood DEF IInv, TypeOK
  <2>. QED BY <2>1, <2>2
<1>. QED BY <1>9, <1>10 DEF IInv

\* A query that fails in Perl may leave a value.
LEMMA LeakStep ==
  ASSUME IInv, NEW f \in [Item -> ItemRecord], item' \in MayLeak(f),
         \A k \in Item : Unused(k) => clients'[k] = 0 /\ k \notin cached' /\ k \notin pending',
         \A j \in Item : Good(f[j], clients'[j], j \in cached', j \in pending')
  PROVE  item' \in [Item -> ItemRecord] /\ ItemsGood'
<1>1. CASE item' = f BY <1>1 DEF ItemsGood
<1>2. ASSUME NEW k \in Item, Unused(k), item' = [f EXCEPT ![k] = FailedValue]
      PROVE  item' \in [Item -> ItemRecord] /\ ItemsGood'
  <2>1. Good(FailedValue, 0, FALSE, FALSE) BY FailedGood
  <2>2. item' \in [Item -> ItemRecord] BY <1>2, <2>1 DEF Good
  <2>3. ASSUME NEW j \in Item
        PROVE  Good(item'[j], clients'[j], j \in cached', j \in pending')
    <3>1. CASE j = k
      <4>1. item'[j] = FailedValue /\ clients'[j] = 0 /\ j \notin cached' /\ j \notin pending'
        BY <1>2, <3>1
      <4>. QED BY <2>1, <4>1 DEF Good, GoodScalar, Extra, One
    <3>2. CASE j # k
      <4>1. item'[j] = f[j] BY <1>2, <3>2
      <4>. QED BY <4>1
    <3>. QED BY <3>1, <3>2
  <2>. QED BY <2>2, <2>3 DEF ItemsGood
<1>. QED BY <1>1, <1>2 DEF MayLeak

\* The invariant survives a method that fails.
LEMMA MethodFailsStep == ASSUME IInv, MethodFails PROVE IInv'
<1>1. item' \in MayLeak(item) /\ UNCHANGED <<clients, cached, pending, running, lost>>
  BY DEF MethodFails
<1>2. \A k \in Item : Unused(k) => clients'[k] = 0 /\ k \notin cached' /\ k \notin pending'
  BY <1>1, UnusedFields
<1>3. ASSUME NEW j \in Item
      PROVE  Good(item[j], clients'[j], j \in cached', j \in pending')
  BY <1>1 DEF IInv, ItemsGood
<1>4. item' \in [Item -> ItemRecord] /\ ItemsGood'
  BY <1>1, <1>2, <1>3, LeakStep DEF IInv, TypeOK
<1>. QED BY <1>1, <1>4 DEF IInv, TypeOK

\* The invariant survives CreateInstance, when the wrapper answers the query itself.
LEMMA InstanceIsWrapperStep == ASSUME IInv, InstanceIsWrapper PROVE IInv'
<1>1. PICK i \in pending :
        /\ item' \in Native(i, [item EXCEPT ![i] = ValueKept(@)])
        /\ clients' = [clients EXCEPT ![i] = @ + 1]
        /\ pending' = pending \ {i}
        /\ UNCHANGED <<cached, running, lost>>
  BY DEF InstanceIsWrapper
<1> DEFINE r == ValueKept(item[i])
           t == i \in cached
           f == [item EXCEPT ![i] = r]
<1>2. i \in Item /\ clients[i] \in Nat BY DEF IInv, TypeOK
<1>3. Good(item[i], clients[i], i \in cached, i \in pending) BY <1>2 DEF IInv, ItemsGood
<1>4. i \in pending OBVIOUS
<1>5. t \in BOOLEAN OBVIOUS
<1>6. Good(item[i], clients[i], t, TRUE) BY <1>3, <1>4 DEF Good, GoodScalar, Extra, One
<1>7. r = ValueKept(item[i]) OBVIOUS
<1>8. f = [item EXCEPT ![i] = r] OBVIOUS
<1>9. item' \in MayLeak(f) BY <1>1 DEF Native, MayLeak
<1>10. t <=> i \in cached' BY <1>1
<1> HIDE DEF r, t, f
<1>11. Good(r, clients[i] + 1, t, FALSE) BY <1>5, <1>6, <1>7, ReturnedGood
<1>12. f \in [Item -> ItemRecord] BY <1>2, <1>8, <1>11 DEF IInv, TypeOK, Good
<1>13. \A k \in Item : Unused(k) => clients'[k] = 0 /\ k \notin cached' /\ k \notin pending'
  <2> SUFFICES ASSUME NEW k \in Item, Unused(k)
               PROVE  clients'[k] = 0 /\ k \notin cached' /\ k \notin pending'
    OBVIOUS
  <2>1. clients[k] = 0 /\ k \notin cached /\ k \notin pending BY UnusedFields
  <2>2. k # i BY <1>4, <2>1
  <2>. QED BY <1>1, <2>1, <2>2 DEF IInv, TypeOK
<1>14. ASSUME NEW j \in Item
       PROVE  Good(f[j], clients'[j], j \in cached', j \in pending')
  <2>1. CASE j = i
    <3>1. f[j] = r /\ clients'[j] = clients[i] + 1 /\ (j \in cached' <=> t) /\ j \notin pending'
      BY <1>1, <1>2, <1>8, <1>10, <2>1 DEF IInv, TypeOK
    <3>. QED BY <1>5, <1>11, <3>1 DEF Good, GoodScalar, Extra, One
  <2>2. CASE j # i
    <3>1. /\ f[j] = item[j] /\ clients'[j] = clients[j]
          /\ (j \in cached' <=> j \in cached) /\ (j \in pending' <=> j \in pending)
      BY <1>1, <1>8, <2>2 DEF IInv, TypeOK
    <3>. QED BY <3>1 DEF IInv, ItemsGood, Good, GoodScalar, Extra, One
  <2>. QED BY <2>1, <2>2
<1>15. item' \in [Item -> ItemRecord] /\ ItemsGood'
  BY <1>9, <1>12, <1>13, <1>14, LeakStep
<1>16. clients' \in [Item -> Nat]
  <2>1. clients[i] + 1 \in Nat BY <1>2
  <2>. QED BY <1>1, <2>1 DEF IInv, TypeOK
<1>17. TypeOK' BY <1>1, <1>15, <1>16 DEF IInv, TypeOK
<1>. QED BY <1>15, <1>17 DEF IInv

\* The invariant survives a query that the wrapper answers.
LEMMA QueryNativeStep == ASSUME IInv, QueryNative PROVE IInv'
<1>1. PICK i \in Item :
        /\ clients[i] \in 1 .. (MaxClients - 1)
        /\ item' \in Native(i, [item EXCEPT ![i].refs = @ + 1])
        /\ clients' = [clients EXCEPT ![i] = @ + 1]
        /\ UNCHANGED <<cached, pending, running, lost>>
  BY DEF QueryNative
<1> DEFINE r == [item[i] EXCEPT !.refs = @ + 1]
           t == i \in cached
           f == [item EXCEPT ![i] = r]
<1>2. clients[i] \in Nat /\ clients[i] # 0 BY <1>1, PerlComponentsAssumption DEF IInv, TypeOK
<1>3. Good(item[i], clients[i], i \in cached, i \in pending) BY DEF IInv, ItemsGood
<1>4. i \notin pending BY <1>2, <1>3 DEF Good
<1>5. t \in BOOLEAN OBVIOUS
<1>6. Good(item[i], clients[i], t, FALSE) BY <1>3, <1>4 DEF Good, GoodScalar, Extra, One
<1>7. item[i].refs > 0 BY <1>2, <1>3 DEF Good, One
<1>8. r = [item[i] EXCEPT !.refs = @ + 1] OBVIOUS
<1>9. f = [item EXCEPT ![i] = r] OBVIOUS
<1>10. item' \in MayLeak(f) BY <1>1 DEF Native, MayLeak
<1>11. t <=> i \in cached' BY <1>1
<1> HIDE DEF r, t, f
<1>12. Good(r, clients[i] + 1, t, FALSE) BY <1>5, <1>6, <1>7, <1>8, OneMoreGood
<1>13. f \in [Item -> ItemRecord] BY <1>9, <1>12 DEF IInv, TypeOK, Good
<1>14. \A k \in Item : Unused(k) => clients'[k] = 0 /\ k \notin cached' /\ k \notin pending'
  <2> SUFFICES ASSUME NEW k \in Item, Unused(k)
               PROVE  clients'[k] = 0 /\ k \notin cached' /\ k \notin pending'
    OBVIOUS
  <2>1. clients[k] = 0 /\ k \notin cached /\ k \notin pending BY UnusedFields
  <2>2. k # i BY <1>2, <2>1
  <2>. QED BY <1>1, <2>1, <2>2 DEF IInv, TypeOK
<1>15. ASSUME NEW j \in Item
       PROVE  Good(f[j], clients'[j], j \in cached', j \in pending')
  <2>1. CASE j = i
    <3>1. f[j] = r /\ clients'[j] = clients[i] + 1 /\ (j \in cached' <=> t) /\ j \notin pending'
      BY <1>1, <1>4, <1>9, <1>11, <2>1 DEF IInv, TypeOK
    <3>. QED BY <1>5, <1>12, <3>1 DEF Good, GoodScalar, Extra, One
  <2>2. CASE j # i
    <3>1. /\ f[j] = item[j] /\ clients'[j] = clients[j]
          /\ (j \in cached' <=> j \in cached) /\ (j \in pending' <=> j \in pending)
      BY <1>1, <1>9, <2>2 DEF IInv, TypeOK
    <3>. QED BY <3>1 DEF IInv, ItemsGood, Good, GoodScalar, Extra, One
  <2>. QED BY <2>1, <2>2
<1>16. item' \in [Item -> ItemRecord] /\ ItemsGood'
  BY <1>10, <1>13, <1>14, <1>15, LeakStep
<1>17. clients' \in [Item -> Nat]
  <2>1. clients[i] + 1 \in Nat BY <1>2
  <2>. QED BY <1>1, <2>1 DEF IInv, TypeOK
<1>18. TypeOK' BY <1>1, <1>16, <1>17 DEF IInv, TypeOK
<1>. QED BY <1>16, <1>18 DEF IInv

\* The invariant survives CreateInstance, when the object refuses.
LEMMA InstanceRefusedStep == ASSUME IInv, InstanceRefused PROVE IInv'
<1>1. PICK i \in pending :
        /\ item' \in MayLeak([item EXCEPT ![i] = Settled(ValueGivenUp(Released(@)))])
        /\ pending' = pending \ {i}
        /\ UNCHANGED <<clients, cached, running, lost>>
  BY DEF InstanceRefused
<1> DEFINE r == Settled(ValueGivenUp(Released(item[i])))
           t == i \in cached
           f == [item EXCEPT ![i] = r]
<1>2. i \in Item BY DEF IInv, TypeOK
<1>3. Good(item[i], clients[i], i \in cached, i \in pending) BY <1>2 DEF IInv, ItemsGood
<1>4. i \in pending OBVIOUS
<1>5. t \in BOOLEAN OBVIOUS
<1>6. Good(item[i], clients[i], t, TRUE) BY <1>3, <1>4 DEF Good, GoodScalar, Extra, One
<1>7. f = [item EXCEPT ![i] = r] OBVIOUS
<1>8. item' \in MayLeak(f) BY <1>1
<1>9. t <=> i \in cached' BY <1>1
<1> HIDE DEF t
<1>10. Good(r, clients[i], t, FALSE) BY <1>5, <1>6, RefusedGood
<1> HIDE DEF r, f
<1>11. f \in [Item -> ItemRecord] BY <1>2, <1>7, <1>10 DEF IInv, TypeOK, Good
<1>12. \A k \in Item : Unused(k) => clients'[k] = 0 /\ k \notin cached' /\ k \notin pending'
  BY <1>1, UnusedFields
<1>13. ASSUME NEW j \in Item
       PROVE  Good(f[j], clients'[j], j \in cached', j \in pending')
  <2>1. CASE j = i
    <3>1. f[j] = r /\ clients'[j] = clients[i] /\ (j \in cached' <=> t) /\ j \notin pending'
      BY <1>1, <1>2, <1>7, <1>9, <2>1 DEF IInv, TypeOK
    <3>. QED BY <1>5, <1>10, <3>1 DEF Good, GoodScalar, Extra, One
  <2>2. CASE j # i
    <3>1. /\ f[j] = item[j] /\ clients'[j] = clients[j]
          /\ (j \in cached' <=> j \in cached) /\ (j \in pending' <=> j \in pending)
      BY <1>1, <1>7, <2>2 DEF IInv, TypeOK
    <3>. QED BY <3>1 DEF IInv, ItemsGood, Good, GoodScalar, Extra, One
  <2>. QED BY <2>1, <2>2
<1>14. item' \in [Item -> ItemRecord] /\ ItemsGood'
  BY <1>8, <1>11, <1>12, <1>13, LeakStep
<1>. QED BY <1>1, <1>14 DEF IInv, TypeOK

\* The invariant survives CreateInstance, when Perl answers with another object.
LEMMA InstanceIsQueriedStep == ASSUME IInv, InstanceIsQueried PROVE IInv'
<1>1. PICK i \in pending, k \in Item :
        /\ Unused(k)
        /\ item' = [item EXCEPT ![i] = ValueKept(Released(@)),
                                ![k] = Queried(i, item[i].asked, "stub")]
        /\ clients' = [clients EXCEPT ![k] = 1]
        /\ pending' = pending \ {i}
        /\ UNCHANGED <<cached, running, lost>>
  BY DEF InstanceIsQueried
<1> DEFINE c == item[i].asked
           r == ValueKept(Released(item[i]))
           q == HandedOver(WrappedAs(Value("QueryInterface", "instance", c, c, Returned), "stub"))
           t == i \in cached
<1>2. i \in Item BY DEF IInv, TypeOK
<1>3. Good(item[i], clients[i], i \in cached, i \in pending) BY <1>2 DEF IInv, ItemsGood
<1>4. i \in pending OBVIOUS
<1>5. t \in BOOLEAN OBVIOUS
<1>6. Good(item[i], clients[i], t, TRUE) BY <1>3, <1>4 DEF Good, GoodScalar, Extra, One
<1>7. c \in Class /\ item[i].class = c BY <1>3, <1>4 DEF Good, ItemRecord
<1>8. item' = [item EXCEPT ![i] = r, ![k] = q] BY <1>1, <1>7 DEF Queried
<1>9. t <=> i \in cached' BY <1>1
<1>10. r = ValueKept(Released(item[i])) OBVIOUS
<1> HIDE DEF t, c, r
<1>11. Good(r, clients[i], t, FALSE) BY <1>5, <1>6, <1>10, DroppedGood
<1>12. "stub" \in {"native", "stub"} OBVIOUS
<1>13. Good(q, 1, FALSE, FALSE) BY <1>7, <1>12, QueriedGood
<1> HIDE DEF q
<1>14. clients[k] = 0 /\ k \notin cached /\ k \notin pending BY <1>1, UnusedFields
<1>15. k # i BY <1>4, <1>14
<1>16. TypeOK' BY <1>1, <1>8, <1>11, <1>13 DEF IInv, TypeOK, Good
<1>17. ItemsGood'
  <2> SUFFICES ASSUME NEW j \in Item
               PROVE  Good(item'[j], clients'[j], j \in cached', j \in pending')
    BY DEF ItemsGood
  <2>1. CASE j = k
    <3>1. item'[j] = q /\ clients'[j] = 1 /\ j \notin cached' /\ j \notin pending'
      BY <1>1, <1>8, <1>14, <2>1 DEF IInv, TypeOK
    <3>. QED BY <1>13, <3>1 DEF Good, GoodScalar, Extra, One
  <2>2. CASE j = i
    <3>1. item'[j] = r /\ clients'[j] = clients[i] /\ (j \in cached' <=> t) /\ j \notin pending'
      BY <1>1, <1>2, <1>8, <1>9, <1>15, <2>2 DEF IInv, TypeOK
    <3>. QED BY <1>5, <1>11, <3>1 DEF Good, GoodScalar, Extra, One
  <2>3. CASE j # i /\ j # k
    BY <1>1, <1>8, <2>3, SameGood DEF IInv, TypeOK
  <2>. QED BY <2>1, <2>2, <2>3
<1>. QED BY <1>16, <1>17 DEF IInv

-----------------------------------------------------------------------------
(* The results. *)

\* Nothing is in memory at first.
LEMMA Initially == Init => IInv
<1> SUFFICES ASSUME Init PROVE IInv OBVIOUS
<1>1. Good(UnusedItem, 0, FALSE, FALSE) BY UnusedGood
<1>2. TypeOK BY <1>1 DEF Init, TypeOK, Good
<1>3. ItemsGood
  <2> SUFFICES ASSUME NEW j \in Item
               PROVE  Good(item[j], clients[j], j \in cached, j \in pending)
    BY DEF ItemsGood
  <2>1. item[j] = UnusedItem /\ clients[j] = 0 /\ j \notin cached /\ j \notin pending
    BY DEF Init
  <2>. QED BY <1>1, <2>1 DEF Good, GoodScalar, Extra, One
<1>. QED BY <1>2, <1>3 DEF IInv

\* Every step keeps the invariant.
LEMMA Stepwise == IInv /\ [Next]_vars => IInv'
<1> SUFFICES ASSUME IInv, [Next]_vars PROVE IInv' OBVIOUS
<1>1. CASE UNCHANGED vars
  BY <1>1 DEF vars, IInv, TypeOK, ItemsGood
<1>2. CASE Exit
  BY <1>2 DEF Exit, IInv, TypeOK, ItemsGood
<1>3. CASE Ended BY <1>1, <1>3 DEF Ended
<1>. QED
  BY <1>1, <1>2, <1>3, MethodFailsStep, GetModuleStep, GetModuleFailsStep, GetCachedModuleStep,
     LoaderDestroyedStep, GetClassObjectStep, CreateInstanceStep, InstanceIsWrapperStep,
     InstanceIsQueriedStep, InstanceRefusedStep, QueryInterfaceStep, QueryNativeStep, ReleaseStep,
     ConstructStep, WrapObjectStep, AssignStep, VariableGoneStep
  DEF Next

\* What the invariant says of holders, owners and classes.
LEMMA Consequences == IInv => WrappersHaveHolders /\ ScalarsHaveOwners /\ ClassServed
<1> SUFFICES ASSUME IInv PROVE WrappersHaveHolders /\ ScalarsHaveOwners /\ ClassServed OBVIOUS
<1>1. \A i \in Item : Good(item[i], clients[i], i \in cached, i \in pending)
  BY DEF IInv, ItemsGood
<1>2. WrappersHaveHolders BY <1>1 DEF WrappersHaveHolders, Good
<1>3. ScalarsHaveOwners
  BY <1>1 DEF ScalarsHaveOwners, Surplus, Owners, Good, GoodScalar, Extra
<1>4. ClassServed BY <1>1 DEF ClassServed, Good
<1>. QED BY <1>2, <1>3, <1>4

\* Every state of the values and their wrappers is one that the types describe.
THEOREM TypeCorrect == Spec => []TypeOK
<1>1. IInv => TypeOK BY DEF IInv
<1>. QED BY <1>1, Initially, Stepwise, PTL DEF Spec

\* A wrapper lives for exactly as long as somebody holds it, whatever Perl code does
\* while CreateInstance waits for an answer.
THEOREM HoldersCounted == Spec => []WrappersHaveHolders
BY Initially, Stepwise, Consequences, PTL DEF Spec

\* A scalar has as many references as owners, and the surplus that the code is known
\* to leave.
THEOREM OwnersCounted == Spec => []ScalarsHaveOwners
BY Initially, Stepwise, Consequences, PTL DEF Spec

\* Objects are of the class that was asked for, unless Perl code shares the variable.
THEOREM ClassKept == Spec => []ClassServed
BY Initially, Stepwise, Consequences, PTL DEF Spec

=============================================================================
