----------------------------- MODULE Conversions -----------------------------
(***************************************************************************)
(* perlXPUtil: the functions that find what a Perl name stands for in an   *)
(* interface, and that carry numbers and arrays from native code to Perl   *)
(* and back.  They keep no state of their own, so the module follows one   *)
(* use of them at a time:                                                  *)
(*                                                                         *)
(*   - a script names a member of an object: GetInterfaceInfo,             *)
(*     GetMethodInfo and, when there is no such method, lookupConstant;    *)
(*   - a native number reaches Perl code and is passed on by it;           *)
(*   - a native array reaches Perl code (convertArrayToSV), which may      *)
(*     change it and passes it on (convertSVToArray), and native code      *)
(*     reads what came back.                                               *)
(***************************************************************************)
EXTENDS Integers, Sequences, SequencesExt, PerlScalars

CONSTANTS
  Name,        \* identifiers of interfaces
  Begins,      \* <<n, m>>: m is longer than n and begins with it
  MaxMembers,  \* bound: methods of an interface
  MaxConsts,   \* bound: constants of an interface
  IVBits,      \* the width of Perl's integers
  Bits,        \* the widths of the integer types of XPCOM
  MaxLength,   \* bound: elements of an array, and the size asked for
  Dimensions   \* how many sizes a PRUint16 can tell apart

ASSUME ConversionsAssumption ==
  /\ Begins \subseteq Name \X Name
  /\ \A n \in Name : <<n, n>> \notin Begins
  /\ \A l, m, n \in Name : <<l, m>> \in Begins /\ <<m, n>> \in Begins => <<l, n>> \in Begins
  /\ MaxMembers \in Nat /\ MaxConsts \in Nat
  /\ IVBits \in Nat \ {0} /\ Bits \subseteq Nat \ {0}
  /\ MaxLength \in Nat /\ Dimensions \in Nat \ {0}

VARIABLES
  pc,         \* what is being done
  iface,      \* the interface: its methods and constants, in the typelib's order
  asked,      \* the name that is looked up and the number of arguments
  answer,     \* what it was found to stand for
  number,     \* a native number, its type, and what came back
  kind,       \* the type of the elements of an array
  given,      \* native code gives the array and its elements away
  source,     \* the native array
  memory,     \* the references to its elements
  changed,    \* Perl code has changed the array or its size
  sv,         \* the Perl array
  dimension,  \* the size that goes with it on the way back
  out,        \* the native array made from it
  copies      \* the references to the elements of that array

lookup == <<iface, asked, answer>>
arrays == <<kind, given, source, memory, changed, sv, dimension, out, copies>>
vars   == <<pc, lookup, number, arrays>>

-----------------------------------------------------------------------------
(* Interfaces. *)

Method == [name : Name, is : {"getter", "setter", "method"}, hidden : BOOLEAN]

\* What the interface compiler emits: a name is declared once, and an attribute
\* that can be set has a getter with a setter after it.
Interface ==
  {i \in [methods : SeqOf(Method, MaxMembers), constants : SeqOf(Name, MaxConsts),
          scriptable : BOOLEAN] :
     /\ \A a, b \in DOMAIN i.methods :
          a < b /\ i.methods[a].name = i.methods[b].name =>
            /\ b = a + 1 /\ i.methods[a].hidden = i.methods[b].hidden
            /\ i.methods[a].is = "getter" /\ i.methods[b].is = "setter"
     /\ \A b \in DOMAIN i.methods : i.methods[b].is = "setter" =>
          b > 1 /\ i.methods[b - 1].name = i.methods[b].name
     /\ IsInjective(i.constants)
     /\ \A c \in DOMAIN i.constants, m \in DOMAIN i.methods :
          i.constants[c] # i.methods[m].name}

NoInterface == [methods |-> <<>>, constants |-> <<>>, scriptable |-> FALSE]
NotAsked    == [name |-> "", inputs |-> 0]
Nothing     == [of |-> "nothing", at |-> 0]

\* Mutant: an index that counts from 0.
FirstFromZero(S) == (CHOOSE n \in S : \A m \in S : n <= m) - 1

\* Where the loops over methods and constants stop.
First(S) == CHOOSE n \in S : \A m \in S : n <= m

\* GetMethodInfo compares whole names; the number of arguments tells a setter
\* from a getter.
Answers(m, name, inputCount) ==
  /\ ~m.hidden /\ m.name = name
  /\ m.is = "getter" => inputCount = 0
  /\ m.is = "setter" => inputCount > 0

\* Mutant: as many characters as the constant's name has.
MatchesOwnLength(name, constant) == name = constant \/ <<constant, name>> \in Begins

\* lookupConstant compares as many characters as the name asked for has.
Matches(name, constant) == name = constant \/ <<name, constant>> \in Begins

TypeOfLookup == {"nothing", "method", "constant", "refused"}

-----------------------------------------------------------------------------
(* Numbers. *)

\* How many numbers a width has.
Pow2[bits \in Nat] == IF bits = 0 THEN 1 ELSE 2 * Pow2[bits - 1]

\* The value of n cut to a width, read as a signed or an unsigned number.
Unsigned(n, bits) == n % Pow2[bits]
Signed(n, bits)   == LET u == n % Pow2[bits] IN IF u < Pow2[bits - 1] THEN u ELSE u - Pow2[bits]

Cut(n, type) == IF type.signed THEN Signed(n, type.bits) ELSE Unsigned(n, type.bits)

NumberType == [signed : BOOLEAN, bits : Bits]

Values(type) == IF type.signed THEN (-(Pow2[type.bits - 1]))..(Pow2[type.bits - 1] - 1)
                               ELSE 0..(Pow2[type.bits] - 1)

\* ConvertInt8ToSV to ConvertUint64ToSV: signed numbers become an IV, unsigned ones
\* a UV.
ToSV(n, type) == IF type.signed THEN Signed(n, IVBits) ELSE Unsigned(n, IVBits)

\* Mutant: the number is not brought back to its sign.
FromSVUnsigned(n, type) == Cut(Unsigned(n, IVBits), type)

\* ConvertSVToInt8 to ConvertSVToUint64: all of them ask for the IV, which for a
\* UV is its bits.
FromSV(n, type) == Cut(Signed(n, IVBits), type)

NoNumber == [type |-> [signed |-> FALSE, bits |-> 0], value |-> 0, back |-> 0]

NumberThroughPerl ==
  /\ pc = "idle"
  /\ \E type \in NumberType : \E n \in Values(type) :
       number' = [type |-> type, value |-> n, back |-> FromSV(ToSV(n, type), type)]
  /\ pc' = "number"
  /\ UNCHANGED <<lookup, arrays>>

-----------------------------------------------------------------------------
(* Names. *)

\* The interface of an object is asked for a member.  Only GetInterfaceInfo looks
\* whether scripts may use it at all.
GetInterfaceInfo ==
  /\ pc = "idle"
  /\ iface' \in Interface
  /\ asked' \in [name : Name, inputs : 0..1]
  /\ IF iface'.scriptable
     THEN pc' = "method" /\ UNCHANGED answer
     ELSE pc' = "named"  /\ answer' = [Nothing EXCEPT !.of = "refused"]
  /\ UNCHANGED <<number, arrays>>

Candidates ==
  {m \in DOMAIN iface.methods : Answers(iface.methods[m], asked.name, asked.inputs)}

GetMethodInfo ==
  /\ pc = "method"
  /\ IF Candidates = {}
     THEN pc' = "constant" /\ UNCHANGED answer
     ELSE pc' = "named"    /\ answer' = [of |-> "method", at |-> First(Candidates)]
  /\ UNCHANGED <<iface, asked, number, arrays>>

Matching == {c \in DOMAIN iface.constants : Matches(asked.name, iface.constants[c])}

lookupConstant ==
  /\ pc = "constant"
  /\ pc' = "named"
  /\ answer' = IF Matching = {} THEN Nothing ELSE [of |-> "constant", at |-> First(Matching)]
  /\ UNCHANGED <<iface, asked, number, arrays>>

-----------------------------------------------------------------------------
(* Arrays.  An element is known by its place in the native array. *)

\* A kind stands for the element types that the two switches treat alike: plain for
\* numbers, booleans and characters, wide for 64-bit integers, cstring for CHAR_STR
\* and wstring for WCHAR_STR, object for INTERFACE with nameless where the
\* interface of the elements cannot be told, dom for DOMSTRING, other for types
\* that no switch lists.
Kinds == {"plain", "wide", "id", "cstring", "wstring", "object", "nameless", "dom", "other"}

Strings == {"cstring", "wstring"}
Owned   == Strings \cup {"object", "nameless"}    \* elements are allocated or counted

Null    == 0     \* a null pointer; in Perl a wrapper without an object
Undef   == -1    \* undef, or no element
Blank   == -2    \* 0 or the empty string, which undef turns into
Unset   == -3    \* memory nobody has written
Raw     == -4    \* an ID where a pointer to one belongs
Trimmed == -5    \* a number cut to the width of an IV
Unended == -6    \* the bytes of a string, without the NUL that ends a char*

\* In the place of i, a number that NumbersComeBack says is changed.
Large(i) == MaxLength + i
AnyWider == \E bits \in Bits : bits > IVBits

Given(s) == IF given THEN Disown(s) ELSE s
TheirOwn == Own(NewScalar)

\* What native code may have in the place of i.
Elements(type, i) ==
  {i} \cup (IF type \in Owned THEN {Null} ELSE {})
      \cup (IF type = "wide" /\ AnyWider THEN {Large(i)} ELSE {})

NativeArray ==
  /\ pc = "idle"
  /\ kind' \in Kinds /\ given' \in BOOLEAN
  /\ \E n \in 0..MaxLength :
       \E s \in {s \in [1..n -> 0..(2 * MaxLength)] :
                 \A i \in 1..n : s[i] \in Elements(kind', i)} :
         /\ source' = s
         /\ memory' = [i \in 1..n |-> IF kind' \in Owned /\ s[i] # Null THEN TheirOwn ELSE NoScalar]
  /\ pc' = "toPerl"
  /\ UNCHANGED <<lookup, number, changed, sv, dimension, out, copies>>

\* The array is a null pointer, as an empty one may be, or the type of its elements is
\* not known.
convertArrayToSVFails ==
  /\ pc = "toPerl" /\ sv = <<>>
  /\ pc' = "refused"
  /\ UNCHANGED <<lookup, number, arrays>>

\* The value made of an element.  The string library takes a null wide string for
\* an empty one; sv_setpv makes undef of a null char*.
ElementToSV(v) ==
  CASE kind \in {"dom", "other"}       -> Undef
    [] kind = "cstring" /\ v = Null    -> Undef
    [] kind = "wstring" /\ v = Null    -> Blank
    [] OTHER                           -> v

\* How many values the loop stores: its bound is the length as a PRUint16, and a
\* value whose conversion failed is not stored.
Stored == IF kind = "nameless" THEN 0 ELSE Len(source) % Dimensions

\* Mutant: the wrapper of an object has no reference of its own.
TakenUnwrapped(i) ==
  IF source[i] = Null THEN memory[i]
  ELSE CASE kind \in Strings -> Given(Dec(memory[i]))
         [] kind = "object"   -> Given(Dec(Own(memory[i])))
         [] OTHER             -> memory[i]

\* Whoever gave the array, its strings are freed and its objects released; the
\* wrapper of an object has a reference of its own.
Taken(i) ==
  IF source[i] = Null THEN memory[i]
  ELSE CASE kind \in Strings -> Given(Dec(memory[i]))
         [] kind = "object"   -> Given(Dec(Own(Inc(memory[i]))))
         [] OTHER             -> memory[i]

\* One turn of the loop.
convertArrayToSV ==
  /\ pc = "toPerl" /\ Len(sv) < Stored
  /\ LET i == Len(sv) + 1 IN
       /\ sv' = Append(sv, ElementToSV(source[i]))
       /\ memory' = [memory EXCEPT ![i] = Taken(i)]
  /\ UNCHANGED <<pc, lookup, number, kind, given, source, changed, dimension, out, copies>>

\* Who was given the array frees it, and forgets the elements that are left.
ArrayConverted ==
  /\ pc = "toPerl" /\ Len(sv) = Stored
  /\ pc' = "perl"
  /\ memory' = [i \in DOMAIN memory |->
       IF given /\ source[i] # Null /\ kind \in Owned /\ i > Len(sv)
       THEN Disown(memory[i]) ELSE memory[i]]
  /\ UNCHANGED <<lookup, number, kind, given, source, changed, sv, dimension, out, copies>>

\* The script or the component shortens the array or overwrites an element.
PerlCode ==
  /\ pc = "perl" /\ sv # <<>>
  /\ \/ sv' = Front(sv)
     \/ \E i \in DOMAIN sv : sv' = [sv EXCEPT ![i] = Undef]
  /\ changed' = TRUE
  /\ UNCHANGED <<pc, lookup, number, kind, given, source, memory, dimension, out, copies>>

\* It passes the array on, with a size.
PassOn ==
  /\ pc = "perl"
  /\ dimension' \in 0..MaxLength
  /\ changed' = (changed \/ dimension' # Len(source))
  /\ pc' = "toNative"
  /\ UNCHANGED <<lookup, number, kind, given, source, memory, sv, out, copies>>

\* What Perl passes is no array, or the type of its elements is not known or has no
\* size.
convertSVToArrayFails ==
  /\ pc = "toNative" /\ out = <<>> /\ dimension % Dimensions # 0
  /\ pc' = "refused"
  /\ UNCHANGED <<lookup, number, arrays>>

\* Mutant: it says that there is no object.
FetchedNull(v) == IF v = Undef THEN Null ELSE v

\* fetchXPObject leaves the slot alone if the value is no wrapper.
Fetched(v) == IF v = Undef THEN Unset ELSE v

\* Numbers are cut to an IV, and undef is 0 or the empty string.
Read(v) == IF v = Undef THEN Blank ELSE IF v > MaxLength THEN Trimmed ELSE v

\* Mutant: IDs are stored by pointer, as convertArrayToSV reads them.
SVToElementPointers(v) ==
  CASE kind \in {"plain", "wide", "wstring"} -> Read(v)
    [] kind = "cstring"                      -> Unended
    [] kind = "id"                           -> IF v = Undef THEN Unset ELSE v
    [] kind = "object"                       -> Fetched(v)
    [] kind = "dom"                          -> Unset

\* What is written to a slot.  The result of the conversion is not looked at.
\* ConvertSVToString copies the bytes of a string, none of undef, and adds no NUL.
SVToElement(v) ==
  CASE kind \in {"plain", "wide", "wstring"} -> Read(v)
    [] kind = "cstring"                      -> Unended
    [] kind = "id"                           -> IF v = Undef THEN Unset ELSE Raw
    [] kind = "object"                       -> Fetched(v)
    [] kind = "dom"                          -> Unset

\* Strings are copied; objects get a reference for the slot.
Copy(v) == IF kind \in Strings \/ (kind = "object" /\ v > 0) THEN TheirOwn ELSE NoScalar

convertSVToArray ==
  /\ pc = "toNative" /\ kind # "other"
  /\ Len(out) < dimension % Dimensions /\ Len(out) < Len(sv)
  /\ LET v == sv[Len(out) + 1] IN
       /\ out' = Append(out, SVToElement(v))
       /\ copies' = Append(copies, Copy(v))
  /\ UNCHANGED <<pc, lookup, number, kind, given, source, memory, changed, sv, dimension>>

\* av_fetch finds no element, because Perl code says a larger size or nothing was
\* stored, and its result is dereferenced.
TooShort ==
  /\ pc = "toNative" /\ kind # "other"
  /\ Len(out) < dimension % Dimensions /\ Len(out) = Len(sv)
  /\ pc' = "lost"
  /\ UNCHANGED <<lookup, number, arrays>>

\* Native code has the array.  For a script it is scratch memory that is dropped
\* after the call, with what the slots point to; a component gives it to its
\* caller.
ArrayReturned ==
  /\ pc = "toNative" /\ Len(out) = dimension % Dimensions
  /\ pc' = "read"
  /\ copies' = [i \in DOMAIN copies |->
       IF given /\ copies[i] # NoScalar THEN Disown(copies[i]) ELSE copies[i]]
  /\ UNCHANGED <<lookup, number, kind, given, source, memory, changed, sv, dimension, out>>

-----------------------------------------------------------------------------
Init ==
  /\ pc = "idle"
  /\ iface = NoInterface /\ answer = Nothing /\ number = NoNumber
  /\ asked = NotAsked
  /\ kind = "plain" /\ given = FALSE /\ changed = FALSE /\ dimension = 0
  /\ source = <<>> /\ memory = <<>> /\ sv = <<>> /\ out = <<>> /\ copies = <<>>

Next ==
  \/ GetInterfaceInfo \/ GetMethodInfo \/ lookupConstant
  \/ NumberThroughPerl
  \/ NativeArray \/ convertArrayToSVFails \/ convertArrayToSV \/ ArrayConverted
  \/ PerlCode \/ PassOn
  \/ convertSVToArrayFails \/ convertSVToArray \/ TooShort \/ ArrayReturned

Spec == Init /\ [][Next]_vars

-----------------------------------------------------------------------------
(* Properties. *)

\* Every value is of its type; the loops stay within the bounds of what they read.
TypeOK ==
  /\ pc \in {"idle", "method", "constant", "named", "number", "toPerl", "perl",
             "toNative", "read", "refused", "lost"}
  /\ iface \in Interface \cup {NoInterface}
  /\ asked \in [name : Name, inputs : 0..1] \cup {NotAsked}
  /\ answer \in [of : TypeOfLookup, at : Nat]
  /\ answer.of = "method" => answer.at \in DOMAIN iface.methods
  /\ answer.of = "constant" => answer.at \in DOMAIN iface.constants
  /\ number # NoNumber => number.type \in NumberType /\ number.value \in Values(number.type)
  /\ kind \in Kinds /\ given \in BOOLEAN /\ changed \in BOOLEAN
  /\ source \in Seq(Nat) /\ memory \in Seq(Scalar) /\ Len(memory) = Len(source)
  /\ sv \in Seq(Nat \cup {Undef, Blank}) /\ Len(sv) <= Len(source)
  /\ dimension \in 0..MaxLength
  /\ out \in Seq(Int) /\ Len(out) <= Len(sv)
  /\ copies \in Seq(Scalar) /\ Len(copies) = Len(out)

\* A name finds the member it names, whatever else the interface declares: an
\* attribute's getter without arguments and its setter with one, a method, or a
\* constant unless one declared earlier begins with the same name.  A name that the
\* interface does not declare finds nothing unless a constant begins with it.
\* The methods that scripts must not call are as good as not declared.
NamesFindMembers ==
  pc = "named" /\ iface.scriptable =>
    LET name == asked.name
        takes(m) ==
          /\ iface.methods[m].name = name /\ ~iface.methods[m].hidden
          /\ CASE iface.methods[m].is = "getter" -> asked.inputs = 0
               [] iface.methods[m].is = "setter" -> asked.inputs = 1
               [] OTHER                          -> TRUE
        longer == {c \in DOMAIN iface.constants : <<name, iface.constants[c]>> \in Begins}
    IN /\ \A m \in DOMAIN iface.methods :
            takes(m) => answer = [of |-> "method", at |-> m]
       /\ (\A m \in DOMAIN iface.methods : ~takes(m)) =>
            CASE \E c \in DOMAIN iface.constants :
                   iface.constants[c] = name /\ \A d \in longer : c < d ->
                   answer.of = "constant" /\ iface.constants[answer.at] = name
              [] longer = {} /\ name \notin Range(iface.constants) -> answer = Nothing
              [] OTHER -> answer.of = "constant" /\ answer.at \in longer

\* A native number that Perl code passes on comes back as it was, if it fits the
\* integers of this Perl: signed ones within an IV, unsigned ones of at most its
\* width within a UV.  Wider unsigned ones are read back through an IV, sign
\* included: those in the upper half of a UV are changed as well as those beyond
\* it, except the largest, which are an IV's bits.
NumbersComeBack ==
  pc = "number" =>
    (number.back = number.value <=>
       IF number.type.signed THEN number.value \in (-(Pow2[IVBits - 1]))..(Pow2[IVBits - 1] - 1)
       ELSE \/ number.type.bits <= IVBits
            \/ number.value < Pow2[IVBits - 1]
            \/ number.value >= Pow2[number.type.bits] - Pow2[IVBits - 1])

\* An array that Perl code passes on untouched comes back as it was, except: one as
\* long as a PRUint16 cannot tell; 64-bit integers that an IV changes; IDs;
\* DOMStrings; char*, which lose their NUL; null wide strings, which become empty
\* ones; and objects of an unknown interface.
ArraysComeBack ==
  pc = "read" /\ ~changed =>
    (out = source <=>
       /\ Len(source) < Dimensions
       /\ \/ source = <<>> \/ kind \in {"plain", "object"}
          \/ kind = "wide" /\ \A i \in DOMAIN source : source[i] # Large(i)
          \/ kind = "wstring" /\ Null \notin Range(source))

\* Native code can read the array Perl code passed to its end exactly if there are
\* as many elements as Perl said, not more than a PRUint16 can tell, and each could
\* be converted: numbers and wide strings always, objects if they are wrappers;
\* char*, IDs, DOMStrings and objects of an unknown interface never.
ReadsAreSafe ==
  pc \in {"read", "lost"} =>
    (/\ pc = "read" /\ dimension <= Len(out)
     /\ \A i \in 1..dimension : out[i] \notin {Unset, Raw, Unended}
     <=>
     /\ dimension < Dimensions /\ dimension <= Len(sv)
     /\ \/ dimension = 0 \/ kind \in {"plain", "wide", "wstring"}
        \/ kind = "object" /\ \A i \in 1..dimension : sv[i] # Undef)

\* The elements of an array that was given away end with one owner for each reference,
\* except objects of an unknown interface and elements past the length as a
\* PRUint16, which are never freed.  An array that its caller keeps (the argument
\* of a Perl component's method) loses the strings and objects that the caller will
\* free.  Copies that were made for a native method are never freed.
ElementsAccountedFor ==
  /\ pc \in {"perl", "toNative", "read"} => \A i \in DOMAIN memory :
       LET converted == i <= Len(source) % Dimensions
       IN memory[i] # NoScalar =>
            /\ OverReleased(memory[i]) <=> ~given /\ kind # "nameless" /\ converted
            /\ Leaked(memory[i])       <=> given /\ (kind = "nameless" \/ ~converted)
  /\ pc = "read" => \A i \in DOMAIN copies :
       copies[i] # NoScalar => (Leaked(copies[i]) <=> given)

=============================================================================
