-------------------------- MODULE KeyEncodingProofs --------------------------
(***************************************************************************)
(* Proofs about KeyEncoding, for every choice of extra depths and messages *)
(* of every length.                                                        *)
(*                                                                         *)
(* The three ways to the parameters of a set come to the same record, the  *)
(* one its name says (ParamsAre).  Everything else follows from what that  *)
(* record holds: the lengths, the layouts and the inputs of the hashes.    *)
(***************************************************************************)
EXTENDS KeyEncoding, Arithmetic

---------------------------------------------------------------------------
(* The tables *)

(* A table that has a value for an identifier, and no other. *)
LEMMA PickValue ==
    ASSUME NEW table, NEW raw, NEW value, \E row \in table : raw \in row[2],
           \A row \in table : raw \in row[2] => row[1] = value
    PROVE  Pick(table, raw) = value
  BY DEF Pick

LEMMA FamilyFacts ==
    /\ DOMAIN Families = 1..7 /\ DOMAIN Shapes = 1..3 /\ DOMAIN MtShapes = 1..8
    /\ \A f \in 1..7 : Families[f][2] \in {24, 32, 64}
    /\ \A f, g \in 1..7 : Families[f] = Families[g] => f = g
    /\ \A i \in 1..3 : Shapes[i][1] \in {10, 16, 20} /\ Shapes[i][2] = 1
    /\ \A i, j \in 1..3 : Shapes[i] = Shapes[j] => i = j
    /\ \A i, j \in 1..8 : MtShapes[i] = MtShapes[j] => i = j
  BY DEF Families, Shapes, MtShapes

(* XmssOid::initialize for the identifiers of XMSS, three to a family. *)
LEMMA XmssTables ==
    ASSUME NEW f \in 1..7, NEW i \in 1..3
    PROVE  LET raw == (f - 1) * 3 + i
           IN /\ raw \in 1..21
              /\ Pick(XmssFunc, raw) = FamilyFunc[f]
              /\ Pick(XmssN, raw) = <<Families[f][2], FamilyPadding[f]>>
              /\ Pick(XmssHeight, raw) = Shapes[i][1]
  <1> DEFINE raw == (f - 1) * 3 + i
  <1>1. raw \in 1..21
    OBVIOUS
  <1>2. Pick(XmssFunc, raw) = FamilyFunc[f]
    <2>1. \E row \in XmssFunc : raw \in row[2]
      BY DEF XmssFunc
    <2>2. \A row \in XmssFunc : raw \in row[2] => row[1] = FamilyFunc[f]
      BY DEF XmssFunc, FamilyFunc
    <2> QED BY <2>1, <2>2, PickValue
  <1>3. Pick(XmssN, raw) = <<Families[f][2], FamilyPadding[f]>>
    <2>1. \E row \in XmssN : raw \in row[2]
      BY DEF XmssN
    <2>2. \A row \in XmssN : raw \in row[2] => row[1] = <<Families[f][2], FamilyPadding[f]>>
      BY DEF XmssN, Families, FamilyPadding
    <2> QED BY <2>1, <2>2, PickValue
  <1>4. Pick(XmssHeight, raw) = Shapes[i][1]
    <2>1. \E row \in XmssHeight : raw \in row[2]
      BY DEF XmssHeight
    <2>2. \A row \in XmssHeight : raw \in row[2] => row[1] = Shapes[i][1]
      BY DEF XmssHeight, Shapes
    <2> QED BY <2>1, <2>2, PickValue
  <1> QED BY <1>1, <1>2, <1>3, <1>4

(* And for those of XMSS^MT, eight to a family. *)
LEMMA MtTables ==
    ASSUME NEW f \in 1..7, NEW i \in 1..8
    PROVE  LET raw == (f - 1) * 8 + i
           IN /\ raw \in 1..56
              /\ Pick(MtFunc, raw) = FamilyFunc[f]
              /\ Pick(MtN, raw) = <<Families[f][2], FamilyPadding[f]>>
              /\ Pick(MtHeight, raw) = MtShapes[i][1]
              /\ Pick(MtLayers, raw) = MtShapes[i][2]
  <1> DEFINE raw == (f - 1) * 8 + i
  <1>1. raw \in 1..56
    OBVIOUS
  <1>2. Pick(MtFunc, raw) = FamilyFunc[f]
    <2>1. \E row \in MtFunc : raw \in row[2]
      BY DEF MtFunc
    <2>2. \A row \in MtFunc : raw \in row[2] => row[1] = FamilyFunc[f]
      BY DEF MtFunc, FamilyFunc
    <2> QED BY <2>1, <2>2, PickValue
  <1>3. Pick(MtN, raw) = <<Families[f][2], FamilyPadding[f]>>
    <2>1. \E row \in MtN : raw \in row[2]
      BY DEF MtN
    <2>2. \A row \in MtN : raw \in row[2] => row[1] = <<Families[f][2], FamilyPadding[f]>>
      BY DEF MtN, Families, FamilyPadding
    <2> QED BY <2>1, <2>2, PickValue
  <1>4. Pick(MtHeight, raw) = MtShapes[i][1]
    <2>1. \E row \in MtHeight : raw \in row[2]
      BY DEF MtHeight
    <2>2. \A row \in MtHeight : raw \in row[2] => row[1] = MtShapes[i][1]
      BY DEF MtHeight, MtShapes
    <2> QED BY <2>1, <2>2, PickValue
  <1>5. Pick(MtLayers, raw) = MtShapes[i][2]
    <2>1. \E row \in MtLayers : raw \in row[2]
      BY DEF MtLayers
    <2>2. \A row \in MtLayers : raw \in row[2] => row[1] = MtShapes[i][2]
      BY DEF MtLayers, MtShapes
    <2> QED BY <2>1, <2>2, PickValue
  <1> QED BY <1>1, <1>2, <1>3, <1>4, <1>5

---------------------------------------------------------------------------
(* Sets, their identifiers and their parameters *)

(* What a name says, and the lengths that follow. *)
Named(set) ==
    LET n   == Families[set.family][2]
        idx == XmssIndexBytes(set.h, set.d)
        wots == (2 * n + 3) * n
    IN [func |-> FamilyFunc[set.family],
        n |-> n, full_height |-> set.h, d |-> set.d, tree_height |-> set.h \div set.d,
        padding_len |-> FamilyPadding[set.family],
        wots_len |-> 2 * n + 3, wots_sig_bytes |-> wots, index_bytes |-> idx,
        sig_bytes |-> idx + n + set.d * wots + set.h * n,
        pk_bytes |-> 2 * n, sk_bytes |-> idx + 4 * n]

LEMMA StandardSet ==
    ASSUME NEW set \in Standard
    PROVE  \E f \in 1..7, i \in 1..3 :
              /\ set = [family |-> f, h |-> Shapes[i][1], d |-> 1]
              /\ RawOid(set) = (f - 1) * 3 + i
  <1>1. PICK f \in 1..7, i \in 1..3 : set = Set(f, Shapes[i])
    BY FamilyFacts DEF Standard
  <1>2. set = [family |-> f, h |-> Shapes[i][1], d |-> 1]
    BY <1>1, FamilyFacts DEF Set
  <1>3. <<set.h, set.d>> = Shapes[i]
    BY <1>2 DEF Shapes
  <1>4. (CHOOSE j \in DOMAIN Shapes : Shapes[j] = <<set.h, set.d>>) = i
    BY <1>3, FamilyFacts
  <1>5. IsXmss(set) /\ Len(Shapes) = 3 /\ set.family = f
    BY <1>2 DEF IsXmss, Shapes
  <1>6. RawOid(set) = (f - 1) * 3 + i
    BY <1>4, <1>5 DEF RawOid
  <1> QED BY <1>2, <1>6

LEMMA MultiSet ==
    ASSUME NEW set \in Multi
    PROVE  \E f \in 1..7, i \in 1..8 :
              /\ set = [family |-> f, h |-> MtShapes[i][1], d |-> MtShapes[i][2]]
              /\ set.d \in {2, 3, 4, 6, 8, 12}
              /\ RawOid(set) = (f - 1) * 8 + i
  <1>1. PICK f \in 1..7, i \in 1..8 : set = Set(f, MtShapes[i])
    BY FamilyFacts DEF Multi
  <1>2. set = [family |-> f, h |-> MtShapes[i][1], d |-> MtShapes[i][2]]
    BY <1>1 DEF Set
  <1>3. <<set.h, set.d>> = MtShapes[i] /\ set.d \in {2, 3, 4, 6, 8, 12}
    BY <1>2 DEF MtShapes
  <1>4. (CHOOSE j \in DOMAIN MtShapes : MtShapes[j] = <<set.h, set.d>>) = i
    BY <1>3, FamilyFacts
  <1>5. ~IsXmss(set) /\ Len(MtShapes) = 8 /\ set.family = f
    BY <1>2, <1>3 DEF IsXmss, MtShapes
  <1>6. RawOid(set) = (f - 1) * 8 + i
    BY <1>4, <1>5 DEF RawOid
  <1> QED BY <1>2, <1>3, <1>6

LEMMA ExtraSet ==
    ASSUME NEW set \in Extra
    PROVE  \E f \in 1..7, h \in 1..24 \ {10, 16, 20} : set = [family |-> f, h |-> h, d |-> 1]
  BY FamilyFacts, ExtraHeightsAssumption DEF Extra, Set

(* What a set can be. *)
LEMMA SetFacts ==
    ASSUME NEW set \in ParameterSets
    PROVE  /\ set = [family |-> set.family, h |-> set.h, d |-> set.d]
           /\ set.family \in 1..7
           /\ \/ set.d = 1 /\ set.h \in 1..24
              \/ set.h = 20 /\ set.d \in {2, 4}
              \/ set.h = 40 /\ set.d \in {2, 4, 8}
              \/ set.h = 60 /\ set.d \in {3, 6, 12}
           /\ set \in Standard \cup Extra <=> set.d = 1
  <1>1. CASE set \in Standard
    <2>1. PICK f \in 1..7, i \in 1..3 : set = [family |-> f, h |-> Shapes[i][1], d |-> 1]
      BY <1>1, StandardSet
    <2> QED BY <1>1, <2>1, FamilyFacts
  <1>2. CASE set \in Multi
    <2>1. PICK f \in 1..7, i \in 1..8 :
             /\ set = [family |-> f, h |-> MtShapes[i][1], d |-> MtShapes[i][2]]
             /\ set.d \in {2, 3, 4, 6, 8, 12}
      BY <1>2, MultiSet
    <2>2. \/ set.h = 20 /\ set.d \in {2, 4}
          \/ set.h = 40 /\ set.d \in {2, 4, 8}
          \/ set.h = 60 /\ set.d \in {3, 6, 12}
      BY <2>1 DEF MtShapes
    <2>3. set \notin Standard \cup Extra
      BY <2>2, StandardSet, ExtraSet
    <2> QED BY <2>1, <2>2, <2>3
  <1>3. CASE set \in Extra
    <2>1. PICK f \in 1..7, h \in 1..24 \ {10, 16, 20} : set = [family |-> f, h |-> h, d |-> 1]
      BY <1>3, ExtraSet
    <2> QED BY <1>3, <2>1
  <1> QED BY <1>1, <1>2, <1>3 DEF ParameterSets, Registered

(* XmssOid::initialize comes to what the name says. *)
LEMMA InitializeNamed ==
    ASSUME NEW set \in Registered
    PROVE  Initialize(set) = Named(set)
  <1>1. CASE set \in Standard
    <2>1. PICK f \in 1..7, i \in 1..3 :
             /\ set = [family |-> f, h |-> Shapes[i][1], d |-> 1]
             /\ RawOid(set) = (f - 1) * 3 + i
      BY <1>1, StandardSet
    <2> DEFINE n == Families[f][2]
    <2>2. /\ Pick(XmssFunc, RawOid(set)) = FamilyFunc[f]
          /\ Pick(XmssN, RawOid(set)) = <<n, FamilyPadding[f]>>
          /\ Pick(XmssHeight, RawOid(set)) = set.h
      BY <2>1, XmssTables
    <2>3. IsXmss(set) /\ set.family = f /\ set.d = 1 /\ n \in {24, 32, 64}
      BY <2>1, FamilyFacts DEF IsXmss
    <2>4. WotsLen(n) = 2 * n + 3
      BY <2>3 DEF WotsLen
    <2> QED BY <2>2, <2>3, <2>4 DEF Initialize, Named, XmssIndexBytes
  <1>2. CASE set \in Multi
    <2>1. PICK f \in 1..7, i \in 1..8 :
             /\ set = [family |-> f, h |-> MtShapes[i][1], d |-> MtShapes[i][2]]
             /\ set.d \in {2, 3, 4, 6, 8, 12}
             /\ RawOid(set) = (f - 1) * 8 + i
      BY <1>2, MultiSet
    <2> DEFINE n == Families[f][2]
    <2>2. /\ Pick(MtFunc, RawOid(set)) = FamilyFunc[f]
          /\ Pick(MtN, RawOid(set)) = <<n, FamilyPadding[f]>>
          /\ Pick(MtHeight, RawOid(set)) = set.h
          /\ Pick(MtLayers, RawOid(set)) = set.d
      <3>1. /\ Pick(MtFunc, RawOid(set)) = FamilyFunc[f]
            /\ Pick(MtN, RawOid(set)) = <<n, FamilyPadding[f]>>
            /\ Pick(MtHeight, RawOid(set)) = MtShapes[i][1]
            /\ Pick(MtLayers, RawOid(set)) = MtShapes[i][2]
        <4> DEFINE raw == (f - 1) * 8 + i
        <4>1. /\ Pick(MtFunc, raw) = FamilyFunc[f]
              /\ Pick(MtN, raw) = <<n, FamilyPadding[f]>>
              /\ Pick(MtHeight, raw) = MtShapes[i][1]
              /\ Pick(MtLayers, raw) = MtShapes[i][2]
          BY MtTables
        <4>2. RawOid(set) = raw
          BY <2>1
        <4> HIDE DEF raw, n
        <4> QED BY <4>1, <4>2, Zenon
      <3>2. set.h = MtShapes[i][1] /\ set.d = MtShapes[i][2]
        BY <2>1
      <3> QED BY <3>1, <3>2
    <2>3. ~IsXmss(set) /\ set.family = f /\ set.d # 1 /\ n \in {24, 32, 64}
      <3>1. set.family = f /\ set.d # 1
        <4>1. set.family = f
          BY <2>1
        <4>2. set.d # 1
          BY <2>1
        <4> QED BY <4>1, <4>2
      <3>2. n \in {24, 32, 64}
        BY <2>1, FamilyFacts
      <3> QED BY <3>1, <3>2 DEF IsXmss
    <2>4. WotsLen(n) = 2 * n + 3
      BY <2>3 DEF WotsLen
    <2> QED BY <2>2, <2>3, <2>4 DEF Initialize, Named, XmssIndexBytes
  <1> QED BY <1>1, <1>2 DEF Registered

(* Names tell sets apart. *)
LEMMA NamesApart ==
    ASSUME NEW a \in ParameterSets, NEW b \in ParameterSets, NameOf(a) = NameOf(b)
    PROVE  a = b
  <1>1. /\ a.h = b.h /\ a.d = b.d
        /\ Families[a.family][1] = Families[b.family][1]
        /\ 8 * Families[a.family][2] = 8 * Families[b.family][2]
    BY DEF NameOf
  <1>2. a.family \in 1..7 /\ b.family \in 1..7
    BY SetFacts
  <1>3. a.family = b.family
    BY <1>1, <1>2 DEF Families
  <1> QED BY <1>1, <1>3, SetFacts

LEMMA NameFound ==
    ASSUME NEW set \in Registered
    PROVE  FromName(NameOf(set)) = set
  <1>1. \A other \in Registered : NameOf(other) = NameOf(set) => other = set
    BY NamesApart DEF ParameterSets
  <1> QED BY <1>1 DEF FromName

LEMMA TargetFacts ==
    ASSUME NEW t \in Targets
    PROVE  /\ t = [api |-> t.api, set |-> t.set]
           /\ t.set \in ParameterSets
           /\ \/ t.api \in {"typed", "boxed"} /\ t.set \in Registered
              \/ t.api = "family" /\ t.set \in Standard \cup Extra /\ t.set.d = 1
  BY SetFacts DEF Targets, ParameterSets, Registered

(* All three ways to the parameters come to the same. *)
LEMMA ParamsAre ==
    ASSUME NEW t \in Targets
    PROVE  Params[t] = Named(t.set)
  <1>1. CASE t.api \in {"typed", "boxed"}
    BY <1>1, TargetFacts, InitializeNamed, NameFound DEF Params, ParamsOf
  <1>2. CASE t.api = "family"
    <2>1. t.set.d = 1 /\ t.set.h \in 1..24 /\ t.set.family \in 1..7
      BY <1>2, TargetFacts, SetFacts
    <2>2. t.set.h \div 1 = t.set.h
      BY <2>1
    <2>3. \A x \in Nat : 1 * x = x
      OBVIOUS
    <2>4. Families[t.set.family][2] \in Nat
      BY <2>1, FamilyFacts
    <2>5. GenericXmssParams(t.set) = Named(t.set)
      BY <2>1, <2>2, <2>3, <2>4 DEF GenericXmssParams, Named, XmssIndexBytes
    <2> QED BY <1>2, <2>5 DEF Params, ParamsOf
  <1> QED BY <1>1, <1>2, TargetFacts

(* What the record of a set holds. *)
LEMMA NamedFacts ==
    ASSUME NEW set \in ParameterSets
    PROVE  LET p == Named(set)
           IN /\ p.n = Families[set.family][2] /\ p.n \in {24, 32, 64}
              /\ p.func = FamilyFunc[set.family]
              /\ p.d = set.d /\ p.d \in Nat \ {0} /\ p.full_height = set.h
              /\ p.tree_height = set.h \div set.d /\ p.tree_height \in 1..24
              /\ p.tree_height * p.d = p.full_height
              /\ p.index_bytes =
                   IF set.d = 1 THEN 4 ELSE CASE set.h = 20 -> 3 [] set.h = 40 -> 5 [] set.h = 60 -> 8
              /\ p.index_bytes = XmssIndexBytes(set.h, set.d) /\ p.index_bytes \in {3, 4, 5, 8}
              /\ p.full_height <= 8 * p.index_bytes
              /\ p.padding_len = FamilyPadding[set.family] /\ p.padding_len \in {4, 32, 64}
              /\ p.padding_len <= p.n
              /\ p.wots_len = 2 * p.n + 3
              /\ p.wots_sig_bytes = (2 * p.n + 3) * p.n /\ p.wots_sig_bytes \in Nat \ {0}
              /\ p.sig_bytes = p.index_bytes + p.n + p.d * p.wots_sig_bytes + p.full_height * p.n
              /\ p.sig_bytes \in Nat
              /\ p.pk_bytes = 2 * p.n /\ p.sk_bytes = p.index_bytes + 4 * p.n
  <1> DEFINE p == Named(set)
  <1>1. /\ set.family \in 1..7
        /\ \/ set.d = 1 /\ set.h \in 1..24
           \/ set.h = 20 /\ set.d \in {2, 4}
           \/ set.h = 40 /\ set.d \in {2, 4, 8}
           \/ set.h = 60 /\ set.d \in {3, 6, 12}
    BY SetFacts
  <1>2. /\ p.n = Families[set.family][2] /\ p.func = FamilyFunc[set.family]
        /\ p.d = set.d /\ p.full_height = set.h /\ p.tree_height = set.h \div set.d
        /\ p.index_bytes = XmssIndexBytes(set.h, set.d)
        /\ p.padding_len = FamilyPadding[set.family]
        /\ p.wots_len = 2 * p.n + 3 /\ p.wots_sig_bytes = (2 * p.n + 3) * p.n
        /\ p.sig_bytes = p.index_bytes + p.n + p.d * p.wots_sig_bytes + p.full_height * p.n
        /\ p.pk_bytes = 2 * p.n /\ p.sk_bytes = p.index_bytes + 4 * p.n
    BY DEF Named
  <1> HIDE DEF p
  <1>3. p.n \in {24, 32, 64} /\ p.padding_len \in {4, 32, 64} /\ p.padding_len <= p.n
    BY <1>1, <1>2 DEF Families, FamilyPadding
  <1>4. /\ p.d \in Nat \ {0} /\ p.tree_height \in 1..24 /\ p.tree_height * p.d = p.full_height
        /\ p.full_height \in Nat
    BY <1>1, <1>2
  <1>5. /\ p.index_bytes =
             IF set.d = 1 THEN 4 ELSE CASE set.h = 20 -> 3 [] set.h = 40 -> 5 [] set.h = 60 -> 8
        /\ p.index_bytes \in {3, 4, 5, 8} /\ p.full_height <= 8 * p.index_bytes
    BY <1>1, <1>2 DEF XmssIndexBytes, CeilDiv
  <1>6. p.wots_sig_bytes \in Nat \ {0}
    BY <1>2, <1>3
  <1>7. p.d * p.wots_sig_bytes \in Nat /\ p.full_height * p.n \in Nat
    BY <1>3, <1>4, <1>6
  <1>8. p.sig_bytes \in Nat
    <2> DEFINE x == p.d * p.wots_sig_bytes
               y == p.full_height * p.n
    <2>1. p.sig_bytes = p.index_bytes + p.n + x + y
      BY <1>2
    <2>2. x \in Nat /\ y \in Nat /\ p.n \in Nat
      BY <1>3, <1>7
    <2>3. p.index_bytes \in Nat
      <3>1. p.index_bytes \in {3, 4, 5, 8}
        BY <1>5
      <3> QED BY <3>1
    <2> HIDE DEF x, y
    <2> QED BY <2>1, <2>2, <2>3
  <1> QED BY <1>2, <1>3, <1>4, <1>5, <1>6, <1>8 DEF p

(* Lengths, computed from the arguments of the macros or taken from the    *)
(* parameters, are the same.                                               *)
LEMMA LayoutsAre ==
    ASSUME NEW t \in Targets
    PROVE  Layout[t] = LET p == Named(t.set)
                       IN [sk |-> 4 + p.sk_bytes, array |-> 4 + p.sk_bytes,
                           vk |-> 4 + p.pk_bytes, sig |-> p.sig_bytes, seed |-> 3 * p.n,
                           width |-> p.n]
  <1> DEFINE p == Named(t.set)
  <1>1. /\ p.n = Families[t.set.family][2] /\ p.n \in {24, 32, 64}
        /\ p.d = t.set.d /\ p.full_height = t.set.h
        /\ p.index_bytes = XmssIndexBytes(t.set.h, t.set.d)
        /\ p.index_bytes =
             IF t.set.d = 1 THEN 4
             ELSE CASE t.set.h = 20 -> 3 [] t.set.h = 40 -> 5 [] t.set.h = 60 -> 8
        /\ p.index_bytes \in {3, 4, 5, 8}
        /\ p.wots_sig_bytes = (2 * p.n + 3) * p.n
        /\ p.sig_bytes = p.index_bytes + p.n + p.d * p.wots_sig_bytes + p.full_height * p.n
        /\ p.pk_bytes = 2 * p.n /\ p.sk_bytes = p.index_bytes + 4 * p.n
    BY TargetFacts, NamedFacts
  <1>2. Params[t] = p
    BY ParamsAre
  <1> HIDE DEF p
  <1>3. TypeWidth(t.set) = p.n
    BY <1>1 DEF TypeWidth
  <1>4. IdxType(t.set) = p.index_bytes
    BY <1>1 DEF IdxType, IsXmss
  <1>5. /\ XmssSkLen(p.n, t.set.h, t.set.d) = 4 + p.sk_bytes
        /\ 4 + IdxType(t.set) + 4 * p.n = 4 + p.sk_bytes
        /\ XmssVkLen(p.n) = 4 + p.pk_bytes
        /\ XmssSeedLen(p.n) = 3 * p.n
    <2>1. p.index_bytes \in Nat /\ 4 * p.n \in Nat
      <3>1. p.index_bytes \in {3, 4, 5, 8} /\ p.n \in {24, 32, 64}
        BY <1>1
      <3> QED BY <3>1
    <2>2. 4 + p.index_bytes + 4 * p.n = 4 + p.sk_bytes
      <3> DEFINE x == 4 * p.n
                 y == p.index_bytes
      <3>1. p.sk_bytes = y + x /\ x \in Nat /\ y \in Nat
        BY <1>1, <2>1
      <3> HIDE DEF x, y
      <3> QED BY <3>1 DEF x, y
    <2>3. XmssSkLen(p.n, t.set.h, t.set.d) = 4 + p.index_bytes + 4 * p.n
      BY <1>1 DEF XmssSkLen
    <2> QED BY <1>1, <1>4, <2>2, <2>3 DEF XmssVkLen, XmssSeedLen
  <1>6. XmssSigLen(p.n, t.set.h, t.set.d) = p.sig_bytes
    BY <1>1 DEF XmssSigLen
  <1> QED BY <1>1, <1>2, <1>3, <1>5, <1>6 DEF Layout, LayoutOf, p

(* An encoded identifier tells the sets of one kind apart. *)
LEMMA OidOfRegistered ==
    ASSUME NEW t \in Targets, t.set \in Registered
    PROVE  Oid[t] = <<0, RawOid(t.set)>>
  <1>1. CASE t.api = "family"
    <2>1. t.set.d = 1 /\ t.set \in Standard
      BY <1>1, TargetFacts, MultiSet DEF Registered
    <2>2. PICK f \in 1..7, i \in 1..3 :
             /\ t.set = [family |-> f, h |-> Shapes[i][1], d |-> 1]
             /\ RawOid(t.set) = (f - 1) * 3 + i
      BY <2>1, StandardSet
    <2>3. t.set.family = f /\ t.set.h = Shapes[i][1]
      BY <2>2
    <2>4. TreeDepthOid(f, Shapes[i][1]) = <<0, (f - 1) * 3 + i>>
      <3>1. CASE i = 1
        BY <3>1 DEF TreeDepthOid, Shapes
      <3>2. CASE i = 2
        BY <3>2 DEF TreeDepthOid, Shapes
      <3>3. CASE i = 3
        BY <3>3 DEF TreeDepthOid, Shapes
      <3> QED BY <3>1, <3>2, <3>3
    <2> QED BY <1>1, <2>2, <2>3, <2>4 DEF Oid, OidOf
  <1>2. CASE t.api # "family"
    BY <1>2 DEF Oid, OidOf
  <1> QED BY <1>1, <1>2

LEMMA OidOfExtra ==
    ASSUME NEW t \in Targets, t.set \in Extra
    PROVE  /\ Oid[t] = <<65280 + t.set.family, t.set.h>>
           /\ t.set.d = 1 /\ t.set \notin Registered
  <1>1. PICK f \in 1..7, h \in 1..24 \ {10, 16, 20} : t.set = [family |-> f, h |-> h, d |-> 1]
    BY ExtraSet
  <1>2. t.set \notin Standard
    <2> SUFFICES ASSUME t.set \in Standard PROVE FALSE
      OBVIOUS
    <2>1. PICK g \in 1..7, i \in 1..3 : t.set = [family |-> g, h |-> Shapes[i][1], d |-> 1]
      BY StandardSet
    <2> QED BY <1>1, <2>1, FamilyFacts
  <1>3. t.set \notin Multi
    BY <1>1, MultiSet
  <1>4. t.api = "family"
    BY <1>2, <1>3, TargetFacts DEF Registered
  <1> QED BY <1>1, <1>2, <1>3, <1>4 DEF Oid, OidOf, TreeDepthOid, Registered

LEMMA CountsApart ==
    ASSUME NEW f \in 1..7, NEW g \in 1..7
    PROVE  /\ \A i, j \in 1..3 : (f - 1) * 3 + i = (g - 1) * 3 + j => f = g /\ i = j
           /\ \A i, j \in 1..8 : (f - 1) * 8 + i = (g - 1) * 8 + j => f = g /\ i = j
  OBVIOUS

LEMMA OidsApart ==
    ASSUME NEW a \in Targets, NEW b \in Targets, Oid[a] = Oid[b],
           IsXmss(a.set) = IsXmss(b.set)
    PROVE  a.set = b.set
  <1>1. \A t \in Targets : t.set \in Registered \/ t.set \in Extra
    BY TargetFacts DEF ParameterSets
  <1>2. \A t \in Targets : t.set.family \in 1..7 /\ t.set \in ParameterSets
    BY TargetFacts, SetFacts
  <1>3. CASE a.set \in Extra \/ b.set \in Extra
    <2>1. a.set \in Extra /\ b.set \in Extra
      BY <1>1, <1>2, <1>3, OidOfRegistered, OidOfExtra
    <2>2. a.set.family = b.set.family /\ a.set.h = b.set.h /\ a.set.d = b.set.d
      BY <1>2, <2>1, OidOfExtra
    <2> QED BY <1>2, <2>2, SetFacts
  <1>4. CASE a.set \in Registered /\ b.set \in Registered
    <2>1. RawOid(a.set) = RawOid(b.set)
      BY <1>4, OidOfRegistered
    <2>2. CASE a.set \in Standard
      <3>1. b.set \in Standard
        BY <1>4, <2>2, StandardSet, MultiSet DEF Registered, IsXmss
      <3>2. PICK f \in 1..7, i \in 1..3 :
               /\ a.set = [family |-> f, h |-> Shapes[i][1], d |-> 1]
               /\ RawOid(a.set) = (f - 1) * 3 + i
        BY <2>2, StandardSet
      <3>3. PICK g \in 1..7, j \in 1..3 :
               /\ b.set = [family |-> g, h |-> Shapes[j][1], d |-> 1]
               /\ RawOid(b.set) = (g - 1) * 3 + j
        BY <3>1, StandardSet
      <3>4. (f - 1) * 3 + i = (g - 1) * 3 + j
        BY <2>1, <3>2, <3>3
      <3>5. f = g /\ i = j
        BY <3>4, CountsApart
      <3> QED BY <3>2, <3>3, <3>5
    <2>3. CASE a.set \in Multi
      <3>1. b.set \in Multi
        BY <1>4, <2>3, StandardSet, MultiSet DEF Registered, IsXmss
      <3>2. PICK f \in 1..7, i \in 1..8 :
               /\ a.set = [family |-> f, h |-> MtShapes[i][1], d |-> MtShapes[i][2]]
               /\ RawOid(a.set) = (f - 1) * 8 + i
        BY <2>3, MultiSet
      <3>3. PICK g \in 1..7, j \in 1..8 :
               /\ b.set = [family |-> g, h |-> MtShapes[j][1], d |-> MtShapes[j][2]]
               /\ RawOid(b.set) = (g - 1) * 8 + j
        BY <3>1, MultiSet
      <3>4. (f - 1) * 8 + i = (g - 1) * 8 + j
        BY <2>1, <3>2, <3>3, Zenon
      <3>5. f = g /\ i = j
        BY <3>4, CountsApart
      <3> QED BY <3>2, <3>3, <3>5
    <2> QED BY <1>4, <2>2, <2>3 DEF Registered
  <1> QED BY <1>1, <1>3, <1>4

---------------------------------------------------------------------------
(* Layouts *)

LEMMA SameFields ==
    ASSUME NEW p
    PROVE  SignatureRead(p) = SignatureWritten(p)
  BY DEF SignatureRead, SignatureWritten, SmOffset

(* The layers of a signature follow each other. *)
LEMMA LayersInOrder ==
    ASSUME NEW base \in Nat, NEW size \in Nat, NEW i \in Nat, NEW j \in Nat
    PROVE  /\ base + i * size \in Nat /\ base + i * size >= base
           /\ base + (i + 1) * size = (base + i * size) + size
           /\ i < j => (base + i * size) + size <= base + j * size
  <1>1. i * size \in Nat /\ (i + 1) * size = i * size + size
    OBVIOUS
  <1>2. ASSUME i < j PROVE i * size + size <= j * size
    <2>1. PICK k \in Nat : j = i + 1 + k
      <3>1. j - i - 1 \in Nat /\ j = i + 1 + (j - i - 1)
        BY <1>2
      <3> QED BY <3>1
    <2>2. j * size = i * size + size + k * size /\ k * size \in Nat
      BY <2>1
    <2> QED BY <1>1, <2>2
  <1>3. j * size \in Nat
    OBVIOUS
  <1> DEFINE x == i * size
             y == j * size
  <1>4. base + (i + 1) * size = base + x + size
    BY <1>1
  <1>5. x \in Nat /\ y \in Nat /\ (i < j => x + size <= y)
    BY <1>1, <1>2, <1>3
  <1> HIDE DEF x, y
  <1>6. /\ base + x \in Nat /\ base + x >= base /\ base + x + size = (base + x) + size
        /\ i < j => (base + x) + size <= base + y
    BY <1>5
  <1> QED BY <1>4, <1>6 DEF x, y

(* A signature is filled by what the signer writes. *)
LEMMA SignatureFilled ==
    ASSUME NEW p, p.index_bytes \in Nat \ {0}, p.n \in Nat \ {0}, p.wots_sig_bytes \in Nat \ {0},
           p.tree_height * p.n \in Nat \ {0}, p.d \in Nat \ {0}
    PROVE  Fill(SignatureWritten(p), SmOffset(p, p.d))
  <1> DEFINE b == p.index_bytes
             n == p.n
             w == p.wots_sig_bytes
             a == p.tree_height * p.n
             d == p.d
             off(i) == SmOffset(p, i)
             I == Field("index", 0, 0, b)
             R == Field("R", 0, b, n)
             W(i) == Field("wots", i, off(i), w)
             A(i) == Field("auth", i, off(i) + w, a)
             F == SignatureWritten(p)
  <1>1. b \in Nat \ {0} /\ n \in Nat \ {0} /\ w \in Nat \ {0} /\ a \in Nat \ {0} /\ d \in Nat \ {0}
    OBVIOUS
  <1>2. /\ I \in F /\ R \in F /\ \A i \in 0..d-1 : W(i) \in F /\ A(i) \in F
        /\ \A f \in F : f = I \/ f = R \/ \E i \in 0..d-1 : f = W(i) \/ f = A(i)
    BY DEF SignatureWritten
  <1>3. /\ off(0) = b + n
        /\ \A i \in 0..d : off(i) \in Nat /\ off(i) >= b + n
        /\ \A i \in 0..d-1 : off(i + 1) = off(i) + w + a
        /\ \A i, j \in 0..d-1 : i < j => off(i) + w + a <= off(j)
    <2> DEFINE base == b + n
               size == w + a
    <2>1. \A i : off(i) = base + i * size
      BY DEF SmOffset
    <2>2. base \in Nat /\ size \in Nat /\ base + 0 * size = b + n
      BY <1>1
    <2>3. \A i \in 0..d : i \in Nat
      BY <1>1
    <2> HIDE DEF base, size, off
    <2>4. \A i \in 0..d : off(i) \in Nat /\ off(i) >= base
      BY <2>1, <2>2, <2>3, LayersInOrder
    <2>5. \A i \in 0..d-1 : off(i + 1) = off(i) + size
      BY <1>1, <2>1, <2>2, LayersInOrder
    <2>6. \A i, j \in 0..d-1 : i < j => off(i) + size <= off(j)
      BY <1>1, <2>1, <2>2, LayersInOrder
    <2>7. \A i \in 0..d-1 : off(i) \in Nat
      BY <1>1, <2>4
    <2>8. \A x \in Nat : x + size = x + w + a
      BY <1>1 DEF size
    <2> QED BY <2>1, <2>2, <2>4, <2>5, <2>6, <2>7, <2>8 DEF base
  <1>4. /\ I.from = 0 /\ I.to = b /\ R.from = b /\ R.to = b + n
        /\ \A i : W(i).from = off(i) /\ W(i).to = off(i) + w
        /\ \A i : A(i).from = off(i) + w /\ A(i).to = off(i) + w + a
    BY <1>1 DEF Field
  <1> HIDE DEF b, n, w, a, d, off, I, R, W, A, F
  <1>5. \A f \in F : f.from < f.to
    <2> SUFFICES ASSUME NEW f \in F PROVE f.from < f.to
      OBVIOUS
    <2>1. CASE f = I \/ f = R
      BY <1>1, <1>4, <2>1
    <2>2. CASE \E i \in 0..d-1 : f = W(i) \/ f = A(i)
      <3>1. PICK i \in 0..d-1 : f = W(i) \/ f = A(i)
        BY <2>2
      <3>2. off(i) \in Nat
        BY <1>1, <1>3
      <3> QED BY <1>1, <1>4, <3>1, <3>2
    <2> QED BY <1>2, <2>1, <2>2
  <1>6. \A f, g \in F : f.from = g.from => f = g
    <2>1. \A i \in 0..d-1 : off(i) \in Nat /\ off(i) >= b + n
      BY <1>1, <1>3
    <2>2. \A i, j \in 0..d-1 : W(i).from # A(j).from
      <3> SUFFICES ASSUME NEW i \in 0..d-1, NEW j \in 0..d-1 PROVE off(i) # off(j) + w
        BY <1>4
      <3>1. i < j \/ i = j \/ j < i
        BY <1>1
      <3> QED BY <1>1, <1>3, <2>1, <3>1
    <2>3. \A i, j \in 0..d-1 : (W(i).from = W(j).from \/ A(i).from = A(j).from) => i = j
      <3> SUFFICES ASSUME NEW i \in 0..d-1, NEW j \in 0..d-1,
                          off(i) = off(j) \/ off(i) + w = off(j) + w
                   PROVE  i = j
        BY <1>4
      <3>1. off(i) = off(j)
        BY <1>1, <2>1
      <3>2. i < j \/ i = j \/ j < i
        BY <1>1
      <3> QED BY <1>1, <1>3, <2>1, <3>1, <3>2
    <2>4. \A i \in 0..d-1 : /\ W(i).from \notin {0, b} /\ A(i).from \notin {0, b}
      BY <1>1, <1>4, <2>1
    <2>5. I.from # R.from /\ I.from = 0 /\ R.from = b
      BY <1>1, <1>4
    <2> SUFFICES ASSUME NEW f \in F, NEW g \in F, f.from = g.from PROVE f = g
      OBVIOUS
    <2>6. CASE f \in {I, R} /\ g \in {I, R}
      BY <2>5, <2>6
    <2>7. CASE f \in {I, R} /\ g \notin {I, R}
      BY <1>2, <2>4, <2>5, <2>7
    <2>8. CASE f \notin {I, R} /\ g \in {I, R}
      BY <1>2, <2>4, <2>5, <2>8
    <2>9. CASE f \notin {I, R} /\ g \notin {I, R}
      <3>1. PICK i \in 0..d-1 : f = W(i) \/ f = A(i)
        BY <1>2, <2>9
      <3>2. PICK j \in 0..d-1 : g = W(j) \/ g = A(j)
        BY <1>2, <2>9
      <3> QED BY <2>2, <2>3, <3>1, <3>2
    <2> QED BY <2>6, <2>7, <2>8, <2>9
  <1>7. \A f \in F : f.from = 0 \/ \E g \in F : g.to = f.from
    <2> SUFFICES ASSUME NEW f \in F PROVE f.from = 0 \/ \E g \in F : g.to = f.from
      OBVIOUS
    <2>1. CASE f = I
      BY <1>4, <2>1
    <2>2. CASE f = R
      BY <1>2, <1>4, <2>2
    <2>3. CASE \E i \in 0..d-1 : f = W(i)
      <3>1. PICK i \in 0..d-1 : f = W(i)
        BY <2>3
      <3>2. CASE i = 0
        BY <1>2, <1>3, <1>4, <3>1, <3>2
      <3>3. CASE i # 0
        <4>1. i - 1 \in 0..d-1 /\ (i - 1) + 1 = i
          BY <1>1, <3>3
        <4>2. A(i - 1) \in F /\ A(i - 1).to = off(i)
          BY <1>2, <1>3, <1>4, <4>1
        <4> QED BY <1>4, <3>1, <4>2
      <3> QED BY <3>2, <3>3
    <2>4. CASE \E i \in 0..d-1 : f = A(i)
      BY <1>2, <1>4, <2>4
    <2> QED BY <1>2, <2>1, <2>2, <2>3, <2>4
  <1>8. \A f \in F : f.to = off(d) \/ \E g \in F : g.from = f.to
    <2> SUFFICES ASSUME NEW f \in F PROVE f.to = off(d) \/ \E g \in F : g.from = f.to
      OBVIOUS
    <2>1. CASE f = I
      BY <1>2, <1>4, <2>1
    <2>2. CASE f = R
      <3>1. 0 \in 0..d-1
        BY <1>1
      <3>2. W(0) \in F /\ W(0).from = b + n
        BY <1>2, <1>3, <1>4, <3>1
      <3> QED BY <1>4, <2>2, <3>2
    <2>3. CASE \E i \in 0..d-1 : f = W(i)
      BY <1>2, <1>4, <2>3
    <2>4. CASE \E i \in 0..d-1 : f = A(i)
      <3>1. PICK i \in 0..d-1 : f = A(i)
        BY <2>4
      <3>2. f.to = off(i + 1)
        BY <1>3, <1>4, <3>1
      <3>3. CASE i + 1 = d
        BY <3>2, <3>3
      <3>4. CASE i + 1 # d
        <4>1. i + 1 \in 0..d-1
          BY <1>1, <3>4
        <4>2. W(i + 1) \in F /\ W(i + 1).from = off(i + 1)
          BY <1>2, <1>4, <4>1
        <4> QED BY <3>2, <4>2
      <3> QED BY <3>3, <3>4
    <2> QED BY <1>2, <2>1, <2>2, <2>3, <2>4
  <1>9. Fill(F, off(d))
    BY <1>5, <1>6, <1>7, <1>8 DEF Fill
  <1> QED BY <1>9 DEF F, off, d

(* Keys, and the seed they are made from. *)
LEMMA KeysFilled ==
    ASSUME NEW p, p.index_bytes \in Nat \ {0}, p.n \in Nat \ {0}
    PROVE  /\ Fill(SeedRead(p), 3 * p.n)
           /\ Fill(SecretKeyWritten(p), p.index_bytes + 4 * p.n)
           /\ Fill(PublicKeyWritten(p), 2 * p.n)
           /\ SecretKeySigns(p) = SecretKeyWritten(p)
           /\ SecretKeyDecoded(p) \subseteq SecretKeyWritten(p)
           /\ PublicKeyDerived(p) = PublicKeyWritten(p)
  <1> DEFINE b == p.index_bytes
             n == p.n
  <1>1. b \in Nat \ {0} /\ n \in Nat \ {0}
    OBVIOUS
  <1>2. /\ SeedRead(p) = {KeyField("SK_SEED", 0, n), KeyField("SK_PRF", n, n),
                          KeyField("PUB_SEED", 2 * n, n)}
        /\ SecretKeyWritten(p) =
             {KeyField("index", 0, b), KeyField("SK_SEED", b, n), KeyField("SK_PRF", b + n, n),
              KeyField("root", b + 2 * n, n), KeyField("PUB_SEED", b + 3 * n, n)}
        /\ PublicKeyWritten(p) = {KeyField("root", 0, n), KeyField("PUB_SEED", n, n)}
        /\ RootStart(p) = b + 2 * n
    BY DEF SeedRead, SecretKeyWritten, PublicKeyWritten, RootStart
  <1>3. SecretKeySigns(p) = SecretKeyWritten(p) /\ SecretKeyDecoded(p) \subseteq SecretKeyWritten(p)
    BY DEF SecretKeySigns, SecretKeyDecoded, SecretKeyWritten
  <1> HIDE DEF b, n
  <1>4. Fill(SeedRead(p), 3 * n)
    BY <1>1, <1>2 DEF Fill, KeyField, Field
  <1>5. Fill(PublicKeyWritten(p), 2 * n)
    BY <1>1, <1>2 DEF Fill, KeyField, Field
  <1>6. Fill(SecretKeyWritten(p), b + 4 * n)
    BY <1>1, <1>2 DEF Fill, KeyField, Field
  <1>7. PublicKeyDerived(p) = PublicKeyWritten(p)
    <2> DEFINE rs == RootStart(p)
               root == KeyField("root", b + 2 * n, n)
               seed == KeyField("PUB_SEED", b + 3 * n, n)
               Moved(f) == Field(f.name, f.layer, f.from - rs, f.to - f.from)
               Found == {g \in SecretKeyWritten(p) : g.from >= rs /\ g.to <= rs + 2 * n}
    <2>1. rs = b + 2 * n
      BY <1>2
    <2>2. PublicKeyDerived(p) = {Moved(f) : f \in Found}
      BY DEF PublicKeyDerived, n
    <2> HIDE DEF rs
    <2>3. Found = {root, seed}
      BY <1>1, <1>2, <2>1 DEF KeyField, Field
    <2>4. Moved(root) = KeyField("root", 0, n)
      <3>1. (b + 2 * n) - rs = 0 /\ ((b + 2 * n) + n) - (b + 2 * n) = n
        BY <1>1, <2>1
      <3>2. /\ root.name = "root" /\ root.layer = 0 /\ root.from = b + 2 * n
            /\ root.to = (b + 2 * n) + n
        BY DEF KeyField, Field
      <3> HIDE DEF root
      <3> QED BY <3>1, <3>2 DEF KeyField
    <2>5. Moved(seed) = KeyField("PUB_SEED", n, n)
      <3>1. (b + 3 * n) - rs = n /\ ((b + 3 * n) + n) - (b + 3 * n) = n
        BY <1>1, <2>1
      <3>2. /\ seed.name = "PUB_SEED" /\ seed.layer = 0 /\ seed.from = b + 3 * n
            /\ seed.to = (b + 3 * n) + n
        BY DEF KeyField, Field
      <3> HIDE DEF seed
      <3> QED BY <3>1, <3>2 DEF KeyField
    <2> HIDE DEF root, seed, Moved, Found
    <2> QED BY <1>2, <2>2, <2>3, <2>4, <2>5
  <1> QED BY <1>3, <1>4, <1>5, <1>6, <1>7 DEF b, n

(* Two or three fields that follow the padding of an input fill it. *)
LEMMA TwoFill ==
    ASSUME NEW f, NEW g, NEW h, f.from = 0, f.to \in Int, g.to \in Int, h.to \in Int,
           0 < f.to, f.to < g.to, g.to < h.to, g.from = f.to, h.from = g.to
    PROVE  Fill({g, h, f}, h.to)
  BY DEF Fill

LEMMA ThreeFill ==
    ASSUME NEW f, NEW g, NEW h, NEW k,
           f.from = 0, f.to \in Int, g.to \in Int, h.to \in Int, k.to \in Int,
           0 < f.to, f.to < g.to, g.to < h.to, h.to < k.to,
           g.from = f.to, h.from = g.to, k.from = h.to
    PROVE  Fill({g, h, k, f}, k.to)
  BY DEF Fill

(* The inputs of the hashes. *)
LEMMA InputsFilled ==
    ASSUME NEW p, p.n \in Nat \ {0}, p.padding_len \in Nat \ {0}
    PROVE  \A f \in HashFunctions : Fill(HashInput(p, f), BufLen(p)[f])
  <1> DEFINE n == p.n
             at == p.padding_len
             pad == Field("padding", 0, 0, at)
  <1>1. n \in Nat \ {0} /\ at \in Nat \ {0}
    OBVIOUS
  <1>2. HashFunctions = {"thash_f", "thash_h", "hash_message", "prf", "prf_keygen"}
    BY DEF HashFunctions, Padding
  <1>3. /\ HashInput(p, "thash_f") = {Field("key", 0, at, n), Field("masked", 0, at + n, n), pad}
        /\ HashInput(p, "thash_h") = {Field("key", 0, at, n), Field("masked", 0, at + n, 2 * n), pad}
        /\ HashInput(p, "hash_message") =
              {Field("R", 0, at, n), Field("root", 0, at + n, n), Field("index", 0, at + 2 * n, n), pad}
        /\ HashInput(p, "prf") = {Field("key", 0, at, n), Field("address", 0, at + n, 32), pad}
        /\ HashInput(p, "prf_keygen") =
              {Field("key", 0, at, n), Field("seed and address", 0, at + n, n + 32), pad}
    BY DEF HashInput, Written
  <1>4. /\ BufLen(p).thash_f = at + 2 * n /\ BufLen(p).thash_h = at + 3 * n
        /\ BufLen(p).hash_message = at + 3 * n /\ BufLen(p).prf = at + n + 32
        /\ BufLen(p).prf_keygen = at + 2 * n + 32
    BY DEF BufLen
  <1> HIDE DEF n, at
  <1> DEFINE After(name, from, length) == Field(name, 0, from, length)
  <1>5. ASSUME NEW g, NEW h, NEW x \in Nat \ {0}, NEW y \in Nat \ {0},
               g = After(g.name, at, x), h = After(h.name, at + x, y)
        PROVE  Fill({g, h, pad}, at + x + y)
    <2>1. /\ pad.from = 0 /\ pad.to = at /\ g.from = at /\ g.to = at + x
          /\ h.from = at + x /\ h.to = at + x + y
      BY <1>1, <1>5 DEF Field
    <2> HIDE DEF pad, After
    <2>2. /\ pad.to \in Int /\ g.to \in Int /\ h.to \in Int
          /\ 0 < pad.to /\ pad.to < g.to /\ g.to < h.to
          /\ g.from = pad.to /\ h.from = g.to
      BY <1>1, <2>1
    <2>3. Fill({g, h, pad}, h.to)
      BY <2>1, <2>2, TwoFill, Zenon
    <2> QED BY <2>1, <2>3
  <1>6. ASSUME NEW g, NEW h, NEW k, NEW x \in Nat \ {0}, NEW y \in Nat \ {0}, NEW z \in Nat \ {0},
               g = After(g.name, at, x), h = After(h.name, at + x, y),
               k = After(k.name, at + x + y, z)
        PROVE  Fill({g, h, k, pad}, at + x + y + z)
    <2>1. /\ pad.from = 0 /\ pad.to = at /\ g.from = at /\ g.to = at + x
          /\ h.from = at + x /\ h.to = at + x + y
          /\ k.from = at + x + y /\ k.to = at + x + y + z
      BY <1>1, <1>6 DEF Field
    <2> HIDE DEF pad, After
    <2>2. /\ pad.to \in Int /\ g.to \in Int /\ h.to \in Int /\ k.to \in Int
          /\ 0 < pad.to /\ pad.to < g.to /\ g.to < h.to /\ h.to < k.to
          /\ g.from = pad.to /\ h.from = g.to /\ k.from = h.to
      BY <1>1, <2>1
    <2>3. Fill({g, h, k, pad}, k.to)
      BY <2>1, <2>2, ThreeFill, Zenon
    <2> QED BY <2>1, <2>3
  <1>7. Fill(HashInput(p, "thash_f"), at + 2 * n)
    <2> DEFINE g == After("key", at, n)
               h == After("masked", at + n, n)
    <2>1. g.name = "key" /\ h.name = "masked"
      BY DEF Field
    <2>2. HashInput(p, "thash_f") = {g, h, pad}
      BY <1>3
    <2>3. n \in Nat \ {0} /\ at + n + n = at + 2 * n
      BY <1>1
    <2> HIDE DEF g, h, pad
    <2>4. Fill({g, h, pad}, at + n + n)
      <3>1. g = After(g.name, at, n) /\ h = After(h.name, at + n, n)
        BY <2>1 DEF g, h
      <3> HIDE DEF After
      <3> QED BY <1>1, <1>5, <2>3, <3>1
    <2> QED BY <2>2, <2>3, <2>4
  <1>8. Fill(HashInput(p, "thash_h"), at + 3 * n)
    <2> DEFINE g == After("key", at, n)
               h == After("masked", at + n, 2 * n)
    <2>1. g.name = "key" /\ h.name = "masked"
      BY DEF Field
    <2>2. HashInput(p, "thash_h") = {g, h, pad}
      BY <1>3
    <2>3. 2 * n \in Nat \ {0} /\ at + n + (2 * n) = at + 3 * n
      BY <1>1
    <2> HIDE DEF g, h, pad
    <2>4. Fill({g, h, pad}, at + n + (2 * n))
      <3>1. g = After(g.name, at, n) /\ h = After(h.name, at + n, 2 * n)
        BY <2>1 DEF g, h
      <3> HIDE DEF After
      <3> QED BY <1>1, <1>5, <2>3, <3>1
    <2> QED BY <2>2, <2>3, <2>4
  <1>9. Fill(HashInput(p, "hash_message"), at + 3 * n)
    <2> DEFINE g == After("R", at, n)
               h == After("root", at + n, n)
               k == After("index", at + n + n, n)
    <2>1. g.name = "R" /\ h.name = "root" /\ k.name = "index"
      BY DEF Field
    <2>2. at + 2 * n = at + n + n /\ at + n + n + n = at + 3 * n
      BY <1>1
    <2>3. HashInput(p, "hash_message") = {g, h, k, pad}
      BY <1>3, <2>2
    <2> HIDE DEF g, h, k, pad
    <2>4. Fill({g, h, k, pad}, at + n + n + n)
      <3>1. /\ g = After(g.name, at, n) /\ h = After(h.name, at + n, n)
            /\ k = After(k.name, at + n + n, n)
        BY <2>1 DEF g, h, k
      <3> HIDE DEF After
      <3> QED BY <1>1, <1>6, <3>1
    <2> QED BY <2>2, <2>3, <2>4
  <1>10. Fill(HashInput(p, "prf"), at + n + 32)
    <2> DEFINE g == After("key", at, n)
               h == After("address", at + n, 32)
    <2>1. g.name = "key" /\ h.name = "address"
      BY DEF Field
    <2>2. HashInput(p, "prf") = {g, h, pad}
      BY <1>3
    <2>3. 32 \in Nat \ {0} /\ at + n + 32 = at + n + 32
      BY <1>1
    <2> HIDE DEF g, h, pad
    <2>4. Fill({g, h, pad}, at + n + 32)
      <3>1. g = After(g.name, at, n) /\ h = After(h.name, at + n, 32)
        BY <2>1 DEF g, h
      <3> HIDE DEF After
      <3> QED BY <1>1, <1>5, <2>3, <3>1
    <2> QED BY <2>2, <2>3, <2>4
  <1>11. Fill(HashInput(p, "prf_keygen"), at + 2 * n + 32)
    <2> DEFINE g == After("key", at, n)
               h == After("seed and address", at + n, n + 32)
    <2>1. g.name = "key" /\ h.name = "seed and address"
      BY DEF Field
    <2>2. HashInput(p, "prf_keygen") = {g, h, pad}
      BY <1>3
    <2>3. n + 32 \in Nat \ {0} /\ at + n + (n + 32) = at + 2 * n + 32
      BY <1>1
    <2> HIDE DEF g, h, pad
    <2>4. Fill({g, h, pad}, at + n + (n + 32))
      <3>1. g = After(g.name, at, n) /\ h = After(h.name, at + n, n + 32)
        BY <2>1 DEF g, h
      <3> HIDE DEF After
      <3> QED BY <1>1, <1>5, <2>3, <3>1
    <2> QED BY <2>2, <2>3, <2>4
  <1> QED BY <1>2, <1>4, <1>7, <1>8, <1>9, <1>10, <1>11

---------------------------------------------------------------------------
(* What holds of every set, in every interface *)

LEMMA LayoutsFilled ==
    ASSUME NEW set \in ParameterSets
    PROVE  LET p == Named(set)
           IN /\ Fill(SignatureWritten(p), p.sig_bytes)
              /\ Fill(SeedRead(p), 3 * p.n)
              /\ Fill(SecretKeyWritten(p), p.sk_bytes)
              /\ SecretKeySigns(p) = SecretKeyWritten(p)
              /\ SecretKeyDecoded(p) \subseteq SecretKeyWritten(p)
              /\ Fill(PublicKeyWritten(p), p.pk_bytes)
              /\ PublicKeyDerived(p) = PublicKeyWritten(p)
  <1> DEFINE p == Named(set)
  <1>1. /\ p.n \in {24, 32, 64} /\ p.index_bytes \in {3, 4, 5, 8}
        /\ p.wots_sig_bytes \in Nat \ {0} /\ p.d \in Nat \ {0} /\ p.tree_height \in 1..24
        /\ p.tree_height * p.d = p.full_height
        /\ p.sig_bytes = p.index_bytes + p.n + p.d * p.wots_sig_bytes + p.full_height * p.n
        /\ p.pk_bytes = 2 * p.n /\ p.sk_bytes = p.index_bytes + 4 * p.n
    BY NamedFacts
  <1> HIDE DEF p
  <1>2. /\ p.n \in Nat \ {0} /\ p.index_bytes \in Nat \ {0} /\ p.tree_height \in Nat \ {0}
        /\ p.wots_sig_bytes \in Nat \ {0} /\ p.d \in Nat \ {0}
    BY <1>1
  <1>3. p.tree_height * p.n \in Nat \ {0}
    BY <1>1
  <1>4. SmOffset(p, p.d) = p.sig_bytes
    <2> DEFINE w == p.wots_sig_bytes
               t == p.tree_height
               n == p.n
               d == p.d
    <2>1. w \in Nat /\ t \in Nat /\ n \in Nat /\ d \in Nat
      BY <1>2
    <2>2. SmOffset(p, p.d) = p.index_bytes + n + d * (w + t * n)
      BY DEF SmOffset
    <2>3. p.sig_bytes = p.index_bytes + n + d * w + (t * d) * n
      BY <1>1
    <2> HIDE DEF w, t, n, d
    <2>4. d * (w + t * n) = d * w + (t * d) * n /\ d * w \in Nat /\ (t * d) * n \in Nat
      BY <2>1
    <2> QED BY <1>2, <2>1, <2>2, <2>3, <2>4
  <1>5. Fill(SignatureWritten(p), p.sig_bytes)
    BY <1>2, <1>3, <1>4, SignatureFilled
  <1> QED BY <1>1, <1>2, <1>5, KeysFilled DEF p

(* Field by field, what the calls ask of lengths. *)
LEMMA LengthsAre ==
    ASSUME NEW t \in Targets
    PROVE  /\ Layout[t].sk = 4 + Params[t].sk_bytes /\ Layout[t].array = Layout[t].sk
           /\ Layout[t].vk = 4 + Params[t].pk_bytes /\ Layout[t].sig = Params[t].sig_bytes
           /\ Layout[t].seed = 3 * Params[t].n
           /\ Layout[t].width = Params[t].n /\ Layout[t].width > 0
           /\ Params[t].sig_bytes \in Nat
  <1>1. Named(t.set).n \in {24, 32, 64} /\ Named(t.set).sig_bytes \in Nat
    BY TargetFacts, NamedFacts
  <1> DEFINE p == Named(t.set)
  <1>2. Params[t] = p
    BY ParamsAre
  <1>3. Layout[t] = [sk |-> 4 + p.sk_bytes, array |-> 4 + p.sk_bytes,
                     vk |-> 4 + p.pk_bytes, sig |-> p.sig_bytes, seed |-> 3 * p.n,
                     width |-> p.n]
    BY LayoutsAre, Zenon
  <1> HIDE DEF p
  <1>4. p.n > 0
    BY <1>1 DEF p
  <1> QED BY <1>1, <1>2, <1>3, <1>4 DEF p

LEMMA FunctionOf ==
    ASSUME NEW t \in Targets
    PROVE  /\ HashPointer(t.api, t.set, Params[t]) = <<Named(t.set).func, Named(t.set).n>>
           /\ <<Named(t.set).func, Named(t.set).n>> \in Supported
  <1> DEFINE set == t.set
             p == Named(t.set)
  <1>1. set.family \in 1..7 /\ set \in ParameterSets
    BY TargetFacts, SetFacts
  <1>2. p.func = FamilyFunc[set.family] /\ p.n = Families[set.family][2]
    BY <1>1, NamedFacts
  <1>3. \/ t.api = "typed" /\ set \in Registered
        \/ t.api = "boxed"
        \/ t.api = "family"
    BY TargetFacts
  <1>4. ASSUME set \in Registered
        PROVE  HashFunction(set) = p.func
    <2>1. HashFunction(set) = Pick(IF IsXmss(set) THEN XmssFunc ELSE MtFunc, RawOid(set))
      BY DEF HashFunction, XmssFunc, MtFunc
    <2>2. Initialize(set).func = HashFunction(set)
      BY <2>1 DEF Initialize
    <2> QED BY <1>4, <2>2, InitializeNamed
  <1>5. Params[t] = p
    BY ParamsAre
  <1>6. <<p.func, p.n>> \in Supported
    <2>1. <<FamilyFunc[set.family], Families[set.family][2]>> \in Supported
      BY <1>1 DEF FamilyFunc, Families, Supported
    <2> HIDE DEF p
    <2> QED BY <1>2, <2>1
  <1> HIDE DEF p, set
  <1>7. CASE t.api = "typed"
    <2>1. HashPointer("typed", set, p) = <<HashFunction(set), TypeWidth(set)>>
      BY DEF HashPointer
    <2>2. HashPointer("typed", set, p) = <<p.func, p.n>>
      BY <1>2, <1>3, <1>4, <1>7, <2>1 DEF TypeWidth
    <2> QED BY <1>5, <1>6, <1>7, <2>2 DEF p, set
  <1>8. CASE t.api = "family"
    <2>1. HashPointer("family", set, p) = <<FamilyFunc[set.family], TypeWidth(set)>>
      BY DEF HashPointer
    <2>2. HashPointer("family", set, p) = <<p.func, p.n>>
      BY <1>2, <2>1 DEF TypeWidth
    <2> QED BY <1>5, <1>6, <1>8, <2>2 DEF p, set
  <1>9. CASE t.api = "boxed"
    <2>1. HashPointer("boxed", set, p) = <<p.func, p.n>>
      BY DEF HashPointer
    <2> QED BY <1>5, <1>6, <1>9, <2>1 DEF p, set
  <1> QED BY <1>3, <1>7, <1>8, <1>9

---------------------------------------------------------------------------
(* The calls *)

Calls == {"none", "generate", "signing_key", "pkcs8", "verifying_key", "spki", "sign",
          "attached", "detached", "verify"}

(* What a call finds of those before it. *)
CallsInv ==
    /\ made \in Targets \cup {Nothing} /\ key \in Targets \cup {Nothing}
    /\ last.call \in Calls
    /\ last.call = "none" => last = NoCall /\ key = Nothing
    /\ last.call # "none" => made \in Targets /\ last.for \in Targets
    /\ last.call = "generate" => last.ok
    /\ key # Nothing => Oid[made] = Oid[key]
    /\ last.call \in {"verifying_key", "spki"} /\ last.ok => key # Nothing
    /\ last.call \in {"sign", "attached", "detached", "verify"} => key # Nothing
    /\ (last.call = "sign" /\ last.ok) \/ last.call \in {"attached", "detached", "verify"} =>
          sent.form \in Forms /\ sent.length \in Nat
    /\ (last.call \in {"attached", "detached"} /\ last.ok) \/ last.call = "verify" =>
          sig.form \in Forms /\ sig.for \in Targets

(* It is inductive with these only: what was decoded for another set has   *)
(* to be known for its kind when a signature is verified.                  *)
EncodingInv == CallsInv /\ OwnSetDecodes /\ DecodesApart /\ OnlyOwnSetVerifies

(* No call is for the target that stands for none. *)
LEMMA NotTargets == Nothing \notin Targets
  BY TargetFacts DEF Nothing

LEMMA GenerateStep ==
    ASSUME EncodingInv, Generate
    PROVE  EncodingInv'
  <1>1. PICK t \in Targets :
        LET ok == /\ Layout[t].seed = 3 * Params[t].n
                  /\ Layout[t].sk = Layout[t].array
                  /\ Layout[t].width > 0
        IN /\ Call("generate", t, ok)
           /\ made' = IF ok THEN t ELSE made
           /\ UNCHANGED <<key, sent, sig>>
    BY DEF Generate
  <1>2. /\ Layout[t].seed = 3 * Params[t].n
        /\ Layout[t].sk = Layout[t].array
        /\ Layout[t].width > 0
    BY LengthsAre
  <1>3. /\ last' = [call |-> "generate", for |-> t, ok |-> TRUE]
        /\ made' = t /\ key' = key
    BY <1>1, <1>2 DEF Call
  <1>4. key = Nothing
    BY DEF EncodingInv, CallsInv, Generate, NoCall
  <1>5. CallsInv'
    BY <1>3, <1>4 DEF CallsInv, Calls
  <1>6. OwnSetDecodes' /\ DecodesApart' /\ OnlyOwnSetVerifies'
    BY <1>3 DEF OwnSetDecodes, DecodesApart, OnlyOwnSetVerifies, Forms
  <1> QED BY <1>5, <1>6 DEF EncodingInv

(* A secret key as long as another set's is one of the same kind. *)
LEMMA SecretKeysApart ==
    ASSUME NEW a \in Targets, NEW b \in Targets, Layout[a].sk = Layout[b].sk
    PROVE  IsXmss(a.set) = IsXmss(b.set)
  <1>1. \A t \in Targets :
           /\ Layout[t].sk = 4 + (Named(t.set).index_bytes + 4 * Named(t.set).n)
           /\ Named(t.set).n \in {24, 32, 64}
           /\ Named(t.set).index_bytes \in {3, 4, 5, 8}
           /\ IsXmss(t.set) <=> Named(t.set).index_bytes = 4
    <2> TAKE t \in Targets
    <2>1. t.set \in ParameterSets
      BY TargetFacts
    <2>2. /\ Layout[t].sk = 4 + (Named(t.set).index_bytes + 4 * Named(t.set).n)
          /\ Named(t.set).n \in {24, 32, 64} /\ Named(t.set).index_bytes \in {3, 4, 5, 8}
      <3>1. /\ Named(t.set).sk_bytes = Named(t.set).index_bytes + 4 * Named(t.set).n
            /\ Named(t.set).n \in {24, 32, 64} /\ Named(t.set).index_bytes \in {3, 4, 5, 8}
        BY <2>1, NamedFacts
      <3> QED BY <3>1, LengthsAre, ParamsAre
    <2>3. IsXmss(t.set) <=> Named(t.set).index_bytes = 4
      <3>1. Named(t.set).index_bytes = XmssIndexBytes(t.set.h, t.set.d)
        BY <2>1, NamedFacts
      <3>2. \/ t.set.d = 1
            \/ t.set.d # 1 /\ t.set.h \in {20, 40, 60}
        BY <2>1, SetFacts
      <3> QED BY <3>1, <3>2 DEF XmssIndexBytes, CeilDiv, IsXmss
    <2> QED BY <2>2, <2>3
  <1> DEFINE i == Named(a.set).index_bytes
             j == Named(b.set).index_bytes
             m == Named(a.set).n
             n == Named(b.set).n
  <1>2. /\ i \in {3, 4, 5, 8} /\ j \in {3, 4, 5, 8} /\ m \in {24, 32, 64} /\ n \in {24, 32, 64}
        /\ 4 + (i + 4 * m) = 4 + (j + 4 * n)
        /\ IsXmss(a.set) <=> i = 4
        /\ IsXmss(b.set) <=> j = 4
    BY <1>1
  <1> HIDE DEF i, j, m, n
  <1>3. i = j
    BY <1>2
  <1> QED BY <1>2, <1>3 DEF IsXmss

(* The algorithm of a document is that of the kind. *)
LEMMA AlgorithmsApart ==
    ASSUME NEW a, NEW b, AlgorithmOid(a) = AlgorithmOid(b)
    PROVE  IsXmss(a.set) = IsXmss(b.set)
  BY DEF AlgorithmOid, IsXmss

(* Two targets of one set have everything in common but the interface. *)
LEMMA SameSet ==
    ASSUME NEW a \in Targets, NEW b \in Targets, a.set = b.set
    PROVE  /\ Oid[a] = Oid[b] /\ Layout[a] = Layout[b] /\ Params[a] = Params[b]
           /\ AlgorithmOid(a) = AlgorithmOid(b)
           /\ FieldsRead[a] = FieldsWritten[b]
           /\ HashPointer(a.api, a.set, Params[a]) = HashPointer(b.api, b.set, Params[b])
  <1>1. Oid[a] = Oid[b]
    <2>1. a.set \in Registered \/ a.set \in Extra
      BY TargetFacts DEF ParameterSets
    <2> QED BY <2>1, OidOfRegistered, OidOfExtra
  <1>2. Layout[a] = Layout[b] /\ Params[a] = Params[b]
    BY LayoutsAre, ParamsAre
  <1>3. FieldsRead[a] = FieldsWritten[b]
    BY <1>2, SameFields DEF FieldsRead, FieldsWritten
  <1>4. HashPointer(a.api, a.set, Params[a]) = HashPointer(b.api, b.set, Params[b])
    BY FunctionOf
  <1> QED BY <1>1, <1>2, <1>3, <1>4 DEF AlgorithmOid

LEMMA DecodeSigningKeyStep ==
    ASSUME EncodingInv, DecodeSigningKey
    PROVE  EncodingInv'
  <1>1. /\ last.call = "generate" /\ made \in Targets
        /\ key \in Targets \cup {Nothing}
        /\ key # Nothing => Oid[made] = Oid[key]
    BY DEF EncodingInv, CallsInv, DecodeSigningKey, Generated
  <1>2. PICK t \in Targets, via \in {"signing_key", "pkcs8"} :
        /\ Call(via, t, /\ via = "pkcs8" => /\ AlgorithmOid(made) = AlgorithmOid(t)
                                           /\ Layout[made].vk = Layout[t].vk
                        /\ Oid[made] = Oid[t]
                        /\ Layout[made].sk = Layout[t].sk
                        /\ Layout[made].sk = Layout[t].array
                        /\ Layout[t].width > 0)
        /\ UNCHANGED <<made, key, sent, sig>>
    BY DEF DecodeSigningKey
  <1>3. /\ last'.call = via /\ last'.for = t
        /\ made' = made /\ key' = key /\ sent' = sent /\ sig' = sig
    BY <1>2 DEF Call
  <1>4. last'.ok => Oid[made] = Oid[t] /\ Layout[made].sk = Layout[t].sk
    BY <1>2 DEF Call
  <1>5. last'.ok => t.set = made.set
    BY <1>1, <1>4, SecretKeysApart, OidsApart
  <1>6. ASSUME t.set = made.set
        PROVE  last'.ok
    <2>1. /\ Oid[made] = Oid[t] /\ Layout[made] = Layout[t]
          /\ AlgorithmOid(made) = AlgorithmOid(t)
      BY <1>1, <1>6, SameSet
    <2>2. Layout[t].array = Layout[t].sk /\ Layout[t].width > 0
      BY LengthsAre
    <2> QED BY <1>2, <2>1, <2>2 DEF Call
  <1>7. CallsInv'
    <2>1. /\ via \in Calls /\ via # "none" /\ via # "generate" /\ via # "sign"
          /\ via \notin {"verifying_key", "spki"}
          /\ via \notin {"sign", "attached", "detached", "verify"}
      BY DEF Calls
    <2>2. made' \in Targets /\ key' \in Targets \cup {Nothing} /\ last'.for \in Targets
      BY <1>1, <1>3
    <2>3. key' # Nothing => Oid[made'] = Oid[key']
      BY <1>1, <1>3
    <2>4. last'.call = via
      BY <1>3
    <2> QED BY <2>1, <2>2, <2>3, <2>4 DEF CallsInv, Calls
  <1>8. OwnSetDecodes' /\ DecodesApart' /\ OnlyOwnSetVerifies'
    BY <1>3, <1>5, <1>6 DEF OwnSetDecodes, DecodesApart, OnlyOwnSetVerifies, Forms
  <1> QED BY <1>7, <1>8 DEF EncodingInv

LEMMA DecodeVerifyingKeyStep ==
    ASSUME EncodingInv, DecodeVerifyingKey
    PROVE  EncodingInv'
  <1>1. /\ last.call = "generate" /\ made \in Targets
        /\ key \in Targets \cup {Nothing}
        /\ key # Nothing => Oid[made] = Oid[key]
    BY DEF EncodingInv, CallsInv, DecodeVerifyingKey, Generated
  <1>2. PICK t \in Targets, via \in {"verifying_key", "spki"} :
        LET ok == /\ via = "spki" => AlgorithmOid(made) = AlgorithmOid(t)
                  /\ Oid[made] = Oid[t]
                  /\ Layout[made].vk = Layout[t].vk
        IN /\ via = "spki" => Wrapped(t)
           /\ Call(via, t, ok)
           /\ key' = IF ok THEN t ELSE key
           /\ UNCHANGED <<made, sent, sig>>
    BY DEF DecodeVerifyingKey
  <1>3. /\ last'.call = via /\ last'.for = t /\ last'.ok \in BOOLEAN
        /\ key' = IF last'.ok THEN t ELSE key
        /\ made' = made /\ sent' = sent /\ sig' = sig
    BY <1>2 DEF Call
  <1>4. /\ last'.ok => Oid[made] = Oid[t]
        /\ last'.ok /\ via = "spki" => AlgorithmOid(made) = AlgorithmOid(t)
    BY <1>2 DEF Call
  <1>5. ASSUME last'.ok, ~(t.set = made.set)
        PROVE  /\ via = "verifying_key" /\ IsXmss(t.set) # IsXmss(made.set)
               /\ Oid[t] = Oid[made]
    <2>1. IsXmss(t.set) # IsXmss(made.set)
      BY <1>1, <1>4, <1>5, OidsApart
    <2>2. via # "spki"
      BY <1>4, <1>5, <2>1, AlgorithmsApart
    <2> QED BY <1>4, <1>5, <2>1, <2>2
  <1>6. ASSUME t.set = made.set
        PROVE  last'.ok
    <2>1. /\ Oid[made] = Oid[t] /\ Layout[made] = Layout[t]
          /\ AlgorithmOid(made) = AlgorithmOid(t)
      BY <1>1, <1>6, SameSet
    <2> QED BY <1>2, <2>1 DEF Call
  <1>7. CallsInv'
    <2>1. /\ via \in Calls /\ via # "none" /\ via # "generate" /\ via # "sign"
          /\ via \notin {"sign", "attached", "detached", "verify"}
      BY DEF Calls
    <2>2. /\ key' \in Targets \cup {Nothing}
          /\ key' # Nothing => Oid[made] = Oid[key']
          /\ last'.ok => key' # Nothing
      BY <1>1, <1>3, <1>4, NotTargets
    <2>3. made' = made /\ made \in Targets /\ last'.for \in Targets /\ last'.call = via
      BY <1>1, <1>3
    <2> QED BY <2>1, <2>2, <2>3 DEF CallsInv, Calls
  <1>8. OwnSetDecodes' /\ DecodesApart' /\ OnlyOwnSetVerifies'
    BY <1>3, <1>4, <1>5, <1>6 DEF OwnSetDecodes, DecodesApart, OnlyOwnSetVerifies, Forms
  <1> QED BY <1>7, <1>8 DEF EncodingInv

LEMMA SignStep ==
    ASSUME EncodingInv, Sign
    PROVE  EncodingInv'
  <1>1. /\ made \in Targets /\ key \in Targets /\ key # Nothing /\ Oid[made] = Oid[key]
    BY DEF EncodingInv, CallsInv, Sign
  <1>2. PICK form \in Forms, length \in MessageLengths :
        LET ok == Layout[made].width = Params[made].n
        IN /\ Call("sign", made, ok)
           /\ sent' = IF ok THEN [form |-> form, length |-> length] ELSE sent
           /\ UNCHANGED <<made, key, sig>>
    BY DEF Sign
  <1>3. Layout[made].width = Params[made].n /\ length \in Nat
    BY <1>1, LengthsAre, MessageAssumption
  <1>4. /\ last' = [call |-> "sign", for |-> made, ok |-> TRUE]
        /\ sent' = [form |-> form, length |-> length]
        /\ made' = made /\ key' = key /\ sig' = sig
    BY <1>2, <1>3 DEF Call
  <1>5. CallsInv'
    BY <1>1, <1>3, <1>4 DEF CallsInv, Calls
  <1>6. OwnSetDecodes' /\ DecodesApart' /\ OnlyOwnSetVerifies'
    BY <1>4 DEF OwnSetDecodes, DecodesApart, OnlyOwnSetVerifies, Forms
  <1> QED BY <1>5, <1>6 DEF EncodingInv

LEMMA DecodeSignatureStep ==
    ASSUME EncodingInv, DecodeSignature
    PROVE  EncodingInv'
  <1>1. /\ made \in Targets /\ key \in Targets /\ key # Nothing /\ Oid[made] = Oid[key]
        /\ sent.form \in Forms /\ sent.length \in Nat
    BY DEF EncodingInv, CallsInv, DecodeSignature
  <1>2. PICK t \in Targets, form \in Forms :
        LET ok == CASE form = "detached" -> SentLength = Layout[t].sig
                    [] form = "attached" /\ t.api = "boxed" -> SentLength >= Layout[t].sig
                    [] OTHER -> TRUE
        IN /\ IF key.api = "boxed" THEN t.api = "boxed" ELSE t = key
           /\ Call(form, t, ok)
           /\ sig' = IF ok THEN [form |-> form, for |-> t] ELSE sig
           /\ UNCHANGED <<made, key, sent>>
    BY DEF DecodeSignature
  <1>3. /\ last'.call = form /\ last'.for = t /\ form \in {"attached", "detached"}
        /\ last'.ok => sig' = [form |-> form, for |-> t]
        /\ made' = made /\ key' = key /\ sent' = sent
    BY <1>2 DEF Call, Forms
  <1>4. ASSUME t.set = made.set, form = sent.form \/ sent.length = 0
        PROVE  last'.ok
    <2>1. Layout[t].sig = Params[made].sig_bytes /\ Params[made].sig_bytes \in Nat
      BY <1>1, <1>4, SameSet, LengthsAre
    <2>2. CASE form = "detached"
      <3>1. SentLength = Params[made].sig_bytes
        BY <1>1, <1>4, <2>1, <2>2 DEF SentLength
      <3> QED BY <1>2, <2>1, <2>2, <3>1 DEF Call
    <2>3. CASE form = "attached"
      <3>1. SentLength >= Layout[t].sig
        BY <1>1, <2>1 DEF SentLength
      <3> QED BY <1>2, <2>3, <3>1 DEF Call
    <2> QED BY <1>3, <2>2, <2>3
  <1>5. CallsInv'
    BY <1>1, <1>3 DEF CallsInv, Calls, Forms
  <1>6. OwnSetDecodes' /\ DecodesApart' /\ OnlyOwnSetVerifies'
    BY <1>3, <1>4 DEF OwnSetDecodes, DecodesApart, OnlyOwnSetVerifies, Forms
  <1> QED BY <1>5, <1>6 DEF EncodingInv

(* Signatures of the two kinds have their fields in different places: only *)
(* those of XMSS^MT have a second layer.                                   *)
LEMMA FieldsApart ==
    ASSUME NEW a \in Targets, NEW b \in Targets, FieldsRead[a] = FieldsWritten[b]
    PROVE  IsXmss(a.set) = IsXmss(b.set)
  <1>1. \A t \in Targets : Params[t].d = t.set.d /\ t.set.d \in Nat \ {0}
    <2> TAKE t \in Targets
    <2>1. Named(t.set).d = t.set.d /\ Named(t.set).d \in Nat \ {0}
      BY TargetFacts, NamedFacts
    <2> QED BY <2>1, ParamsAre
  <1>2. \A t \in Targets :
           /\ FieldsRead[t] = SignatureWritten(Params[t])
           /\ FieldsWritten[t] = SignatureWritten(Params[t])
    BY SameFields DEF FieldsRead, FieldsWritten
  <1> DEFINE Second(p) == \E f \in SignatureWritten(p) : f.name = "wots" /\ f.layer = 1
  <1>3. ASSUME NEW p, p.d \in Nat \ {0}
        PROVE  Second(p) <=> p.d # 1
    <2>1. CASE p.d = 1
      <3>1. \A i \in 0..p.d-1 : i = 0
        BY <2>1
      <3>2. \A f \in SignatureWritten(p) : f.layer = 0
        BY <3>1 DEF SignatureWritten, Field
      <3> QED BY <2>1, <3>2
    <2>2. CASE p.d # 1
      <3>1. 1 \in 0..p.d-1
        BY <1>3, <2>2
      <3>2. Field("wots", 1, SmOffset(p, 1), p.wots_sig_bytes) \in SignatureWritten(p)
        BY <3>1 DEF SignatureWritten
      <3> QED BY <2>2, <3>2 DEF Field
    <2> QED BY <2>1, <2>2
  <1> HIDE DEF Second
  <1>4. Second(Params[a]) <=> Second(Params[b])
    <2>1. SignatureWritten(Params[a]) = SignatureWritten(Params[b])
      BY <1>2
    <2> QED BY <2>1 DEF Second
  <1>5. (Second(Params[a]) <=> a.set.d # 1) /\ (Second(Params[b]) <=> b.set.d # 1)
    BY <1>1, <1>3
  <1> QED BY <1>4, <1>5 DEF IsXmss

LEMMA VerifyStep ==
    ASSUME EncodingInv, Verify
    PROVE  EncodingInv'
  <1>1. /\ made \in Targets /\ key \in Targets /\ key # Nothing /\ Oid[made] = Oid[key]
        /\ sent.form \in Forms /\ sent.length \in Nat
        /\ sig.form \in Forms /\ sig.for \in Targets
    BY DEF EncodingInv, CallsInv, Verify, Forms
  <1>2. /\ last' = [call |-> "verify", for |-> key,
                    ok |-> key.set = sig.for.set /\ LengthFits /\ HashesAgree]
        /\ made' = made /\ key' = key /\ sent' = sent /\ sig' = sig
    BY DEF Verify, Call
  <1>3. sent.form \in {"attached", "detached"} /\ sig.form \in {"attached", "detached"}
    BY <1>1 DEF Forms
  <1>4. ASSUME key.set = made.set
        PROVE  Params[key] = Params[made] /\ Params[made].sig_bytes \in Nat
    BY <1>1, <1>4, SameSet, LengthsAre
  <1>5. ASSUME key.set = made.set, sig.for.set = made.set,
               sig.form = sent.form \/ sent.length = 0
        PROVE  last'.ok
    <2>1. LengthFits
      BY <1>1, <1>3, <1>4, <1>5 DEF LengthFits, SentLength
    <2>2. HashesAgree
      BY <1>1, <1>4, <1>5, SameSet DEF HashesAgree
    <2> QED BY <1>2, <1>5, <2>1, <2>2
  <1>6. ASSUME last'.ok
        PROVE  /\ key.set = made.set /\ sig.for.set = made.set
               /\ sig.form = sent.form \/ sent.length = 0
    <2>1. key.set = sig.for.set /\ LengthFits /\ HashesAgree
      BY <1>2, <1>6
    <2>2. key.set = made.set
      <3>1. FieldsRead[key] = FieldsWritten[made]
        BY <2>1 DEF HashesAgree
      <3> QED BY <1>1, <3>1, FieldsApart, OidsApart
    <2>3. sig.form = sent.form \/ sent.length = 0
      <3>1. CASE sig.form = "attached"
        BY <2>1, <3>1 DEF HashesAgree
      <3>2. CASE sig.form = "detached" /\ sent.form = "attached"
        <4> DEFINE s == Params[made].sig_bytes
        <4>1. s + sent.length = s
          BY <1>4, <2>1, <2>2, <3>2 DEF LengthFits, SentLength
        <4>2. s \in Nat
          BY <1>4, <2>2
        <4> HIDE DEF s
        <4> QED BY <1>1, <4>1, <4>2
      <3> QED BY <1>3, <3>1, <3>2
    <2> QED BY <2>1, <2>2, <2>3
  <1>7. CallsInv'
    BY <1>1, <1>2 DEF CallsInv, Calls
  <1>8. OwnSetDecodes' /\ DecodesApart' /\ OnlyOwnSetVerifies'
    BY <1>2, <1>5, <1>6 DEF OwnSetDecodes, DecodesApart, OnlyOwnSetVerifies, Forms
  <1> QED BY <1>7, <1>8 DEF EncodingInv

LEMMA EncodingStep ==
    ASSUME EncodingInv, [Next]_vars
    PROVE  EncodingInv'
  <1>1. CASE UNCHANGED vars
    BY <1>1 DEF vars, EncodingInv, CallsInv, OwnSetDecodes, DecodesApart, OnlyOwnSetVerifies
  <1> QED BY <1>1, GenerateStep, DecodeSigningKeyStep, DecodeVerifyingKeyStep, SignStep,
             DecodeSignatureStep, VerifyStep DEF Next

LEMMA EncodingInit == Init => EncodingInv
  BY DEF Init, EncodingInv, CallsInv, Calls, NoCall, OwnSetDecodes, DecodesApart,
         OnlyOwnSetVerifies, Forms

LEMMA EncodingAlways == Spec => []EncodingInv
  <1>1. EncodingInv /\ [Next]_vars => EncodingInv'
    BY EncodingStep
  <1> QED BY <1>1, EncodingInit, PTL DEF Spec

---------------------------------------------------------------------------
(* Theorems *)

(* What LayoutsAgree, HashInputsApart and ParamsRight say of a target.     *)
LEMMA BuffersSuffice ==
    ASSUME NEW t \in Targets
    PROVE  /\ \A f \in HashFunctions : /\ Fill(HashInput(Params[t], f), BufLen(Params[t])[f])
                                       /\ BufLen(Params[t])[f] <= Storage[f]
           /\ \A b \in StackBuffers(Params[t]) : b[2] <= b[1]
  <1> DEFINE p == Named(t.set)
  <1>1. /\ p.n \in {24, 32, 64} /\ p.padding_len \in {4, 32, 64}
        /\ p.padding_len <= p.n /\ p.wots_len = 2 * p.n + 3
    BY TargetFacts, NamedFacts
  <1>2. Params[t] = p
    BY ParamsAre
  <1> HIDE DEF p
  <1>3. \A f \in HashFunctions : Fill(HashInput(p, f), BufLen(p)[f])
    BY <1>1, InputsFilled
  <1>4. \A f \in HashFunctions : BufLen(p)[f] <= Storage[f]
    BY <1>1 DEF HashFunctions, Padding, BufLen, Storage, MAX_N
  <1>5. \A b \in StackBuffers(p) : b[2] <= b[1]
    BY <1>1 DEF StackBuffers, MAX_N
  <1> QED BY <1>2, <1>3, <1>4, <1>5

(* Of each target, what its name says. *)
LEMMA NameSays ==
    ASSUME NEW t \in Targets
    PROVE  LET p    == Params[t]
               name == Families[t.set.family]
           IN /\ p.n = name[2] /\ p.full_height = t.set.h /\ p.d = t.set.d
              /\ DigestOutputSize(p) = p.n
              /\ p.func = IF name = <<"SHAKE", 32>> THEN "SHAKE128"
                          ELSE IF name[1] = "SHA2" THEN "SHA2" ELSE "SHAKE256"
              /\ p.full_height <= 8 * p.index_bytes
              /\ p.tree_height * p.d = p.full_height /\ p.tree_height < 32
  <1> DEFINE p    == Named(t.set)
             name == Families[t.set.family]
  <1>1. /\ p.n = name[2] /\ p.n \in {24, 32, 64} /\ p.full_height = t.set.h
        /\ p.d = t.set.d /\ p.func = FamilyFunc[t.set.family]
        /\ p.full_height <= 8 * p.index_bytes
        /\ p.tree_height * p.d = p.full_height /\ p.tree_height \in 1..24
    BY TargetFacts, NamedFacts
  <1>2. t.set.family \in 1..7
    BY TargetFacts, SetFacts
  <1>3. Params[t] = p
    BY ParamsAre
  <1> HIDE DEF p
  <1>4. FamilyFunc[t.set.family] = IF name = <<"SHAKE", 32>> THEN "SHAKE128"
                                   ELSE IF name[1] = "SHA2" THEN "SHA2" ELSE "SHAKE256"
    BY <1>2 DEF Families, FamilyFunc
  <1>5. DigestOutputSize(p) = p.n /\ p.tree_height < 32
    BY <1>1 DEF DigestOutputSize
  <1> QED BY <1>1, <1>3, <1>4, <1>5

(* The target of a call is one. *)
LEMMA CallsTargets ==
    ASSUME EncodingInv, last.call = "generate"
    PROVE  last.ok /\ last.for \in Targets
  BY DEF EncodingInv, CallsInv

(* Whatever extra depths are compiled in: every set's parameters are what  *)
(* its name says, whichever of XmssOid::initialize, generic_xmss_params    *)
(* and the lookup by name they come from; the lengths the macros compute   *)
(* are those the core fills, and indices and leaves fit their widths.      *)
THEOREM ParametersRight == Spec => []ParamsRight
  <1>1. EncodingInv => ParamsRight
    <2> SUFFICES ASSUME EncodingInv, last.call = "generate" PROVE ParamsRight
      BY DEF ParamsRight
    <2>1. last.ok /\ last.for \in Targets
      BY CallsTargets
    <2> QED BY <2>1, NameSays, LengthsAre DEF ParamsRight
  <1> QED BY <1>1, EncodingAlways, PTL

(* Whatever extra depths are compiled in: signer, verifier, key            *)
(* generation, the decoders and the derivation of the public key agree on  *)
(* where every field is, and fill signatures and keys to the last byte.    *)
THEOREM LayoutsRight == Spec => []LayoutsAgree
  <1>1. EncodingInv => LayoutsAgree
    <2> SUFFICES ASSUME EncodingInv, last.call = "generate" PROVE LayoutsAgree
      BY DEF LayoutsAgree
    <2>1. last.for \in Targets
      BY CallsTargets
    <2> DEFINE p == Params[last.for]
    <2>2. p = Named(last.for.set) /\ last.for.set \in ParameterSets
      BY <2>1, ParamsAre, TargetFacts
    <2>3. /\ Fill(SignatureWritten(p), p.sig_bytes)
          /\ Fill(SeedRead(p), 3 * p.n)
          /\ Fill(SecretKeyWritten(p), p.sk_bytes)
          /\ SecretKeySigns(p) = SecretKeyWritten(p)
          /\ SecretKeyDecoded(p) \subseteq SecretKeyWritten(p)
          /\ Fill(PublicKeyWritten(p), p.pk_bytes)
          /\ PublicKeyDerived(p) = PublicKeyWritten(p)
      BY <2>2, LayoutsFilled
    <2>4. Layout[last.for].seed = 3 * p.n
      BY <2>1, LengthsAre
    <2> QED BY <2>3, <2>4, SameFields DEF LayoutsAgree
  <1> QED BY <1>1, EncodingAlways, PTL

(* Every input of a hash is filled, fits its buffer on the stack, and      *)
(* begins with the number of its function.                                 *)
THEOREM InputsApart == Spec => []HashInputsApart
  <1>1. EncodingInv => HashInputsApart
    <2> SUFFICES ASSUME EncodingInv, last.call = "generate" PROVE HashInputsApart
      BY DEF HashInputsApart
    <2>1. last.for \in Targets
      BY CallsTargets
    <2>2. \A f, g \in HashFunctions : Padding[f] = Padding[g] => f = g
      BY DEF HashFunctions, Padding
    <2> QED BY <2>1, <2>2, BuffersSuffice DEF HashInputsApart
  <1> QED BY <1>1, EncodingAlways, PTL

(* Messages are hashed with the function the trees are, in each of the     *)
(* three interfaces.                                                       *)
THEOREM FunctionsAgree == Spec => []OneHashFunction
  <1>1. EncodingInv => OneHashFunction
    <2> SUFFICES ASSUME EncodingInv, last.call = "generate" PROVE OneHashFunction
      BY DEF OneHashFunction
    <2>1. last.for \in Targets
      BY CallsTargets
    <2> QED BY <2>1, FunctionOf, ParamsAre DEF OneHashFunction, MessageHash
  <1> QED BY <1>1, EncodingAlways, PTL

(* What any interface encodes, every interface that has the set decodes    *)
(* and verifies, for messages of every length.                             *)
THEOREM FormatsShared == Spec => []OwnSetDecodes
  BY EncodingAlways, PTL DEF EncodingInv

(* A decoded key is one of the set it was decoded for, but for a bare      *)
(* public key of the other kind.                                           *)
THEOREM KindsApart == Spec => []DecodesApart
  BY EncodingAlways, PTL DEF EncodingInv

(* Even so, what is verified was signed by a key of that set and in that   *)
(* form, for messages of every length: the fields of the two kinds are in  *)
(* different places, and two sets of a kind have different identifiers.    *)
THEOREM VerifiedIsOwn == Spec => []OnlyOwnSetVerifies
  BY EncodingAlways, PTL DEF EncodingInv
=============================================================================
