--------------------------- MODULE ParameterSets ----------------------------
(***************************************************************************)
(* The parameter sets and the tables behind them.  A set is named by       *)
(* family, height and layers; everything else about it is looked up, three *)
(* times over: a type of its own computes lengths at compile time and      *)
(* looks parameters up by identifier, the type of a family builds its      *)
(* parameters directly, and the boxed interface takes lengths from the     *)
(* parameters at run time.                                                 *)
(*                                                                         *)
(* The names and identifiers are in the same order throughout, and were    *)
(* compared with the source entry by entry.                                *)
(***************************************************************************)
EXTENDS Integers, Sequences

CONSTANT ExtraHeights  \* heights the extra-depths feature adds

ASSUME ExtraHeightsAssumption == ExtraHeights \subseteq (1..24 \ {10, 16, 20})

(* The hash a name says, and the bytes n of its output. *)
Families ==
    << <<"SHA2", 32>>, <<"SHA2", 64>>, <<"SHAKE", 32>>, <<"SHAKE", 64>>,
       <<"SHA2", 24>>, <<"SHAKE256", 32>>, <<"SHAKE256", 24>> >>

Shapes   == << <<10, 1>>, <<16, 1>>, <<20, 1>> >>
MtShapes == << <<20, 2>>, <<20, 4>>, <<40, 2>>, <<40, 4>>, <<40, 8>>,
               <<60, 3>>, <<60, 6>>, <<60, 12>> >>

Set(family, shape) ==
    [family |-> family, h |-> shape[1], d |-> shape[2]]

IsXmss(set)   == set.d = 1
Standard      == {Set(f, Shapes[i]) : f \in DOMAIN Families, i \in DOMAIN Shapes}
Multi         == {Set(f, MtShapes[i]) : f \in DOMAIN Families, i \in DOMAIN MtShapes}
Extra         == {Set(f, <<h, 1>>) : f \in DOMAIN Families, h \in ExtraHeights}
Registered    == Standard \cup Multi
ParameterSets == Registered \cup Extra

(* The discriminants of XmssOid, XMSSMT_OID_OFFSET taken off: XMSS and     *)
(* XMSS^MT count from 1 each.                                              *)
RawOid(set) ==
    LET shapes == IF IsXmss(set) THEN Shapes ELSE MtShapes
        place  == CHOOSE i \in DOMAIN shapes : shapes[i] = <<set.h, set.d>>
    IN (set.family - 1) * Len(shapes) + place

(* Display, and the NAME of each type: XMSS-SHA2_10_256 or                 *)
(* XMSSMT-SHAKE256_40/8_192, in its parts                                  *)
NameOf(set) ==
    [scheme |-> IF IsXmss(set) THEN "XMSS" ELSE "XMSSMT", hash |-> Families[set.family][1],
     height |-> set.h, layers |-> set.d, bits |-> 8 * Families[set.family][2]]

(* FromStr: a set for the boxed interface is chosen by its name.           *)
FromName(name) == CHOOSE set \in Registered : NameOf(set) = name

(* tree_depth_oid, as two halves of a u32: extra depths use 0xff | family  *)
(* | 0x00 | height                                                         *)
TreeDepthOid(family, h) ==
    IF h \in {10, 16, 20}
    THEN <<0, (family - 1) * 3 + (CASE h = 10 -> 1 [] h = 16 -> 2 [] h = 20 -> 3)>>
    ELSE <<65280 + family, h>>

---------------------------------------------------------------------------
(* XmssOid::initialize: one range of identifiers for each value *)

Pick(table, raw) == (CHOOSE row \in table : raw \in row[2])[1]

XmssFunc == { <<"SHA2",     1..6 \cup 13..15>>,
              <<"SHAKE128", 7..9>>,
              <<"SHAKE256", 10..12 \cup 16..21>> }
(* n and padding_len *)
XmssN    == { <<<<24, 4>>,  13..15 \cup 19..21>>,
              <<<<32, 32>>, 1..3 \cup 7..9 \cup 16..18>>,
              <<<<64, 64>>, 4..6 \cup 10..12>> }
XmssHeight == { <<10, {1, 4, 7, 10, 13, 16, 19}>>,
                <<16, {2, 5, 8, 11, 14, 17, 20}>>,
                <<20, {3, 6, 9, 12, 15, 18, 21}>> }

MtFunc == { <<"SHA2",     1..16 \cup 33..40>>,
            <<"SHAKE128", 17..24>>,
            <<"SHAKE256", 25..32 \cup 41..56>> }
MtN    == { <<<<24, 4>>,  33..40 \cup 49..56>>,
            <<<<32, 32>>, 1..8 \cup 17..24 \cup 41..48>>,
            <<<<64, 64>>, 9..16 \cup 25..32>> }
MtHeight == { <<20, {1, 2, 9, 10, 17, 18, 25, 26, 33, 34, 41, 42, 49, 50}>>,
              <<40, {3, 4, 5, 11, 12, 13, 19, 20, 21, 27, 28, 29, 35, 36, 37,
                     43, 44, 45, 51, 52, 53}>>,
              <<60, {6, 7, 8, 14, 15, 16, 22, 23, 24, 30, 31, 32, 38, 39, 40,
                     46, 47, 48, 54, 55, 56}>> }
MtLayers == { <<2, {1, 3, 9, 11, 17, 19, 25, 27, 33, 35, 41, 43, 49, 51}>>,
              <<4, {2, 4, 10, 12, 18, 20, 26, 28, 34, 36, 42, 44, 50, 52}>>,
              <<8, {5, 13, 21, 29, 37, 45, 53}>>,
              <<3, {6, 14, 22, 30, 38, 46, 54}>>,
              <<6, {7, 15, 23, 31, 39, 47, 55}>>,
              <<12, {8, 16, 24, 32, 40, 48, 56}>> }

CeilDiv(a, b) == (a + b - 1) \div b

(* wots_len, for digits of four bits and three for the checksum *)
WotsLen(n) == (8 * n) \div 4 + 3

Initialize(set) ==
    LET raw == RawOid(set)
        both == Pick(IF IsXmss(set) THEN XmssN ELSE MtN, raw)
        n   == both[1]
        h   == Pick(IF IsXmss(set) THEN XmssHeight ELSE MtHeight, raw)
        d   == IF IsXmss(set) THEN 1 ELSE Pick(MtLayers, raw)
        idx == IF d = 1 THEN 4 ELSE CeilDiv(h, 8)
    IN [func |-> Pick(IF IsXmss(set) THEN XmssFunc ELSE MtFunc, raw),
        n |-> n, full_height |-> h, d |-> d, tree_height |-> h \div d,
        padding_len |-> both[2],
        wots_len |-> WotsLen(n), wots_sig_bytes |-> WotsLen(n) * n, index_bytes |-> idx,
        sig_bytes |-> idx + n + d * (WotsLen(n) * n) + h * n,
        pk_bytes |-> 2 * n, sk_bytes |-> idx + 4 * n]

(* digest_output_size, and the bytes of what it returns                    *)
DigestOutputSize(p) == IF p.n \in {24, 32, 64} THEN p.n ELSE 32

(* generic_xmss_params, with the constants of each define_xmss_family *)
FamilyFunc    == <<"SHA2", "SHA2", "SHAKE128", "SHAKE256", "SHA2", "SHAKE256", "SHAKE256">>
FamilyPadding == <<32, 64, 32, 64, 4, 32, 4>>

GenericXmssParams(set) ==
    LET n == Families[set.family][2]
    IN [func |-> FamilyFunc[set.family],
        n |-> n, full_height |-> set.h, d |-> 1, tree_height |-> set.h,
        padding_len |-> FamilyPadding[set.family],
        wots_len |-> 2 * n + 3, wots_sig_bytes |-> (2 * n + 3) * n, index_bytes |-> 4,
        sig_bytes |-> 4 + n + (2 * n + 3) * n + set.h * n,
        pk_bytes |-> 2 * n, sk_bytes |-> 4 + 4 * n]

---------------------------------------------------------------------------
(* Lengths fixed at compile time *)

(* (slip: rounds down) *)
XmssIndexBytesFloor(h, d) == IF d = 1 THEN 4 ELSE h \div 8

(* index_bytes in xmss_sk_len and xmss_sig_len *)
XmssIndexBytes(h, d) == IF d = 1 THEN 4 ELSE CeilDiv(h, 8)

XmssSkLen(n, h, d)  == 4 + XmssIndexBytes(h, d) + 4 * n
XmssVkLen(n)        == 4 + 2 * n
XmssSeedLen(n)      == 3 * n
XmssSigLen(n, h, d) == XmssIndexBytes(h, d) + n + d * ((2 * n + 3) * n) + h * n

(* IDX of each define_xmss_parameter, which SkLen is made of *)
IdxType(set) ==
    IF IsXmss(set) THEN 4
    ELSE CASE set.h = 20 -> 3 [] set.h = 40 -> 5 [] set.h = 60 -> 8
=============================================================================
