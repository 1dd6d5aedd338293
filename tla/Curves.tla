------------------------------- MODULE Curves -------------------------------
(* math/ecc/curve_meta: the table of curves, the map of their names built   *)
(* from it, and the libraries that say which curves they know.  The names   *)
(* are those of the source: the properties are about how its tables fit.    *)
EXTENDS Integers, Sequences, FiniteSets, SequencesExt, FiniteSetsExt, Scenario

(* AsciiStrToLower on the names that have a capital letter.                 *)
LowerCase == {
    <<"192-bit Random ECP Group", "192-bit random ecp group">>, <<"224-bit Random ECP Group", "224-bit random ecp group">>,
    <<"256-bit Random ECP Group", "256-bit random ecp group">>, <<"384-bit Random ECP Group", "384-bit random ecp group">>,
    <<"521-bit Random ECP Group", "521-bit random ecp group">>, <<"B-163", "b-163">>, <<"B-233", "b-233">>, <<"B-283", "b-283">>,
    <<"B-409", "b-409">>, <<"B-571", "b-571">>, <<"BADA55-R-256", "bada55-r-256">>, <<"BADA55-VPR-224", "bada55-vpr-224">>,
    <<"BADA55-VPR2-224", "bada55-vpr2-224">>, <<"BADA55-VR-224", "bada55-vr-224">>, <<"BADA55-VR-256", "bada55-vr-256">>,
    <<"BADA55-VR-384", "bada55-vr-384">>, <<"BLS12-377", "bls12-377">>, <<"BLS12-381", "bls12-381">>, <<"BLS12-446", "bls12-446">>,
    <<"BLS12-455", "bls12-455">>, <<"BLS12-638", "bls12-638">>, <<"BLS24-477", "bls24-477">>, <<"Bandersnatch", "bandersnatch">>,
    <<"Curve1174", "curve1174">>, <<"Curve22103", "curve22103">>, <<"Curve25519", "curve25519">>, <<"Curve383187", "curve383187">>,
    <<"Curve41417", "curve41417">>, <<"Curve4417", "curve4417">>, <<"Curve448", "curve448">>, <<"Curve67254", "curve67254">>, <<"E-222", "e-222">>,
    <<"E-382", "e-382">>, <<"E-521", "e-521">>, <<"Ed25519", "ed25519">>, <<"Ed448", "ed448">>, <<"Ed448-Goldilocks", "ed448-goldilocks">>,
    <<"FRP256v1", "frp256v1">>, <<"FourQ", "fourq">>, <<"Fp224BN", "fp224bn">>, <<"Fp254BNa", "fp254bna">>, <<"Fp254BNb", "fp254bnb">>,
    <<"Fp254n2BNa", "fp254n2bna">>, <<"Fp256BN", "fp256bn">>, <<"Fp384BN", "fp384bn">>, <<"Fp512BN", "fp512bn">>, <<"JubJub", "jubjub">>,
    <<"K-163", "k-163">>, <<"K-233", "k-233">>, <<"K-283", "k-283">>, <<"K-409", "k-409">>, <<"K-571", "k-571">>, <<"M-221", "m-221">>,
    <<"M-383", "m-383">>, <<"M-511", "m-511">>, <<"MDC201601", "mdc201601">>, <<"Oakley Group 3", "oakley group 3">>,
    <<"Oakley Group 4", "oakley group 4">>, <<"P-192", "p-192">>, <<"P-224", "p-224">>, <<"P-256", "p-256">>, <<"P-384", "p-384">>,
    <<"P-521", "p-521">>, <<"Pallas", "pallas">>, <<"SM2", "sm2">>, <<"Tweedledee", "tweedledee">>, <<"Tweedledum", "tweedledum">>,
    <<"Vesta", "vesta">>, <<"brainpoolP160r1", "brainpoolp160r1">>, <<"brainpoolP160t1", "brainpoolp160t1">>,
    <<"brainpoolP192r1", "brainpoolp192r1">>, <<"brainpoolP192t1", "brainpoolp192t1">>, <<"brainpoolP224r1", "brainpoolp224r1">>,
    <<"brainpoolP224t1", "brainpoolp224t1">>, <<"brainpoolP256r1", "brainpoolp256r1">>, <<"brainpoolP256t1", "brainpoolp256t1">>,
    <<"brainpoolP320r1", "brainpoolp320r1">>, <<"brainpoolP320t1", "brainpoolp320t1">>, <<"brainpoolP384r1", "brainpoolp384r1">>,
    <<"brainpoolP384t1", "brainpoolp384t1">>, <<"brainpoolP512r1", "brainpoolp512r1">>, <<"brainpoolP512t1", "brainpoolp512t1">>,
    <<"id-GostR3410-2001-CryptoPro-A-ParamSet", "id-gostr3410-2001-cryptopro-a-paramset">>,
    <<"id-GostR3410-2001-CryptoPro-B-ParamSet", "id-gostr3410-2001-cryptopro-b-paramset">>,
    <<"id-GostR3410-2001-CryptoPro-C-ParamSet", "id-gostr3410-2001-cryptopro-c-paramset">>,
    <<"id-tc26-gost-3410-12-512-paramSetA", "id-tc26-gost-3410-12-512-paramseta">>,
    <<"id-tc26-gost-3410-12-512-paramSetB", "id-tc26-gost-3410-12-512-paramsetb">>,
    <<"id-tc26-gost-3410-2012-256-paramSetA", "id-tc26-gost-3410-2012-256-paramseta">>,
    <<"id-tc26-gost-3410-2012-512-paramSetC", "id-tc26-gost-3410-2012-512-paramsetc">>, <<"FourQlib", "fourqlib">>, <<"OpenSSL", "openssl">>,
    <<"Toy", "toy">>}
AsciiStrToLower(s) == IF \E p \in LowerCase : p[1] = s THEN (CHOOSE p \in LowerCase : p[1] = s)[2] ELSE s

CurveMeta(name, aliases, form, field, bits) == [name |-> name, aliases |-> aliases, form |-> form, field_type |-> field, secure_bits |-> bits]
WP(name, aliases, bits) == CurveMeta(name, aliases, "Weierstrass", "Prime", bits)
WB(name, aliases, bits) == CurveMeta(name, aliases, "Weierstrass", "Binary", bits)
WE(name, aliases, bits) == CurveMeta(name, aliases, "Weierstrass", "Extension", bits)
MP(name, aliases, bits) == CurveMeta(name, aliases, "Montgomery", "Prime", bits)
EP(name, aliases, bits) == CurveMeta(name, aliases, "Edwards", "Prime", bits)
TP(name, aliases, bits) == CurveMeta(name, aliases, "TwistedEdwards", "Prime", bits)
TE(name, aliases, bits) == CurveMeta(name, aliases, "TwistedEdwards", "Extension", bits)

SecgPrimeCurves == <<
    WP("secp112r1", <<"wap-wsg-idm-ecid-wtls6">>, 56), WP("secp112r2", <<>>, 56), WP("secp128r1", <<>>, 64), WP("secp128r2", <<>>, 64),
    WP("secp160k1", <<"ansip160k1">>, 80), WP("secp160r1", <<"wap-wsg-idm-ecid-wtls7", "ansip160r1">>, 80), WP("secp160r2", <<"ansip160r2">>, 80),
    WP("secp192k1", <<"ansip192k1">>, 96), WP("secp192r1", <<"P-192", "prime192v1">>, 96), WP("secp224k1", <<"ansip224k1">>, 112),
    WP("secp224r1", <<"P-224", "wap-wsg-idm-ecid-wtls12", "ansip224r1">>, 112), WP("secp256k1", <<"ansip256k1">>, 128),
    WP("secp256r1", <<"P-256", "prime256v1">>, 128), WP("secp384r1", <<"P-384", "ansip384r1">>, 192),
    WP("secp521r1", <<"P-521", "ansip521r1">>, 260)>>
SecgBinaryCurves == <<
    WB("sect113r1", <<"wap-wsg-idm-ecid-wtls4">>, 56), WB("sect113r2", <<>>, 56), WB("sect131r1", <<>>, 65), WB("sect131r2", <<>>, 65),
    WB("sect163k1", <<"K-163", "ansit163k1", "wap-wsg-idm-ecid-wtls3">>, 81), WB("sect163r1", <<"ansit163r1">>, 81),
    WB("sect163r2", <<"B-163", "ansit163r2">>, 81), WB("sect193r1", <<"ansit193r1">>, 96), WB("sect193r2", <<"ansit193r2">>, 96),
    WB("sect233k1", <<"K-233", "wap-wsg-idm-ecid-wtls10", "ansit233k1">>, 116),
    WB("sect233r1", <<"B-233", "wap-wsg-idm-ecid-wtls11", "ansit233r1">>, 116), WB("sect239k1", <<"ansit239k1">>, 119),
    WB("sect283k1", <<"K-283", "ansit283k1">>, 141), WB("sect283r1", <<"B-283", "ansit283r1">>, 141), WB("sect409k1", <<"K-409", "ansit409k1">>, 204),
    WB("sect409r1", <<"B-409", "ansit409r1">>, 204), WB("sect571k1", <<"K-571", "ansit571k1">>, 285), WB("sect571r1", <<"B-571", "ansit571r1">>, 285),
    WP("SM2", <<>>, 128)>>
AnsiCurves == <<
    WB("ansit163k1", <<>>, 81), WB("ansit163r1", <<"sect163r1">>, 81), WB("ansit163r2", <<"sect163r2", "B-163">>, 81),
    WB("ansit193r1", <<"sect193r1">>, 96), WB("ansit193r2", <<"sect193r2">>, 96),
    WB("ansit233k1", <<"sect233k1", "K-233", "wap-wsg-idm-ecid-wtls10">>, 116),
    WB("ansit233r1", <<"wap-wsg-idm-ecid-wtls11", "B-233", "sect233r1">>, 116), WB("ansit239k1", <<"sect239k1">>, 119),
    WB("ansit283k1", <<"K-283", "sect283k1">>, 141), WB("ansit283r1", <<"B-283", "sect283r1">>, 141), WB("ansit409k1", <<"K-409", "sect409k1">>, 204),
    WB("ansit409r1", <<"B-409", "sect409r1">>, 204), WB("ansit571k1", <<"K-571", "sect571k1">>, 285), WB("ansit571r1", <<"B-571", "sect571r1">>, 285),
    WP("ansip160k1", <<"secp160k1">>, 80), WP("ansip160r1", <<"secp160r1", "wap-wsg-idm-ecid-wtls7">>, 80), WP("ansip160r2", <<"secp160r2">>, 80),
    WP("ansip192k1", <<"secp192k1">>, 96), WP("ansip224k1", <<"secp224k1">>, 112),
    WP("ansip224r1", <<"wap-wsg-idm-ecid-wtls12", "P-224", "secp224r1">>, 112), WP("ansip256k1", <<"secp256k1">>, 128),
    WP("ansip384r1", <<"secp384r1", "P-384">>, 192), WP("ansip521r1", <<"secp521r1", "P-521">>, 260)>>
AnsiBinaryCurves == <<
    WP("prime192v1", <<"secp192r1", "P-192">>, 96), WP("prime192v2", <<>>, 96), WP("prime192v3", <<>>, 96), WP("prime239v1", <<>>, 119),
    WP("prime239v2", <<>>, 119), WP("prime239v3", <<>>, 119), WP("prime256v1", <<"secp256r1", "P-256">>, 128), WB("c2pnb176w1", <<>>, 88),
    WB("c2pnb163v1", <<"wap-wsg-idm-ecid-wtls5">>, 81), WB("c2pnb163v2", <<>>, 81), WB("c2pnb163v3", <<>>, 81), WB("c2pnb208w1", <<>>, 104),
    WB("c2tnb191v3", <<>>, 95), WB("c2tnb191v2", <<>>, 95), WB("c2tnb191v1", <<>>, 95), WB("c2tnb239v3", <<>>, 119), WB("c2tnb239v2", <<>>, 119),
    WB("c2tnb239v1", <<>>, 119), WB("c2pnb272w1", <<>>, 136), WB("c2pnb304w1", <<>>, 152), WB("c2pnb368w1", <<>>, 184), WB("c2tnb359v1", <<>>, 179),
    WB("c2tnb431r1", <<>>, 215), WB("c2onb191v4", <<>>, 95), WB("c2onb191v5", <<>>, 95), WB("c2onb239v4", <<>>, 119), WB("c2onb239v5", <<>>, 119),
    WP("gost256", <<>>, 128), WP("gost512", <<>>, 256), WP("id-tc26-gost-3410-12-512-paramSetA", <<>>, 256),
    WP("id-tc26-gost-3410-12-512-paramSetB", <<>>, 256), WP("id-GostR3410-2001-CryptoPro-A-ParamSet", <<>>, 128),
    WP("id-GostR3410-2001-CryptoPro-B-ParamSet", <<>>, 128), WP("id-GostR3410-2001-CryptoPro-C-ParamSet", <<>>, 128),
    TP("id-tc26-gost-3410-2012-256-paramSetA", <<>>, 128), TP("id-tc26-gost-3410-2012-512-paramSetC", <<>>, 256)>>
OtherCurves == <<
    WP("FRP256v1", <<>>, 128), MP("M-221", <<>>, 110), MP("M-383", <<>>, 191), MP("M-511", <<>>, 255), EP("E-222", <<>>, 111), EP("E-382", <<>>, 191),
    EP("E-521", <<>>, 260), MP("Curve25519", <<>>, 127), MP("Curve448", <<>>, 224), WP("Curve22103", <<>>, 110), WP("Curve4417", <<>>, 113),
    WP("Curve1174", <<>>, 125), WP("Curve67254", <<>>, 191), MP("Curve383187", <<>>, 141), TP("Ed25519", <<>>, 127), TP("Ed448", <<>>, 224),
    TP("Ed448-Goldilocks", <<>>, 224), TP("Curve41417", <<>>, 207), WP("Fp254BNa", <<>>, 127), WE("Fp254n2BNa", <<>>, 254),
    WP("Fp254BNb", <<"bn254">>, 100), WP("Fp224BN", <<>>, 112), WP("Fp256BN", <<>>, 128), WP("Fp384BN", <<>>, 192), WP("Fp512BN", <<>>, 256),
    WP("ssc-160", <<>>, 80), WP("ssc-192", <<>>, 96), WP("ssc-224", <<>>, 112), WP("ssc-256", <<>>, 128), WP("ssc-288", <<>>, 144),
    WP("ssc-320", <<>>, 160), WP("ssc-384", <<>>, 192), WP("ssc-512", <<>>, 256), WP("Tweedledum", <<>>, 127), WP("Tweedledee", <<>>, 127),
    TP("JubJub", <<>>, 127), WP("Pallas", <<>>, 127), WP("Vesta", <<>>, 127), EP("MDC201601", <<>>, 128), WP("BADA55-R-256", <<>>, 128),
    WP("BADA55-VR-224", <<>>, 112), WP("BADA55-VR-256", <<>>, 128), WP("BADA55-VR-384", <<>>, 192), WP("BADA55-VPR-224", <<>>, 112),
    WP("BADA55-VPR2-224", <<>>, 112)>>
NistCurves == <<
    WP("P-192", <<"secp192r1", "prime192v1">>, 96), WP("P-224", <<"secp224r1", "wap-wsg-idm-ecid-wtls12", "ansip224r1">>, 112),
    WP("P-256", <<"secp256r1", "prime256v1">>, 128), WP("P-384", <<"secp384r1", "ansip384r1">>, 192), WP("P-521", <<"secp521r1", "ansip521r1">>, 260),
    WB("K-163", <<"sect163k1">>, 81), WB("B-163", <<"sect163r2", "ansit163r2">>, 81),
    WB("K-233", <<"sect233k1", "wap-wsg-idm-ecid-wtls10", "ansit233k1">>, 116),
    WB("B-233", <<"sect233r1", "wap-wsg-idm-ecid-wtls11", "ansit233r1">>, 116), WB("K-283", <<"sect283k1", "ansit283k1">>, 141),
    WB("B-283", <<"sect283r1", "ansit283r1">>, 141), WB("K-409", <<"sect409k1", "ansit409k1">>, 204), WB("B-409", <<"sect409r1", "ansit409r1">>, 204),
    WB("K-571", <<"sect571k1", "ansit571k1">>, 285), WB("B-571", <<"sect571r1", "ansit571r1">>, 285)>>
PairingCurves == <<
    WP("mnt1", <<>>, 85), WP("mnt2/1", <<>>, 79), WP("mnt2/2", <<>>, 79), WP("mnt3/1", <<>>, 80), WP("mnt3/2", <<>>, 80), WP("mnt3/3", <<>>, 80),
    WP("mnt4", <<>>, 120), WP("mnt5/1", <<>>, 120), WP("mnt5/2", <<>>, 120), WP("mnt5/3", <<>>, 120), WP("BLS12-377", <<>>, 128),
    WP("BLS12-381", <<>>, 128), WP("BLS12-446", <<>>, 128), WP("BLS12-455", <<>>, 128), WP("BLS12-638", <<>>, 128), WP("BLS24-477", <<>>, 192),
    TP("Bandersnatch", <<>>, 128), WP("bn158", <<>>, 70), WP("bn190", <<>>, 80), WP("bn222", <<>>, 80), WP("bn254", <<"Fp254BNb">>, 100),
    WP("bn_snark1", <<>>, 100), WP("bn286", <<>>, 100), WP("bn318", <<>>, 100), WP("bn350", <<>>, 100), WP("bn382", <<>>, 100),
    WP("bn414", <<>>, 100), WP("bn446", <<>>, 128), WP("bn478", <<>>, 128), WP("bn510", <<>>, 128), WP("bn542", <<>>, 128), WP("bn574", <<>>, 128),
    WP("bn606", <<>>, 128), WP("bn638", <<>>, 128)>>
WtlsCurves == <<
    WB("wap-wsg-idm-ecid-wtls1", <<>>, 56), WB("wap-wsg-idm-ecid-wtls3", <<"K-163", "sect163k1", "ansit163k1">>, 81),
    WB("wap-wsg-idm-ecid-wtls4", <<"sect113r1">>, 56), WB("wap-wsg-idm-ecid-wtls5", <<"c2pnb163v1">>, 81),
    WP("wap-wsg-idm-ecid-wtls6", <<"secp112r1">>, 56), WP("wap-wsg-idm-ecid-wtls7", <<"secp160r1", "ansip160r1">>, 80),
    WP("wap-wsg-idm-ecid-wtls8", <<>>, 56), WP("wap-wsg-idm-ecid-wtls9", <<>>, 80),
    WB("wap-wsg-idm-ecid-wtls10", <<"sect233k1", "K-233", "ansit233k1">>, 116),
    WB("wap-wsg-idm-ecid-wtls11", <<"sect233r1", "B-233", "ansit233r1">>, 116),
    WP("wap-wsg-idm-ecid-wtls12", <<"secp224r1", "P-224", "ansip224r1">>, 112), WB("Oakley Group 3", <<>>, 77), WB("Oakley Group 4", <<>>, 92),
    WP("192-bit Random ECP Group", <<>>, 96), WP("224-bit Random ECP Group", <<>>, 112), WP("256-bit Random ECP Group", <<>>, 128),
    WP("384-bit Random ECP Group", <<>>, 192), WP("521-bit Random ECP Group", <<>>, 260)>>
NumsCurves == <<
    WP("numsp256d1", <<>>, 128), TP("numsp256t1", <<>>, 128), WP("numsp384d1", <<>>, 192), TP("numsp384t1", <<>>, 192), WP("numsp512d1", <<>>, 256),
    TP("numsp512t1", <<>>, 256), TP("ed-256-mont", <<>>, 128), TP("ed-254-mont", <<>>, 127), TP("ed-255-mers", <<>>, 127),
    TP("ed-384-mont", <<>>, 192), TP("ed-382-mont", <<>>, 191), TP("ed-383-mers", <<>>, 191), TP("ed-512-mont", <<>>, 256),
    TP("ed-510-mont", <<>>, 255), TP("ed-511-mers", <<>>, 255), WP("w-256-mont", <<>>, 128), WP("w-254-mont", <<>>, 127), WP("w-255-mers", <<>>, 127),
    WP("w-384-mont", <<>>, 192), WP("w-382-mont", <<>>, 191), WP("w-383-mers", <<>>, 191), WP("w-512-mont", <<>>, 256), WP("w-510-mont", <<>>, 255),
    WP("w-511-mers", <<>>, 255), WP("brainpoolP160r1", <<>>, 80), WP("brainpoolP160t1", <<>>, 80), WP("brainpoolP192r1", <<>>, 96),
    WP("brainpoolP192t1", <<>>, 96), WP("brainpoolP224r1", <<>>, 112), WP("brainpoolP224t1", <<>>, 112), WP("brainpoolP256r1", <<>>, 128),
    WP("brainpoolP256t1", <<>>, 128), WP("brainpoolP320r1", <<>>, 160), WP("brainpoolP320t1", <<>>, 160), WP("brainpoolP384r1", <<>>, 192),
    WP("brainpoolP384t1", <<>>, 192), WP("brainpoolP512r1", <<>>, 256), WP("brainpoolP512t1", <<>>, 256), TE("FourQ", <<>>, 128)>>
kPredefinedCurves == SecgPrimeCurves \o SecgBinaryCurves \o AnsiCurves \o AnsiBinaryCurves \o OtherCurves \o NistCurves
                     \o PairingCurves \o WtlsCurves \o NumsCurves

-----------------------------------------------------------------------------
LowerNameAsIs(meta) == meta.name
LowerName(meta) == AsciiStrToLower(meta.name)
IsEquivalent(a, b) == a.form = b.form /\ a.field_type = b.field_type /\ a.secure_bits = b.secure_bits

(* BuildMap, a curve at a time: the first curve with a name keeps it.       *)
NamesOf(meta) == <<meta.name>> \o meta.aliases
InsertAsIs(m, name, k) == IF \E e \in m : e[1] = name THEN m ELSE m \cup {<<name, k>>}
InsertName(m, name, k) == IF \E e \in m : e[1] = AsciiStrToLower(name) THEN m ELSE m \cup {<<AsciiStrToLower(name), k>>}
InsertThrows(m, name, k) == \E e \in m : e[1] = AsciiStrToLower(name) /\ ~IsEquivalent(kPredefinedCurves[e[2]], kPredefinedCurves[k])
BuildMap ==
    /\ st.kind = "build" /\ st.at < Len(kPredefinedCurves) /\ ~st.threw
    /\ LET k == st.at + 1
           names == NamesOf(kPredefinedCurves[k])
       IN  Step("curves", [st EXCEPT !.at = k, !.map = FoldLeft(LAMBDA m, n : InsertName(m, n, k), @, names),
                                     !.threw = \E i \in DOMAIN names : InsertThrows(st.map, names[i], k)])

(* GetCurveMetaByName: <<>> for a name that is not in the map.              *)
GetCurveMetaByName(m, name) ==
    LET hits == {e \in m : e[1] = AsciiStrToLower(name)}
    IN  IF hits = {} THEN <<>> ELSE <<kPredefinedCurves[(CHOOSE e \in hits : TRUE)[2]]>>

(* The names in the tables of the libraries.                                *)
kName2Nid == {
    "secp112r1", "secp112r2", "secp128r1", "secp128r2", "secp160k1", "secp160r1", "secp160r2", "secp192k1", "secp192r1", "secp224k1", "secp224r1",
    "secp256r1", "secp256k1", "secp384r1", "secp521r1", "prime192v2", "prime192v3", "prime239v1", "prime239v2", "prime239v3", "sect113r1",
    "sect113r2", "sect131r1", "sect131r2", "sect163k1", "sect163r1", "sect163r2", "sect193r1", "sect193r2", "sect233k1", "sect233r1", "sect239k1",
    "sect283k1", "sect283r1", "sect409k1", "sect409r1", "sect571k1", "sect571r1", "c2pnb163v1", "c2pnb163v2", "c2pnb163v3", "c2pnb176v1",
    "c2tnb191v1", "c2tnb191v2", "c2tnb191v3", "c2pnb208w1", "c2tnb239v1", "c2tnb239v2", "c2tnb239v3", "c2pnb272w1", "c2pnb304w1", "c2tnb359v1",
    "c2pnb368w1", "c2tnb431r1", "wap-wsg-idm-ecid-wtls1", "wap-wsg-idm-ecid-wtls3", "wap-wsg-idm-ecid-wtls4", "wap-wsg-idm-ecid-wtls5",
    "wap-wsg-idm-ecid-wtls6", "wap-wsg-idm-ecid-wtls7", "wap-wsg-idm-ecid-wtls8", "wap-wsg-idm-ecid-wtls9", "wap-wsg-idm-ecid-wtls10",
    "wap-wsg-idm-ecid-wtls11", "wap-wsg-idm-ecid-wtls12", "Oakley Group 3", "Oakley Group 4", "brainpoolp160r1", "brainpoolp160t1", "brainpoolp192r1",
    "brainpoolp192t1", "brainpoolp224r1", "brainpoolp224t1", "brainpoolp256r1", "brainpoolp256t1", "brainpoolp320r1", "brainpoolp320t1",
    "brainpoolp384r1", "brainpoolp384t1", "brainpoolp512r1", "brainpoolp512t1", "sm2"}
Name2MclCurveEnum == {"secp192k1", "secp224k1", "secp256k1", "secp384r1", "secp192r1", "secp224r1", "secp256r1", "secp160k1"}
ToyCurves == {"secp256k1", "sm2", "curve25519"}
FourQCurves == {"fourq"}
CurveLibs == {<<"FourQlib", 1500, FourQCurves>>, <<"libmcl", 400, Name2MclCurveEnum>>, <<"OpenSSL", 100, kName2Nid>>, <<"Toy", 10, ToyCurves>>}
IsSupported(lib, meta) == LowerName(meta) \in lib[3]

CurvesInit == Start("curves", [kind |-> "build", at |-> 0, map |-> {}, threw |-> FALSE])
CurvesNext == part = "curves" /\ BuildMap

-----------------------------------------------------------------------------
(* The table builds: no name is given to two curves that differ, and once   *)
(* it is built all the names of one entry mean one curve, the entry itself  *)
(* or an earlier one (BuildMap keeps the first).                            *)
CurveNamesAgree ==
    part = "curves" /\ st.kind = "build" =>
        /\ ~st.threw
        /\ st.at = Len(kPredefinedCurves) =>
            \A k \in 1 .. st.at : LET names == NamesOf(kPredefinedCurves[k])
                                  IN  \A i \in DOMAIN names : /\ GetCurveMetaByName(st.map, names[i]) # <<>>
                                                              /\ GetCurveMetaByName(st.map, names[i]) = GetCurveMetaByName(st.map, names[1])

(* A library can be asked for every curve it lists: the name leads to an    *)
(* entry whose own name is in that library's table.  Three names of the     *)
(* OpenSSL table cannot be reached: two are spelled with capitals, which    *)
(* LowerName never has, and one is not in the table of curves.              *)
LibraryCurvesReachable ==
    part = "curves" /\ st.kind = "build" /\ st.at = Len(kPredefinedCurves) =>
        \A lib \in CurveLibs, name \in kName2Nid \cup Name2MclCurveEnum \cup ToyCurves \cup FourQCurves :
            name \in lib[3] => \/ name \in {"Oakley Group 3", "Oakley Group 4", "c2pnb176v1"}
                              \/ LET meta == GetCurveMetaByName(st.map, name) IN meta # <<>> /\ IsSupported(lib, meta[1])

-----------------------------------------------------------------------------
(* math/ecc/toy: the reference curves, in affine Weierstrass form and with  *)
(* x coordinates only in Montgomery form, over small fields.                *)

CONSTANTS ToyScalarMax,     \* scalars are -ToyScalarMax .. ToyScalarMax
          XPrime, XA        \* the Montgomery curve y^2 = x^3 + XA x^2 + x mod XPrime

InvertMod(a, p) == CHOOSE b \in 1 .. p - 1 : (a * b) % p = 1

(* Weierstrass curves of prime order n; like all of kPredefinedCurves they  *)
(* have no point with x = y = 0, which stands for infinity, or y = 0.       *)
WCurves == {[p |-> 17, A |-> 2, B |-> 2, n |-> 19], [p |-> 5, A |-> 2, B |-> 1, n |-> 7]}
kInfPoint == [x |-> 0, y |-> 0]
IsInfinityW(a) == a.x = 0 /\ a.y = 0
IsInCurveGroup(c, a) == IsInfinityW(a) \/ (a.y * a.y - a.x * a.x * a.x - c.A * a.x - c.B) % c.p = 0
PointsOf(c) == {a \in [x : 0 .. c.p - 1, y : 0 .. c.p - 1] : IsInCurveGroup(c, a)}

LambdaNoA(c, a, b) ==
    IF a.x = b.x THEN (3 * a.x * a.x * InvertMod((2 * a.y) % c.p, c.p)) % c.p
    ELSE ((b.y - a.y) * InvertMod((b.x - a.x) % c.p, c.p)) % c.p
Lambda(c, a, b) ==
    IF a.x = b.x THEN ((3 * a.x * a.x + c.A) * InvertMod((2 * a.y) % c.p, c.p)) % c.p
    ELSE ((b.y - a.y) * InvertMod((b.x - a.x) % c.p, c.p)) % c.p
LineThird(c, l, a, b) == LET x3 == (l * l - (a.x + b.x)) % c.p IN [x |-> x3, y |-> (l * (a.x - x3) - a.y) % c.p]
WAdd(c, a, b) == IF IsInfinityW(a) THEN b ELSE IF IsInfinityW(b) THEN a
                 ELSE IF a.x = b.x /\ a.y # b.y THEN kInfPoint
                 ELSE LineThird(c, Lambda(c, a, b), a, b)
WNegate(c, a) == IF IsInfinityW(a) THEN a ELSE [a EXCEPT !.y = c.p - @]

(* Mul: infinity for a multiple of the order, else the bits of |scalar|     *)
(* from the lowest, one a step; s is doubled while bits remain.             *)
MulEnds(c, a, scalar) == IsInfinityW(a) \/ scalar % c.n = 0
MulBits(e) == e % 2 = 1
MulEndPositive(c, res, scalar) == res
MulEnd(c, res, scalar) == IF scalar < 0 THEN WNegate(c, res) ELSE res

WMulStart ==
    /\ st.kind = "points"
    /\ \E scalar \in -ToyScalarMax .. ToyScalarMax :
         Step("toycurve", [kind |-> "mul", c |-> st.c, a |-> st.a, scalar |-> scalar, e |-> IF scalar < 0 THEN -scalar ELSE scalar,
                           res |-> kInfPoint, s |-> st.a, done |-> MulEnds(st.c, st.a, scalar)])
WMulBit ==
    /\ st.kind = "mul" /\ ~st.done
    /\ LET res == IF MulBits(st.e) THEN WAdd(st.c, st.res, st.s) ELSE st.res
           e == st.e \div 2
       IN  Step("toycurve", IF e = 0 THEN [st EXCEPT !.res = MulEnd(st.c, res, st.scalar), !.e = 0, !.done = TRUE]
                            ELSE [st EXCEPT !.res = res, !.e = e, !.s = WAdd(st.c, @, @)])

-----------------------------------------------------------------------------
(* X only: the scalar's bit at the top is set, the one above it and the     *)
(* three lowest are cleared, at the width of XPrime (255 in the code).      *)
XWidth == CHOOSE w \in 1 .. 16 : XPrime < 2 ^ w /\ XPrime >= 2 ^ (w - 1)
MaskScalar255(k) == 2 ^ (XWidth - 1) + (((k % 2 ^ (XWidth - 1)) \div 8) * 8)
MaskPoint255(x) == x % 2 ^ XWidth
a24 == (XA - 2) \div 4

Cswap(swap, a, b) == IF swap = 1 THEN <<b, a>> ELSE <<a, b>>
Ladder(x1, a, b) ==
    LET A == a.x + a.z
        B == a.x - a.z
        AA == (A * A) % XPrime
        BB == (B * B) % XPrime
        E == AA - BB
        DA == ((b.x - b.z) * A) % XPrime
        CB == ((b.x + b.z) * B) % XPrime
    IN  <<[x |-> (AA * BB) % XPrime, z |-> (E * ((AA + a24 * E) % XPrime)) % XPrime],
          [x |-> ((DA + CB) * (DA + CB)) % XPrime, z |-> (x1 * (((DA - CB) * (DA - CB)) % XPrime)) % XPrime]>>

SwapAlways(swap, kt) == kt
SwapOf(swap, kt) == IF swap = kt THEN 0 ELSE 1
XBit ==
    /\ st.kind = "ladder" /\ st.t >= 0
    /\ LET kt == (st.k \div 2 ^ st.t) % 2
           sw == Cswap(SwapOf(st.swap, kt), st.a, st.b)
           next == Ladder(st.x1, sw[1], sw[2])
       IN  Step("toycurve", [st EXCEPT !.a = next[1], !.b = next[2], !.swap = kt, !.t = @ - 1])
XEnd ==
    /\ st.kind = "ladder" /\ st.t = -1
    /\ LET a == Cswap(st.swap, st.a, st.b)[1]
           inv == IF a.z = 0 THEN 0 ELSE InvertMod(a.z, XPrime)      \* z^(p-2)
       IN  Step("toycurve", [kind |-> "xdone", x1 |-> st.x1, k |-> st.k, x |-> (a.x * inv) % XPrime])

-----------------------------------------------------------------------------
XMulArgs == {0, 1, 2, 3, 4, 7, 9, 50, 99, XPrime - 1, XPrime, XPrime + 1, 2 ^ XWidth + 5} \X {0, 7, 8, 27, 72, 100, 127, 200}
ToyCurveInit ==
    \/ \E c \in WCurves : \E a, b \in PointsOf(c) : Start("toycurve", [kind |-> "points", c |-> c, a |-> a, b |-> b])
    \/ \E in \in XMulArgs :
         LET x1 == MaskPoint255(in[1])
         IN  Start("toycurve", [kind |-> "ladder", x1 |-> x1, k |-> MaskScalar255(in[2]), a |-> [x |-> 1, z |-> 0],
                                b |-> [x |-> x1, z |-> 1], swap |-> 0, t |-> XWidth - 1])
ToyCurveNext == part = "toycurve" /\ (WMulStart \/ WMulBit \/ XBit \/ XEnd)

-----------------------------------------------------------------------------
(* Add makes the points of a curve a commutative group with kInfPoint as    *)
(* its zero and Negate as its inverse.                                      *)
ToyGroupLaw ==
    part = "toycurve" /\ st.kind = "points" =>
        LET sum == WAdd(st.c, st.a, st.b)
        IN  /\ sum \in PointsOf(st.c) /\ sum = WAdd(st.c, st.b, st.a)
            /\ WAdd(st.c, st.a, WNegate(st.c, st.a)) = kInfPoint /\ WNegate(st.c, st.a) \in PointsOf(st.c)
            /\ \A d \in PointsOf(st.c) : WAdd(st.c, sum, d) = WAdd(st.c, st.a, WAdd(st.c, st.b, d))

(* Mul is the sum of |scalar| points, negated for a negative scalar, also   *)
(* for scalars beyond the order.                                            *)
Multiple(c, a, k) == FoldLeft(LAMBDA r, i : WAdd(c, r, a), kInfPoint, [i \in 1 .. k % c.n |-> i])
ToyMulRight ==
    part = "toycurve" /\ st.kind = "mul" /\ st.done => st.res = Multiple(st.c, st.a, st.scalar)

(* The x coordinate of a multiple on B y^2 = x^3 + A x^2 + x: with          *)
(* B = f(x) every x is the coordinate of a point with y = 1, on the curve   *)
(* or on its twist.  A point is <<x, y>>, infinity <<>>.                    *)
CurveF(x) == (x * ((x * x + XA * x + 1) % XPrime)) % XPrime
XRefAdd(B, a, b) ==
    IF a = <<>> THEN b ELSE IF b = <<>> THEN a ELSE IF a[1] = b[1] /\ (a[2] + b[2]) % XPrime = 0 THEN <<>>
    ELSE LET l == IF a[1] = b[1] THEN ((3 * a[1] * a[1] + 2 * XA * a[1] + 1) * InvertMod((2 * B * a[2]) % XPrime, XPrime)) % XPrime
                  ELSE ((b[2] - a[2]) * InvertMod((b[1] - a[1]) % XPrime, XPrime)) % XPrime
             x3 == (B * ((l * l) % XPrime) - XA - a[1] - b[1]) % XPrime
         IN  <<x3, (l * (a[1] - x3) - a[2]) % XPrime>>
XRefMul(x, k) ==
    LET f == CurveF(x)
        B == IF f = 0 THEN 1 ELSE f
        P == <<x, IF f = 0 THEN 0 ELSE 1>>
        r == FoldLeft(LAMBDA acc, i : XRefAdd(B, XRefAdd(B, acc, acc), IF (k \div 2 ^ (XWidth - i)) % 2 = 1 THEN P ELSE <<>>),
                      <<>>, [i \in 1 .. XWidth |-> i])
    IN  IF r = <<>> THEN 0 ELSE r[1]

(* The ladder of ToyXGroup::Mul gives the x coordinate of the masked        *)
(* scalar's multiple for every x, on the curve or its twist, below the      *)
(* prime or not, and 0 for infinity.                                        *)
ToyLadderRight == part = "toycurve" /\ st.kind = "xdone" => st.x = XRefMul(st.x1 % XPrime, st.k)
=============================================================================
