------------------------------- MODULE Crypto -------------------------------
(* block_cipher, hash, hmac and aead: what the wrappers around OpenSSL's    *)
(* contexts keep between calls, and what the authenticated modes accept.    *)
(* Ciphertexts and digests are the terms they are made of.                  *)
EXTENDS Integers, Sequences, FiniteSets, SequencesExt, Scenario

CONSTANTS CiBlock,    \* BlockSize(), in bytes
          CiLimit,    \* the most one EVP_CipherUpdate takes, whole blocks
          CiBytes,    \* bytes a caller encrypts between two Resets
          CiCalls     \* calls on one object

Unreadable == 0
BlocksOf(data) == [b \in 1 .. Len(data) \div CiBlock |-> SubSeq(data, ((b - 1) * CiBlock) + 1, b * CiBlock)]

(* EVP_CipherUpdate, external: a context is the bytes gone through it and   *)
(* the last block of ciphertext.  A byte comes out as it was only under the *)
(* context it was put in with.                                              *)
FreshCtx == [pos |-> 0, prev |-> <<>>]
CipherByte(mode, ctx, blk, j) ==
    IF mode = "CTR" THEN <<"CTR", blk[j], ctx.pos + j>> ELSE IF mode = "ECB" THEN <<"ECB", blk, j>> ELSE <<"CBC", <<ctx.prev, blk>>, j>>
PlainByte(mode, ctx, blk, j) ==
    IF mode = "CTR" THEN (IF blk[j][3] = ctx.pos + j THEN blk[j][2] ELSE Unreadable)
    ELSE IF mode = "ECB" THEN blk[j][2][j]
    ELSE IF blk[j][2][1] = ctx.prev THEN blk[j][2][2][j] ELSE Unreadable
EncBlock(mode, ctx, blk) == [j \in DOMAIN blk |-> CipherByte(mode, ctx, blk, j)]
DecBlock(mode, ctx, blk) == [j \in DOMAIN blk |-> PlainByte(mode, ctx, blk, j)]
(* CTR takes bytes, the others whole blocks.                                *)
PiecesOf(mode, data) == IF mode = "CTR" THEN [i \in DOMAIN data |-> <<data[i]>>] ELSE BlocksOf(data)
EncUpdate(mode, ctx, data) ==
    FoldLeft(LAMBDA r, blk : LET c == EncBlock(mode, r.ctx, blk) IN
                             [ctx |-> [pos |-> r.ctx.pos + Len(blk), prev |-> IF mode = "CBC" THEN c ELSE <<>>], out |-> r.out \o c],
             [ctx |-> ctx, out |-> <<>>], PiecesOf(mode, data))
DecUpdate(mode, ctx, data) ==
    FoldLeft(LAMBDA r, blk : [ctx |-> [pos |-> r.ctx.pos + Len(blk), prev |-> IF mode = "CBC" THEN blk ELSE <<>>],
                              out |-> r.out \o DecBlock(mode, r.ctx, blk)],
             [ctx |-> ctx, out |-> <<>>], PiecesOf(mode, data))

(* BlockCipher::Encrypt and Decrypt: the size is checked first, then the    *)
(* data goes in in steps of at most limit bytes.                            *)
SizeFits(mode, data) == mode = "CTR" \/ Len(data) % CiBlock = 0
StepsOf(data) ==
    [i \in 1 .. (Len(data) + CiLimit - 1) \div CiLimit |->
        SubSeq(data, ((i - 1) * CiLimit) + 1, IF i * CiLimit < Len(data) THEN i * CiLimit ELSE Len(data))]
CipherEncrypt(mode, ctx, data) ==
    FoldLeft(LAMBDA r, s : LET u == EncUpdate(mode, r.ctx, s) IN [ctx |-> u.ctx, out |-> r.out \o u.out], [ctx |-> ctx, out |-> <<>>], StepsOf(data))
CipherDecrypt(mode, ctx, data) ==
    FoldLeft(LAMBDA r, s : LET u == DecUpdate(mode, r.ctx, s) IN [ctx |-> u.ctx, out |-> r.out \o u.out], [ctx |-> ctx, out |-> <<>>], StepsOf(data))

(* One object, its two contexts; pt and ct are what went in and came out of *)
(* Encrypt since the last Reset, got what Decrypt made of ct so far.        *)
CiBlockStart == \E mode \in {"ECB", "CBC", "CTR"} :
    Start("ciphers", [kind |-> "block", mode |-> mode, enc |-> FreshCtx, dec |-> FreshCtx, pt |-> <<>>, ct |-> <<>>, got |-> <<>>, calls |-> 0])
CiCall == st.kind = "block" /\ st.calls < CiCalls
CiEncrypt ==
    /\ CiCall
    /\ \E n \in 1 .. CiBytes - Len(st.pt) :
        LET data == [i \in 1 .. n |-> Len(st.pt) + i] e == CipherEncrypt(st.mode, st.enc, data) IN
        IF SizeFits(st.mode, data)
        THEN Step("ciphers", [st EXCEPT !.enc = e.ctx, !.pt = @ \o data, !.ct = @ \o e.out, !.calls = @ + 1])
        ELSE Step("ciphers", [st EXCEPT !.calls = @ + 1])
CiDecrypt ==
    /\ CiCall
    /\ \E n \in 1 .. Len(st.ct) - Len(st.got) :
        LET data == SubSeq(st.ct, Len(st.got) + 1, Len(st.got) + n) IN
        IF SizeFits(st.mode, data)
        THEN LET d == CipherDecrypt(st.mode, st.dec, data) IN Step("ciphers", [st EXCEPT !.dec = d.ctx, !.got = @ \o d.out, !.calls = @ + 1])
        ELSE Step("ciphers", [st EXCEPT !.calls = @ + 1])
ResetEncOnly(s) == [s EXCEPT !.enc = FreshCtx]
Reset(s) == [s EXCEPT !.enc = FreshCtx, !.dec = FreshCtx]
CiReset == CiCall /\ Step("ciphers", [Reset(st) EXCEPT !.pt = <<>>, !.ct = <<>>, !.got = <<>>, !.calls = @ + 1])

-----------------------------------------------------------------------------
(* SslHash, Blake3Hash and Hmac: Update goes into the kept context, the     *)
(* digest is taken from a copy of it.  since: the updates since Reset.      *)
NewDigest(impl) == [data |-> <<>>, final |-> FALSE]
DigestUpdate(c, d) == IF c.final THEN c ELSE [c EXCEPT !.data = Append(@, d)]
DigestReset(impl, c) == NewDigest(impl)
CumulativeOwn(c) == [ctx |-> [c EXCEPT !.final = TRUE], out |-> <<"digest", c.data>>]
CumulativeCopy(c) == [ctx |-> c, out |-> <<"digest", c.data>>]
CiHashStart == \E impl \in {"SslHash", "Blake3Hash", "Hmac"} :
    Start("ciphers", [kind |-> "hash", impl |-> impl, ctx |-> NewDigest(impl), since |-> <<>>, out |-> <<>>, calls |-> 0])
CiHashing == st.kind = "hash" /\ st.calls < CiCalls
CiUpdate ==
    CiHashing /\ Step("ciphers", [st EXCEPT !.ctx = DigestUpdate(@, st.calls), !.since = Append(@, st.calls), !.out = <<>>, !.calls = @ + 1])
CiHashReset == CiHashing /\ Step("ciphers", [st EXCEPT !.ctx = DigestReset(st.impl, @), !.since = <<>>, !.out = <<>>, !.calls = @ + 1])
CiCumulative ==
    CiHashing /\ LET r == CumulativeCopy(st.ctx) IN Step("ciphers", [st EXCEPT !.ctx = r.ctx, !.out = r.out, !.calls = @ + 1])

-----------------------------------------------------------------------------
(* AeadCtx.  Sizes are in units of 8 bytes.  A sealed text is what Encrypt  *)
(* left in the caller's two spans; <<>> is a call that throws.              *)
AeadTypes == {"AES128_GCM", "AES256_GCM", "SM4_MTE_HMAC_SM3"}
GcmMacSize == 2
MteMacSize == 4
GetKeySize(alg) == IF alg = "AES256_GCM" THEN 4 ELSE 2
GetMacSize(alg) == IF alg \in {"AES256_GCM", "SM4_MTE_HMAC_SM3"} THEN 4 ELSE 2
GcmEncrypt(alg, x) ==
    IF x.ct # x.len \/ x.ksize # GetKeySize(alg) \/ ~x.ivfits THEN <<>>
    ELSE <<[body |-> <<"gcm", alg, x.key, x.iv, x.p>>, size |-> x.len, tag |-> <<"tag", alg, x.key, x.iv, x.aad, x.p>>, mac |-> x.mac]>>
GcmDecrypt(alg, x, s) ==
    IF s.size # x.out \/ x.ksize # GetKeySize(alg) \/ ~x.ivfits \/ s.mac < GcmMacSize THEN <<>>
    ELSE LET p == IF SubSeq(s.body, 1, 4) = <<"gcm", alg, x.key, x.iv>> THEN s.body[5] ELSE "garbage" IN
         IF s.tag = <<"tag", alg, x.key, x.iv, x.aad, p>> THEN <<p>> ELSE <<>>
(* The plaintext's HMAC goes in front of it, and CTR over both.             *)
Sm4MteEncrypt(alg, x) ==
    IF x.ct # MteMacSize + x.len THEN <<>>
    ELSE <<[body |-> <<"mte", x.key, x.iv, <<"hmac", <<x.iv, x.key>>, x.p>>, x.p>>, size |-> MteMacSize + x.len, tag |-> <<>>, mac |-> x.mac]>>
MteParts(x, s) == IF SubSeq(s.body, 1, 3) = <<"mte", x.key, x.iv>> THEN <<s.body[4], s.body[5]>> ELSE <<<<"hmac", <<"garbage">>, "garbage">>, "garbage">>
Sm4MteDecryptUnchecked(alg, x, s) == IF s.size <= MteMacSize \/ s.size - MteMacSize # x.out THEN <<>> ELSE <<MteParts(x, s)[2]>>
Sm4MteDecrypt(alg, x, s) ==
    IF s.size <= MteMacSize \/ s.size - MteMacSize # x.out \/ MteParts(x, s)[1] # <<"hmac", <<x.iv, x.key>>, MteParts(x, s)[2]>> THEN <<>>
    ELSE <<MteParts(x, s)[2]>>
AeadEncrypt(alg, x) == IF alg = "SM4_MTE_HMAC_SM3" THEN Sm4MteEncrypt(alg, x) ELSE GcmEncrypt(alg, x)
AeadDecrypt(alg, x, s) == IF alg = "SM4_MTE_HMAC_SM3" THEN Sm4MteDecrypt(alg, x, s) ELSE GcmDecrypt(alg, x, s)

(* Encrypt is called with spans of the size its algorithm wants or of       *)
(* another; then one thing may change, and Decrypt is called.               *)
AeadCalls == [key : {"k"}, ksize : {2, 4}, iv : {"i"}, ivfits : BOOLEAN, aad : {"", "a"}, p : {"p"}, len : {0, 3}, ct : {0, 3, 4, 7}, mac : {2, 4}, out : {0, 3}]
CiAeadStart == \E alg \in AeadTypes, x \in AeadCalls :
    Start("ciphers", [kind |-> "aead", alg |-> alg, x |-> x, y |-> x, changed |-> "none", sealed |-> <<>>, done |-> FALSE, opened |-> <<>>])
CiSeal ==
    /\ st.kind = "aead" /\ st.sealed = <<>>
    /\ LET s == AeadEncrypt(st.alg, st.x) IN s # <<>> /\ Step("ciphers", [st EXCEPT !.sealed = s])
CiChange ==
    /\ st.kind = "aead" /\ st.sealed # <<>> /\ ~st.done /\ st.changed = "none"
    /\ \/ \E f \in {"key", "iv", "aad"} : Step("ciphers", [st EXCEPT !.y[f] = "other", !.changed = f])
       \/ \E v \in {"hmac", "text"} : st.alg = "SM4_MTE_HMAC_SM3" /\
              Step("ciphers", [st EXCEPT !.sealed[1].body[IF v = "hmac" THEN 4 ELSE 5] = IF v = "hmac" THEN <<"hmac", <<>>, "q">> ELSE "q", !.changed = "body"])
       \/ st.alg # "SM4_MTE_HMAC_SM3" /\ Step("ciphers", [st EXCEPT !.sealed[1].body[5] = "q", !.changed = "body"])
       \/ st.alg # "SM4_MTE_HMAC_SM3" /\ Step("ciphers", [st EXCEPT !.sealed[1].tag = <<"other">>, !.changed = "tag"])
CiOpen ==
    /\ st.kind = "aead" /\ st.sealed # <<>> /\ ~st.done
    /\ Step("ciphers", [st EXCEPT !.done = TRUE, !.opened = AeadDecrypt(st.alg, st.y, st.sealed[1])])

CiInit == CiBlockStart \/ CiHashStart \/ CiAeadStart
CiNext ==
    /\ part = "ciphers"
    /\ \/ CiEncrypt \/ CiDecrypt \/ CiReset \/ CiUpdate \/ CiHashReset \/ CiCumulative \/ CiSeal \/ CiChange \/ CiOpen

-----------------------------------------------------------------------------
(* The two contexts of a BlockCipher keep in step: however the bytes are    *)
(* cut into calls, and after any Reset and any refused call, Decrypt gives  *)
(* back what Encrypt was given.                                             *)
CipherContextsInStep == part = "ciphers" /\ st.kind = "block" => st.got = SubSeq(st.pt, 1, Len(st.got))

(* A digest is of everything since the last Reset, also when digests were   *)
(* taken in between.                                                        *)
DigestOfAllUpdates == part = "ciphers" /\ st.kind = "hash" /\ st.out # <<>> => st.out = <<"digest", st.since>>

(* Decrypt returns the plaintext exactly when nothing Encrypt was given and *)
(* made has changed; SM4_MTE takes no additional data, and does not open an *)
(* empty text.  The size GetMacSize names is always room enough.            *)
AeadOpensItsOwn ==
    part = "ciphers" /\ st.kind = "aead" /\ st.done =>
        LET mte == st.alg = "SM4_MTE_HMAC_SM3"
            intact == st.changed = "none" \/ (mte /\ st.changed = "aad")
        IN /\ st.opened # <<>> => st.opened = <<st.x.p>> /\ intact
           /\ intact /\ st.x.out = st.x.len /\ st.x.mac = GetMacSize(st.alg) /\ (mte => st.x.len > 0) => st.opened # <<>>

-----------------------------------------------------------------------------
(* utils/ossl/key_utils, sign, pke, kem and envelope: a key pair is made,   *)
(* its halves travel as PEM or DER, in memory, in a file or in an X.509     *)
(* certificate, and are loaded and used where they arrive.                  *)

KeyAlgs == {"RSA", "SM2", "ML-DSA", "EC"}
(* A key in memory: the pair it is of and whether the secret half is there. *)
GenKeyPair(alg, pair) == [alg |-> alg, pair |-> pair, secret |-> TRUE]

-----------------------------------------------------------------------------
(* Export.  <<>> is a call that throws; what a key is written as is its     *)
(* encoding and which half it holds.  The file forms of DER write PEM.      *)
KeyForms == {"pem buf", "pem file", "der buf", "der file"}
EncodingOf(form) == IF form = "der buf" THEN "DER" ELSE "PEM"
ExportPublicKey(k, form) == <<[what |-> "key", enc |-> EncodingOf(form), alg |-> k.alg, pair |-> k.pair, secret |-> FALSE]>>
ExportSecretKeyHalf(k, form) ==
    IF ~k.secret THEN <<>> ELSE <<[what |-> "key", enc |-> EncodingOf(form), alg |-> k.alg, pair |-> k.pair, secret |-> form # "der file"]>>
ExportSecretKey(k, form) ==
    IF ~k.secret THEN <<>> ELSE <<[what |-> "key", enc |-> EncodingOf(form), alg |-> k.alg, pair |-> k.pair, secret |-> TRUE]>>
(* LoadKeyFromBuf finds out encoding, structure and type by itself.         *)
LoadKey(b) == IF b.what # "key" THEN <<>> ELSE <<[alg |-> b.alg, pair |-> b.pair, secret |-> b.secret]>>

(* MakeX509Cert puts pk into the certificate and signs with sk, which is    *)
(* not compared with pk.  An ML-DSA key signs without a digest.             *)
SignMd(sk, hash) == IF sk.alg = "ML-DSA" THEN "none" ELSE hash
MakeX509Cert(pk, sk, subjects, hash) ==
    IF hash \notin {"SHA256", "SM3"} \/ ~subjects \/ ~sk.secret THEN <<>>
    ELSE <<[what |-> "cert", enc |-> "PEM", alg |-> pk.alg, pair |-> pk.pair, signer |-> sk.pair, md |-> SignMd(sk, hash)]>>
LoadX509CertSigner(b) == IF b.what # "cert" THEN <<>> ELSE <<[alg |-> b.alg, pair |-> b.signer, secret |-> FALSE]>>
LoadX509CertPublicKey(b) == IF b.what # "cert" THEN <<>> ELSE <<[alg |-> b.alg, pair |-> b.pair, secret |-> FALSE]>>

-----------------------------------------------------------------------------
(* Use.  RSA signs the SHA-256 of the message, SM2 its SM3 under the        *)
(* default id, ML-DSA the message.                                          *)
ToBeSigned(alg, m) == IF alg = "RSA" THEN <<"SHA256", m>> ELSE IF alg = "SM2" THEN <<"SM3", "1234567812345678", m>> ELSE <<m>>
SignMessage(sk, m) == IF ~sk.secret THEN <<>> ELSE <<[by |-> sk.pair, alg |-> sk.alg, over |-> ToBeSigned(sk.alg, m)]>>
(* A signature that does not fit is refused or, when OpenSSL cannot even    *)
(* read it, makes Verify throw.                                             *)
VerifyMessage(pk, m, sig) ==
    IF sig.by = pk.pair /\ sig.alg = pk.alg /\ sig.over = ToBeSigned(pk.alg, m) THEN {"true"} ELSE {"false", "throws"}
PkeEncrypt(pk, p) == [to |-> pk.pair, alg |-> pk.alg, p |-> p]
PkeDecrypt(sk, c) == IF ~sk.secret \/ c.to # sk.pair THEN <<>> ELSE <<c.p>>
(* The shared secret of a KEM; with another secret key one gets another.    *)
Encapsulate(pk) == [ciphertext |-> [to |-> pk.pair, r |-> 1], secret |-> <<"shared", pk.pair, 1>>]
Decapsulate(sk, c) == IF ~sk.secret THEN <<>> ELSE <<(IF c.to = sk.pair THEN <<"shared", sk.pair, c.r>> ELSE <<"other", sk.pair, c.r>>)>>
(* The envelopes: a fresh symmetric key seals the text and                  *)
(* is itself encrypted for the receiver.                                    *)
EnvSealNoIv(pk, iv, p) == [key |-> PkeEncrypt(pk, "fresh"), body |-> <<"fresh", "", p>>]
EnvSeal(pk, iv, p) == [key |-> PkeEncrypt(pk, "fresh"), body |-> <<"fresh", iv, p>>]
EnvOpen(sk, iv, e) ==
    LET k == PkeDecrypt(sk, e.key) IN IF k = <<>> \/ e.body[1] # k[1] \/ e.body[2] # iv THEN <<>> ELSE <<e.body[3]>>

-----------------------------------------------------------------------------
(* One journey: pair 1's secret half, and the public half of pair 1 or 2,   *)
(* each exported in some form, loaded, and used once against each other.    *)
KeyUses == {"sign", "pke", "kem", "envelope"}
Serves(alg, use) ==
    CASE use = "sign" -> alg \in {"RSA", "SM2", "ML-DSA"} [] use = "kem" -> alg \in {"RSA", "EC"} [] OTHER -> alg \in {"RSA", "SM2"}
KeyInit == \E alg \in KeyAlgs :
    Start("keys", [at |-> "made", k |-> [i \in 1 .. 2 |-> GenKeyPair(alg, i)], skout |-> <<>>, pkout |-> <<>>, of |-> 0, half |-> TRUE,
                   sk |-> <<>>, pk |-> <<>>, use |-> "none", cut |-> FALSE, got |-> <<>>])
KeyExportSecret ==
    /\ st.at = "made"
    /\ \E form \in KeyForms, half \in BOOLEAN :
        Step("keys", [st EXCEPT !.at = "secret out", !.half = half,
                                !.skout = IF half THEN ExportSecretKey(st.k[1], form) ELSE ExportPublicKey(st.k[1], form)])
KeyExportPublic ==
    st.at = "secret out" /\ \E form \in KeyForms, i \in 1 .. 2 : Step("keys", [st EXCEPT !.at = "out", !.of = i, !.pkout = ExportPublicKey(st.k[i], form)])
(* The issuer's key may be another pair's.                                  *)
KeyExportCert ==
    /\ st.at = "secret out"
    /\ \E i \in 1 .. 2, j \in 1 .. 2, subjects \in BOOLEAN, hash \in {"SHA256", "SM3", "SHA1"} :
        LET c == MakeX509Cert(st.k[i], st.k[j], subjects, hash) IN
        c # <<>> /\ Step("keys", [st EXCEPT !.at = "out", !.of = i, !.pkout = c])
KeyLoad ==
    /\ st.at = "out"
    /\ Step("keys", [st EXCEPT !.at = "loaded", !.sk = LoadKey(st.skout[1]),
                     !.pk = IF st.pkout[1].what = "cert" THEN LoadX509CertPublicKey(st.pkout[1]) ELSE LoadKey(st.pkout[1])])
Used(use, cut, got) == Step("keys", [st EXCEPT !.at = "used", !.use = use, !.cut = cut, !.got = got])
KeySign ==
    /\ st.at = "loaded" /\ Serves(st.sk[1].alg, "sign")
    /\ \E m \in {"m", "n"} : LET s == SignMessage(st.sk[1], "m") IN
       IF s = <<>> THEN Used("sign", m # "m", <<>>) ELSE \E r \in VerifyMessage(st.pk[1], m, s[1]) : Used("sign", m # "m", <<r>>)
KeyPke == st.at = "loaded" /\ Serves(st.sk[1].alg, "pke") /\ Used("pke", FALSE, PkeDecrypt(st.sk[1], PkeEncrypt(st.pk[1], "p")))
KeyKem ==
    /\ st.at = "loaded" /\ Serves(st.sk[1].alg, "kem")
    /\ LET e == Encapsulate(st.pk[1]) d == Decapsulate(st.sk[1], e.ciphertext) IN
       Used("kem", FALSE, IF d = <<>> THEN <<>> ELSE <<IF d[1] = e.secret THEN "p" ELSE "other">>)
KeyEnvelope ==
    /\ st.at = "loaded" /\ Serves(st.sk[1].alg, "envelope")
    /\ \E iv \in {"i", "j"} : Used("envelope", iv # "i", EnvOpen(st.sk[1], iv, EnvSeal(st.pk[1], "i", "p")))
KeyNext ==
    /\ part = "keys"
    /\ \/ KeyExportSecret \/ KeyExportPublic \/ KeyExportCert \/ KeyLoad \/ KeySign \/ KeyPke \/ KeyKem \/ KeyEnvelope

-----------------------------------------------------------------------------
(* Whatever forms the halves travelled in, a signature verifies exactly     *)
(* when the secret half was exported, the public half is of the same pair   *)
(* and the message is the one signed.                                       *)
SignaturesMeetTheirKeys ==
    part = "keys" /\ st.at = "used" /\ st.use = "sign" => (st.got = <<"true">> <=> st.half /\ st.of = 1 /\ ~st.cut)

(* What is encrypted, encapsulated or sealed for a public half is read with *)
(* the secret half of the same pair, by nobody else, and an envelope under  *)
(* the iv it was sealed with.                                               *)
SecretsReachTheHolder ==
    part = "keys" /\ st.at = "used" /\ st.use # "sign" => (st.got = <<"p">> <=> st.half /\ st.of = 1 /\ ~st.cut)

(* A certificate hands out the key it was made for, whoever signed it.      *)
CertHandsOutItsKey == part = "keys" /\ st.at \in {"loaded", "used"} => st.pk # <<>> /\ st.pk[1].pair = st.of /\ ~st.pk[1].secret
=============================================================================
