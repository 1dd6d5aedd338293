------------------------------ MODULE Schemes -------------------------------
(* vss/poly.cc and vss/vss.cc: a secret is split in shares that are points  *)
(* of a random polynomial; commitments let a holder verify its share.       *)
(* Points of the group are written as their logarithms: MulBase(k) is k     *)
(* modulo the order, and the prime of the sharing is that order.            *)
EXTENDS Integers, Sequences, FiniteSets, SequencesExt, FiniteSetsExt, Scenario

CONSTANT VssTotal           \* shares dealt at most
VssSettings == {s \in {3, 5} \X (1 .. 3) \X (2 .. VssTotal) : s[2] <= s[3] /\ (s[1] = 5 => s[3] = 2)}   \* prime, threshold, total

(* An inverse, or <<>> when InvertMod throws.                               *)
ModInv(a, q) == IF a % q = 0 THEN <<>> ELSE <<CHOOSE b \in 1 .. q - 1 : (a * b) % q = 1>>

-----------------------------------------------------------------------------
(* Polynomial: coefficients from the constant term up; only the drawn ones  *)
(* are known to be below the modulus.                                       *)
Drawn(q, n) == [1 .. n -> 0 .. q - 1]
CreatePolynomialEqual(zero_value, rest) == <<zero_value>> \o [i \in DOMAIN rest |-> rest[1]]
CreatePolynomial(zero_value, rest) == <<zero_value>> \o rest
EvaluatePolynomial(q, coeffs, x) ==
    LET down == Reverse(coeffs)
    IN  FoldLeft(LAMBDA tmp, c : ((x * tmp) + c) % q, Head(down), Tail(down))

ProductOf(q, f) == FoldLeft(LAMBDA acc, v : (acc * v) % q, 1, f)
LagrangeComputeAtX(q, xs, i, y, target) ==
    LET others == SelectSeq([j \in 1 .. Len(xs) |-> j], LAMBDA j : j # i)
        num == ProductOf(q, [k \in 1 .. Len(others) |-> (xs[others[k]] - target) % q])
        inv == ModInv(ProductOf(q, [k \in 1 .. Len(others) |-> (xs[others[k]] - xs[i]) % q]), q)
    IN  IF inv = <<>> THEN <<>> ELSE <<(((y * num) % q) * inv[1]) % q>>
LagrangeInterpolation(q, xs, ys, target) ==
    LET terms == [i \in 1 .. Len(xs) |-> LagrangeComputeAtX(q, xs, i, ys[i], target)]
    IN  IF <<>> \in ToSet(terms) THEN <<>> ELSE <<FoldLeft(LAMBDA acc, t : (t[1] + acc) % q, 0, terms)>>

(* VerifiableSecretSharing: RecoverSecret uses the first threshold shares.  *)
RecoverSecretFewer(q, threshold, shares) ==
    IF Len(shares) < threshold THEN <<>>
    ELSE LagrangeInterpolation(q, [i \in 1 .. threshold - 1 |-> shares[i].x], [i \in 1 .. threshold - 1 |-> shares[i].y], 0)
RecoverSecret(q, threshold, shares) ==
    IF Len(shares) < threshold THEN <<>>
    ELSE LagrangeInterpolation(q, [i \in 1 .. threshold |-> shares[i].x], [i \in 1 .. threshold |-> shares[i].y], 0)

CreateCommits(q, coeffs) == [i \in DOMAIN coeffs |-> coeffs[i] % q]
VerifyCommitsLinear(q, share, commits) ==
    share.y % q = FoldLeft(LAMBDA gy, c : (gy + (c * share.x)) % q, commits[1], Tail(commits))
VerifyCommits(q, share, commits) ==
    share.y % q = FoldLeft(LAMBDA acc, c : LET pow == (acc.pow * share.x) % q IN [pow |-> pow, gy |-> (acc.gy + (c * pow)) % q],
                           [pow |-> 1, gy |-> commits[1]], Tail(commits)).gy

-----------------------------------------------------------------------------
CreateShare ==
    /\ st.kind = "deal" /\ Len(st.shares) < st.total
    /\ \E x \in 0 .. st.q - 1 :
         Step("vss", [st EXCEPT !.shares = Append(@, [x |-> x, y |-> EvaluatePolynomial(st.q, st.coeffs, x)])])
CommitPolynomial ==
    /\ st.kind = "deal" /\ Len(st.shares) = st.total
    /\ Step("vss", [kind |-> "dealt", q |-> st.q, threshold |-> st.threshold, secret |-> st.secret, coeffs |-> st.coeffs,
                    shares |-> st.shares, commits |-> CreateCommits(st.q, st.coeffs)])

(* Holders put shares together, in any order.                               *)
Recover ==
    /\ st.kind = "dealt"
    /\ \E n \in st.threshold - 1 .. Len(st.shares) : \E use \in [1 .. n -> DOMAIN st.shares] :
         /\ IsInjective(use)
         /\ LET got == [i \in 1 .. n |-> st.shares[use[i]]]
            IN  Step("vss", [kind |-> "recovered", q |-> st.q, threshold |-> st.threshold, secret |-> st.secret, got |-> got,
                             out |-> RecoverSecret(st.q, st.threshold, got)])

VssInit ==
    \E s \in VssSettings : \E secret \in (0 .. s[1] - 1) \union {s[1] + 1} : \E rest \in Drawn(s[1], s[2] - 1) :
        Start("vss", [kind |-> "deal", q |-> s[1], threshold |-> s[2], total |-> s[3], secret |-> secret,
                      coeffs |-> CreatePolynomial(secret, rest), shares |-> <<>>])
VssNext == part = "vss" /\ (CreateShare \/ CommitPolynomial \/ Recover)

-----------------------------------------------------------------------------
(* Whatever shares are put together and in whatever order, RecoverSecret    *)
(* gives the secret modulo the prime when its first threshold shares have   *)
(* distinct x, x = 0 included, and throws otherwise: a repeated x is a      *)
(* draw CreateShare does not exclude.                                       *)
SecretRecovered ==
    part = "vss" /\ st.kind = "recovered" =>
        st.out = (IF Len(st.got) >= st.threshold /\ IsInjective([i \in 1 .. st.threshold |-> st.got[i].x])
                  THEN <<st.secret % st.q>> ELSE <<>>)

(* The commitments accept exactly the points of the dealt polynomial: every *)
(* share dealt, and no share with another value.                            *)
ValueAt(q, coeffs, x) == MapThenSumSet(LAMBDA i : coeffs[i] * (IF i = 1 THEN 1 ELSE x ^ (i - 1)), DOMAIN coeffs) % q
CommitsBindShares ==
    part = "vss" /\ st.kind = "dealt" =>
        /\ \A i \in DOMAIN st.shares : VerifyCommits(st.q, st.shares[i], st.commits)
        /\ \A x, y \in 0 .. st.q - 1 : VerifyCommits(st.q, [x |-> x, y |-> y], st.commits) <=> y = ValueAt(st.q, st.coeffs, x)

(* Fewer shares than the threshold, none of them at x = 0, could have been  *)
(* dealt for every secret, by equally many of the polynomials that          *)
(* CreatePolynomial draws.                                                  *)
CouldDeal(secret) ==
    Cardinality({rest \in Drawn(st.q, st.threshold - 1) :
                   \A i \in DOMAIN st.shares : EvaluatePolynomial(st.q, CreatePolynomial(secret, rest), st.shares[i].x) = st.shares[i].y})
FewSharesHideSecret ==
    part = "vss" /\ st.kind = "deal" /\ Len(st.shares) < st.threshold /\ (\A i \in DOMAIN st.shares : st.shares[i].x # 0) =>
        \A secret \in 0 .. st.q - 1 : CouldDeal(secret) = CouldDeal(st.secret % st.q)

-----------------------------------------------------------------------------
(* oprf: a client learns a keyed function of its input from a server that   *)
(* does not see the input.  Points are logarithms modulo the order of the   *)
(* context's group; the client keeps its blind and, once used, its inverse. *)

CONSTANTS OprfOrders,       \* the suites: one group each, named by its prime order
          OprfInputs        \* inputs; every one hashes to a point that is not infinity

NoCtx == 0
BlindDraws(order) == 0 .. order - 1                     \* RandomLtN
OprfInv(a, q) == IF a % q = 0 THEN <<>> ELSE <<CHOOSE b \in 1 .. q - 1 : (a * b) % q = 1>>
HashToPoint(in, q) == 1 + (in % (q - 1))

(* Byte strings for the hashes.  snprintf with the string's own size copies *)
(* all but its last byte and writes a zero there; nothing for an empty one. *)
SnPrintfLess(s) == IF Len(s) < 2 THEN <<>> ELSE SubSeq(s, 1, Len(s) - 2) \o <<0, 0>>
SnPrintf(s) == IF s = <<>> THEN <<>> ELSE Front(s) \o <<0>>
DeriveInput(seed, info) == <<seed>> \o <<Len(info)>> \o SnPrintf(info) \o <<0>>
FinalizeInput(private_input, point) == <<Len(private_input)>> \o SnPrintf(private_input) \o <<1, point>>

-----------------------------------------------------------------------------
(* The server: the calls that set its key, and its answer to a request.     *)
ServerSetupCtx ==
    /\ st.kind = "run"
    /\ \E q \in OprfOrders : \E b \in BlindDraws(q) : Step("oprf", [st EXCEPT !.server = [ctx |-> q, blind |-> b]])
ServerRefreshBlind ==
    /\ st.kind = "run" /\ st.server.ctx # NoCtx
    /\ \E b \in BlindDraws(st.server.ctx) : Step("oprf", [st EXCEPT !.server.blind = b])
ServerClearBlind == st.kind = "run" /\ Step("oprf", [st EXCEPT !.server.blind = 0])
BlindEvaluate ==
    /\ st.kind = "run" /\ st.msg.at = "request" /\ st.server.ctx = st.msg.q
    /\ Step("oprf", [st EXCEPT !.msg.at = "answer", !.msg.point = (@ * st.server.blind) % st.msg.q, !.msg.key = st.server.blind])

(* The client: RefreshBlind and SetupCtx draw a blind and keep blind_inv_,  *)
(* ClearBlind drops both.  stale: a blind was drawn while the inverse of an *)
(* earlier one was kept.                                                    *)
ClientDraws(c, q, b) == [c EXCEPT !.ctx = q, !.blind = b, !.stale = @ \/ c.inv # 0]
NoMsg == [at |-> "none", in |-> 0, q |-> 0, point |-> 0, key |-> 0, out |-> <<>>]
SetupCtx ==
    /\ st.kind = "run"
    /\ \E q \in OprfOrders : \E b \in BlindDraws(q) : Step("oprf", [st EXCEPT !.client = ClientDraws(@, q, b), !.msg = NoMsg])
RefreshBlind ==
    /\ st.kind = "run" /\ st.client.ctx # NoCtx
    /\ \E b \in BlindDraws(st.client.ctx) : Step("oprf", [st EXCEPT !.client = ClientDraws(@, @.ctx, b), !.msg = NoMsg])
ClearBlindKeepInverse == st.kind = "run" /\ Step("oprf", [st EXCEPT !.client.blind = 0, !.client.stale = FALSE, !.msg = NoMsg])
ClearBlind == st.kind = "run" /\ Step("oprf", [st EXCEPT !.client.blind = 0, !.client.inv = 0, !.client.stale = FALSE, !.msg = NoMsg])
Blind ==
    /\ st.kind = "run" /\ st.client.ctx # NoCtx
    /\ \E in \in OprfInputs :
         LET q == st.client.ctx
         IN  Step("oprf", [st EXCEPT !.msg = [NoMsg EXCEPT !.at = "request", !.in = in, !.q = q,
                                                          !.point = (HashToPoint(in, q) * st.client.blind) % q]])
Finalize ==
    /\ st.kind = "run" /\ st.msg.at = "answer"
    /\ LET inv == IF st.client.inv = 0 THEN OprfInv(st.client.blind, st.client.ctx) ELSE <<st.client.inv>>
       IN  Step("oprf", IF inv = <<>> THEN [st EXCEPT !.msg.at = "threw"]
                        ELSE [st EXCEPT !.client.inv = inv[1], !.msg.at = "done",
                                        !.msg.out = FinalizeInput(<<>>, (st.msg.point * inv[1]) % st.client.ctx)])

OprfInfos == UNION {[1 .. n -> 1 .. 2] : n \in 0 .. 2}
OprfInit ==
    \/ Start("oprf", [kind |-> "run", server |-> [ctx |-> NoCtx, blind |-> 0],
                      client |-> [ctx |-> NoCtx, blind |-> 0, inv |-> 0, stale |-> FALSE], msg |-> NoMsg])
    \/ \E seeds \in [1 .. 2 -> 1 .. 2] : \E a, b \in OprfInfos : Start("oprf", [kind |-> "derive", seeds |-> seeds, a |-> a, b |-> b])
OprfNext == part = "oprf" /\ (ServerSetupCtx \/ ServerRefreshBlind \/ ServerClearBlind \/ BlindEvaluate
                                \/ SetupCtx \/ RefreshBlind \/ ClearBlind \/ Blind \/ Finalize)

-----------------------------------------------------------------------------
(* What Finalize hashes is the server's key of the answer times the         *)
(* input's point, whatever was refreshed or cleared before, as long as the  *)
(* client drew its blind with no inverse cached; a zero blind throws.  A    *)
(* client that refreshes after a Finalize keeps the old inverse and is      *)
(* excluded here (oprf.h:180).                                              *)
OprfEvaluates ==
    part = "oprf" /\ st.kind = "run" /\ ~st.client.stale =>
        /\ st.msg.at = "done" => st.msg.out = FinalizeInput(<<>>, (st.msg.key * HashToPoint(st.msg.in, st.msg.q)) % st.msg.q)
        /\ st.msg.at = "threw" => st.client.blind = 0

(* A key derived from a seed and an info is the same for the same two, and  *)
(* another for another seed or info; likewise the private input of          *)
(* Finalize.  Infos that differ in their last byte only are left out: the   *)
(* snprintf that copies an info puts a zero there.                          *)
DerivedFromSeedAndInfo ==
    part = "oprf" /\ st.kind = "derive" =>
        LET same == st.seeds[1] = st.seeds[2] /\ st.a = st.b
            lastOnly == st.seeds[1] = st.seeds[2] /\ Len(st.a) = Len(st.b) /\ \A i \in 1 .. Len(st.a) - 1 : st.a[i] = st.b[i]
        IN  same \/ ~lastOnly =>
              /\ (DeriveInput(st.seeds[1], st.a) = DeriveInput(st.seeds[2], st.b)) <=> same
              /\ (FinalizeInput(st.a, st.seeds[1]) = FinalizeInput(st.b, st.seeds[2])) <=> same

-----------------------------------------------------------------------------
(* tpre: A encrypts to herself, hands N proxies a fragment of a             *)
(* re-encryption key for B, and B decrypts with the answers of any t of     *)
(* them.  Points are written as their logarithms modulo TpreOrder.          *)

CONSTANTS TpreOrder,        \* prime order of the group
          TpreScalars,      \* what the random draws give
          TpreProxies       \* N

TpreInv(a) == IF a % TpreOrder = 0 THEN <<>> ELSE <<CHOOSE b \in 1 .. TpreOrder - 1 : (a * b) % TpreOrder = 1>>

(* CipherHash: 1 is added before the reduction by n - 1, so 0 is a value it *)
(* takes.  Any fixed function of the inputs stands for SM3.                 *)
Sm3(in) == FoldLeft(LAMBDA h, v : (h * 5) + v + 3, 0, in)
CipherHash(in) == (Sm3(in) + 1) % (TpreOrder - 1)
(* The key derived from a point: as many keys as points.                    *)
KDF(z) == <<z>>

-----------------------------------------------------------------------------
EnCapsulate(pk, r, u) ==
    [capsule |-> [E |-> r, V |-> u, s |-> (u + (r * CipherHash(<<r, u>>))) % TpreOrder], K |-> KDF((pk * (u + r)) % TpreOrder)]
DeCapsulate(sk, capsule) == KDF(((capsule.E + capsule.V) * sk) % TpreOrder)
CheckCapsuleSkipped(c) == TRUE
CheckCapsule(c) == c.s % TpreOrder = (c.V + (c.E * CipherHash(<<c.E, c.V>>))) % TpreOrder

(* GenerateReKey throws when d = 0.  The polynomial is evaluated at the     *)
(* hash of a fragment's id.  (U_1, z_1 and z_2, which nothing reads, are    *)
(* left out.)                                                               *)
ReKeyPoint(sk_A, pk_A, pk_B, id) == CipherHash(<<id, CipherHash(<<pk_A, pk_B, (pk_B * sk_A) % TpreOrder>>)>>)
ReKeyD(x_A, pk_B) == CipherHash(<<x_A, pk_B, (pk_B * x_A) % TpreOrder>>)
Coefficient0Plain(sk_A, d_inv) == sk_A
Coefficient0(sk_A, d_inv) == (sk_A * d_inv) % TpreOrder
RkOf(coefficients, s) ==
    FoldLeft(LAMBDA rk, j : (rk + (coefficients[j + 1] * (s ^ j))) % TpreOrder, coefficients[1], [j \in 1 .. Len(coefficients) - 1 |-> j])

ReEncapsulate(kfrag, capsule) ==
    IF ~CheckCapsule(capsule) THEN <<>>
    ELSE <<[E_1 |-> (capsule.E * kfrag.rk) % TpreOrder, V_1 |-> (capsule.V * kfrag.rk) % TpreOrder, id |-> kfrag.id, X_A |-> kfrag.X_A]>>

LambdaOf(S, i) ==
    FoldLeft(LAMBDA acc, j : IF i = j \/ acc = <<>> THEN acc
                             ELSE LET inv == TpreInv(S[j] - S[i]) IN IF inv = <<>> THEN <<>> ELSE <<(acc[1] * inv[1] * S[j]) % TpreOrder>>,
             <<1>>, [j \in DOMAIN S |-> j])
DeCapsulateFrags(sk_B, pk_A, pk_B, cfrags) ==
    LET D == CipherHash(<<pk_A, pk_B, (pk_A * sk_B) % TpreOrder>>)
        S == [i \in DOMAIN cfrags |-> CipherHash(<<cfrags[i].id, D>>)]
        lambdas == [i \in DOMAIN cfrags |-> LambdaOf(S, i)]
        d == CipherHash(<<cfrags[1].X_A, pk_B, (cfrags[1].X_A * sk_B) % TpreOrder>>)
        sum == MapThenSumSet(LAMBDA i : (cfrags[i].E_1 + cfrags[i].V_1) * lambdas[i][1], DOMAIN cfrags)
    IN  IF <<>> \in ToSet(lambdas) THEN <<>> ELSE KDF((sum * d) % TpreOrder)

-----------------------------------------------------------------------------
(* The message is sealed under the key of the capsule; another key does not *)
(* open it.                                                                 *)
Encrypt ==
    /\ st.kind = "keys"
    /\ \E r, u \in TpreScalars :
         LET c == EnCapsulate(st.a, r, u) IN Step("tpre", [st EXCEPT !.kind = "rekey", !.capsule = <<c.capsule>>, !.sealed = c.K])
GenerateReKey ==
    /\ st.kind = "rekey"
    /\ \E x_A \in TpreScalars : \E t \in 1 .. 2 : \E rest \in [1 .. t - 1 -> TpreScalars] : \E ids \in [1 .. TpreProxies -> TpreScalars] :
         LET d_inv == TpreInv(ReKeyD(x_A, st.b))
             rk == [i \in 1 .. TpreProxies |-> RkOf(<<Coefficient0(st.a, d_inv[1])>> \o rest, ReKeyPoint(st.a, st.a, st.b, ids[i]))]
         IN  Step("tpre", IF d_inv = <<>> THEN [st EXCEPT !.kind = "threw"]
                          ELSE [st EXCEPT !.kind = "proxies", !.t = t, !.kfrags = [i \in 1 .. TpreProxies |-> [id |-> ids[i], rk |-> rk[i], X_A |-> x_A]]])

(* Proxies answer in any order, each from the capsule that reached it; one  *)
(* may hold a damaged copy, one may answer twice.                           *)
ReEncrypt ==
    /\ st.kind = "proxies" /\ Len(st.cfrags) < st.t
    /\ \E i \in 1 .. TpreProxies : \E dirty \in BOOLEAN :
         LET capsule == IF dirty THEN [st.capsule[1] EXCEPT !.s = (@ + 1) % TpreOrder] ELSE st.capsule[1]
             got == ReEncapsulate(st.kfrags[i], capsule)
         IN  Step("tpre", [st EXCEPT !.cfrags = @ \o got, !.damaged = @ \/ (dirty /\ got # <<>>)])
DecryptFrags ==
    /\ st.kind = "proxies" /\ st.cfrags # <<>>
    /\ Step("tpre", [st EXCEPT !.kind = "opened", !.key = DeCapsulateFrags(st.b, st.a, st.b, st.cfrags)])

TpreInit ==
    \E a, b \in TpreScalars :
        Start("tpre", [kind |-> "keys", a |-> a, b |-> b, t |-> 0, capsule |-> <<>>, sealed |-> <<>>, kfrags |-> <<>>,
                       cfrags |-> <<>>, damaged |-> FALSE, key |-> <<>>])
TpreNext == part = "tpre" /\ (Encrypt \/ GenerateReKey \/ ReEncrypt \/ DecryptFrags)

-----------------------------------------------------------------------------
(* A's own key opens what she encrypted, and so do the fragments of any t   *)
(* proxies, in any order, when their ids hash apart; fragments that hash    *)
(* alike make DeCapsulateFrags throw.                                       *)
TpreOpens ==
    part = "tpre" /\ st.kind = "opened" =>
        LET S == [i \in DOMAIN st.cfrags |-> ReKeyPoint(st.a, st.a, st.b, st.cfrags[i].id)]
        IN  /\ DeCapsulate(st.a, st.capsule[1]) = st.sealed
            /\ (Len(st.cfrags) = st.t /\ IsInjective(S)) => st.key = st.sealed
            /\ ~IsInjective(S) => st.key = <<>>

(* A capsule whose s was damaged on the way to a proxy never becomes a      *)
(* fragment, and an undamaged one always does.                              *)
DamagedCapsuleRefused ==
    part = "tpre" /\ st.capsule # <<>> => ~st.damaged /\ CheckCapsule(st.capsule[1])
=============================================================================
