------------------------ MODULE QueryGatewayProofs ------------------------
(***************************************************************************)
(* The gateway's quota, cache and key set, for any number of requests,     *)
(* tenants, queries and rotations and any timeouts: what the cache returns *)
(* is fresh, and fits the request where the names of tenants and templates *)
(* are plain; and the scripts that run within a window of time let no more *)
(* pass than the quota, whatever runs late.                                *)
(***************************************************************************)
EXTENDS QueryGateway, TLAPS, FiniteSetTheorems

(* The bodies that handlers work on. *)
Sent(f, r) == UNION {resolveTemplate(request.body) : request \in HttpRequest[f][r]}
Bodies == UNION {UNION {Sent(f, r) : r \in Request} : f \in Features}

Authenticating == {"auth", "fetch", "verify"}
Codes == {NoAnswer, 200, 400, 401, 429, 500, 502}

(* What may be asked of the backends for a body. *)
Calls(f, body, t) ==
  {OpenObserveCall(body, t, resolveTenantMetadata("metadata" \in f, t))}
    \cup (IF body.lang = "promql" /\ "fallback" \in f THEN {FallbackCall(body, t)} ELSE {})

HandlerTypes ==
  /\ now \in 1..MaxTime /\ features \in Features
  /\ pc \in [Request -> PC]
  /\ DOMAIN http = Request /\ DOMAIN result = Request
  /\ tenant \in [Request -> Tenant \cup {Unset}] /\ arrived \in [Request -> Nat]
  /\ answer \in [Request -> Codes]

(* A request whose handler works on it. *)
InHand(r) ==
  /\ http[r].body \in Bodies /\ WellFormed(http[r].body)
  /\ http[r].token \in Token \cup {NoToken} /\ http[r].tenant \in Tenant \cup {Unset}
  /\ arrived[r] \in 1..now /\ now <= Deadline(r)

HandlerOK(r) ==
  /\ IF Active(r) THEN InHand(r) ELSE http[r] = NoHttp
  /\ IF Active(r) /\ pc[r] \notin Authenticating
     THEN tenant[r] \in Tenant /\ validate(http[r].body)
     ELSE tenant[r] = Unset
  /\ pc[r] = "done" <=> answer[r] # NoAnswer
  /\ answer[r] = 200 \/ pc[r] = "read" <=> result[r] # NoResult
  /\ pc[r] = "fallback" => http[r].body.lang = "promql" /\ "fallback" \in features
  /\ pc[r] = "read" =>
       result[r].readAt \in arrived[r]..now /\ result[r].call \in Calls(features, http[r].body, tenant[r])

(* An entry holds what a backend said of some request with its key, whose names are
   plain if the entry says so, and expires before that is older than the ttl and the
   life of a request. *)
CacheOK ==
  \A k \in DOMAIN cache :
    /\ cache[k].result.readAt \in 1..now /\ cache[k].expires \in Nat
    /\ cache[k].expires <= cache[k].result.readAt + RequestTimeout + CacheTTL
    /\ \E body \in Bodies, t \in Tenant :
         /\ validate(body) /\ k = buildCacheKey(body, t)
         /\ cache[k].result.call \in Calls(features, body, t)
         /\ cache[k].plain => Plain(body, t)

(* A stamp that let a tenant pass stays in its window for as long as it may count. *)
WindowOK(t) ==
  \A e \in admitted : e.tenant = t /\ now < e.stamp + Window =>
    e.stamp \in window[t] /\ e.stamp + Window <= expires[t]

(* A set that is on its way and was overtaken by a rotation was asked for before it. *)
FetchOK(r) ==
  /\ fetched[r] # NoSet =>
       pc[r] = "fetch" /\ (fetched[r] # published => arrived[r] <= rotatedAt)
  /\ pc[r] = "verify" => arrived[r] <= fetchedAt

KeySetOK == keySet # published => fetchedAt <= rotatedAt + FetchTimeout

HandlersOK == HandlerTypes /\ \A r \in Request : HandlerOK(r)

LimiterOK ==
  /\ LimiterTypeOK /\ DOMAIN window = Tenant /\ QuotaHolds
  /\ \A t \in Tenant : WindowOK(t)

KeysOK == AuthTypeOK /\ KeySetOK /\ \A r \in Request : FetchOK(r)

Inv == HandlersOK /\ LimiterOK /\ KeysOK /\ CacheOK

-----------------------------------------------------------------------------
(* The cache key.  Its parts are joined, and absent ones are left out, but it tells
   what a backend is asked. *)

Word == STRING \cup Lang \cup StepText \cup Tenant \cup {Pipe, Normalize}
Element == {"word", "time"} \X (Word \cup Nat)
Bar == <<"word", Pipe>>

IsRequested(b) ==
  /\ b.lang \in Lang /\ b.query \in Seq(STRING) /\ b.template \in STRING
  /\ b.start \in Nat /\ b.end \in Nat /\ b.step \in StepText /\ b.normalize \in BOOLEAN

LEMMA BodyTypes ==
  ASSUME NEW b \in Bodies
  PROVE  IsRequested(b)
<1>0. PICK f \in Features, r \in Request : b \in Sent(f, r)
  BY DEF Bodies
<1>1. PICK request \in HttpRequest[f][r] : b \in resolveTemplate(request.body)
  BY <1>0 DEF Sent
<1> DEFINE body == request.body
<1>2. IsBody(body) /\ b.query \in Seq(STRING)
  BY <1>1, RequestAssumption
<1>3. body \in [decodes : BOOLEAN, template : STRING, lang : Lang, step : StepText,
                variables : {body.variables}, query : Query \cup {NoQuery},
                start : Nat, end : Nat, normalize : BOOLEAN]
  BY <1>2 DEF IsBody
<1> HIDE DEF body
<1>4. CASE ~Configured(body)
  <2>1. b = body
    BY <1>1, <1>4 DEF resolveTemplate, body
  <2> QED
    BY <1>2, <1>3, <2>1 DEF IsRequested
<1>5. CASE Configured(body)
  <2>1. PICK template \in Rendered(body) :
          b = [body EXCEPT !.lang = Blank(@, Unset, template.lang),
                           !.query = Blank(@, NoQuery, template.query),
                           !.step = Blank(@, Unset, template.step)]
    BY <1>1, <1>5 DEF resolveTemplate, body
  <2>2. template.lang \in Lang /\ template.step \in StepText
    BY <1>5, TemplateAssumption DEF Rendered, Configured
  <2>3. /\ b.lang \in Lang /\ b.step \in StepText /\ b.template = body.template
        /\ b.start = body.start /\ b.end = body.end /\ b.normalize = body.normalize
    BY <1>3, <2>1, <2>2 DEF Blank
  <2> QED
    BY <1>2, <1>3, <2>3 DEF IsRequested
<1> QED
  BY <1>4, <1>5

LEMMA Joined ==
  ASSUME NEW s \in Seq(Element), NEW t \in Seq(Element)
  PROVE  /\ s \o t \in Seq(Element) /\ Len(s \o t) = Len(s) + Len(t)
         /\ \A i \in 1..Len(s) : (s \o t)[i] = s[i]
         /\ \A i \in 1..Len(t) : (s \o t)[Len(s) + i] = t[i]
         /\ \A i \in 1..(Len(s) + Len(t)) : i \notin 1..Len(s) =>
              i - Len(s) \in 1..Len(t) /\ (s \o t)[i] = t[i - Len(s)]
OBVIOUS

LEMMA WordsAre ==
  ASSUME NEW text \in Seq(Word)
  PROVE  /\ Words(text) \in Seq(Element) /\ Len(Words(text)) = Len(text)
         /\ \A i \in 1..Len(text) : Words(text)[i] = <<"word", text[i]>>
<1>1. DOMAIN text = 1..Len(text) /\ Len(text) \in Nat
  OBVIOUS
<1>2. \A i \in 1..Len(text) : <<"word", text[i]>> \in Element
  BY <1>1 DEF Element
<1> QED
  BY <1>1, <1>2 DEF Words

(* An optional part: a bar and what it holds, or nothing. *)
IsPart(s, e) == s \in Seq(Element) /\ Len(s) = 2 /\ s[1] = Bar /\ s[2] = e

LEMMA Single ==
  ASSUME NEW S, NEW e \in S
  PROVE  <<e>> \in Seq(S) /\ Len(<<e>>) = 1 /\ <<e>>[1] = e
<1>1. <<e>> \in Seq(S)
  OBVIOUS
<1>2. Len(<<e>>) = 1
  OBVIOUS
<1>3. <<e>>[1] = e
  OBVIOUS
<1> QED
  BY <1>1, <1>2, <1>3

LEMMA PartIs ==
  ASSUME NEW e \in Element
  PROVE  IsPart(Part(<<e>>), e)
<1> PICK text : text = <<Pipe>>
  OBVIOUS
<1> PICK bar : bar = Words(text)
  OBVIOUS
<1>0. Pipe \in Word
  BY DEF Word
<1>1. text \in Seq(Word) /\ Len(text) = 1 /\ text[1] = Pipe
  BY <1>0, Single
<1>2. bar \in Seq(Element) /\ Len(bar) = 1 /\ bar[1] = Bar
  BY <1>1, WordsAre DEF Bar
<1> PICK part : part = <<e>>
  OBVIOUS
<1>3. part \in Seq(Element) /\ Len(part) = 1 /\ part[1] = e
  BY Single
<1>4. Part(<<e>>) = bar \o part
  <2>1. Part(<<e>>) = Words(<<Pipe>>) \o <<e>>
    BY DEF Part
  <2> QED
    BY <2>1
<1>5. /\ bar \o part \in Seq(Element) /\ Len(bar \o part) = 2
      /\ (bar \o part)[1] = Bar /\ (bar \o part)[1 + 1] = e
  BY <1>2, <1>3, Joined
<1>6. 1 + 1 = 2
  OBVIOUS
<1>7. IsPart(bar \o part, e)
  BY <1>5, <1>6 DEF IsPart
<1> QED
  BY <1>4, <1>7

LEMMA TimeIs ==
  ASSUME NEW t \in Nat
  PROVE  /\ t = 0 => Time(t) = <<>>
         /\ t # 0 => IsPart(Time(t), <<"time", t>>)
<1>1. <<"time", t>> \in Element
  BY DEF Element
<1> QED
  BY <1>1, PartIs DEF Time

(* The two ends of the range. *)
LEMMA RangeIs ==
  ASSUME NEW b, IsRequested(b)
  PROVE  LET s == Time(b.start) \o Time(b.end) IN
         /\ s \in Seq(Element)
         /\ Len(s) = 0 \/ (Len(s) >= 2 /\ s[1] = Bar)
         /\ \A i \in 1..Len(s) : IF i \in {2, 4} THEN s[i][1] = "time" ELSE s[i] = Bar
         /\ HasTimeRange(b) =>
              Len(s) = 4 /\ s[2] = <<"time", b.start>> /\ s[4] = <<"time", b.end>>
         /\ ~HasTimeRange(b) => Len(s) \in {0, 2}
<1> PICK x : x = Time(b.start)
  OBVIOUS
<1> PICK y : y = Time(b.end)
  OBVIOUS
<1>1. /\ b.start \in Nat /\ b.end \in Nat
      /\ b.start = 0 => x = <<>>
      /\ b.start # 0 => IsPart(x, <<"time", b.start>>)
      /\ b.end = 0 => y = <<>>
      /\ b.end # 0 => IsPart(y, <<"time", b.end>>)
  BY TimeIs DEF IsRequested
<1>2. x \in Seq(Element) /\ y \in Seq(Element)
  <2>1. <<>> \in Seq(Element)
    OBVIOUS
  <2> QED
    BY <1>1, <2>1 DEF IsPart
<1>3. /\ x \o y \in Seq(Element) /\ Len(x \o y) = Len(x) + Len(y)
      /\ \A i \in 1..Len(x) : (x \o y)[i] = x[i]
      /\ \A i \in 1..Len(y) : (x \o y)[Len(x) + i] = y[i]
  BY <1>2, Joined
<1> PICK s : s = x \o y
  OBVIOUS
<1>4. CASE b.start = 0 /\ b.end = 0
  <2>1. Len(s) = 0
    BY <1>1, <1>3, <1>4
  <2> QED
    BY <1>3, <1>4, <2>1 DEF HasTimeRange
<1>5. CASE b.start # 0 /\ b.end = 0
  <2>1. Len(s) = 2 /\ s[1] = Bar /\ s[2] = <<"time", b.start>>
    BY <1>1, <1>3, <1>5 DEF IsPart
  <2> QED
    BY <1>3, <1>5, <2>1 DEF HasTimeRange, Bar
<1>6. CASE b.start = 0 /\ b.end # 0
  <2>1. Len(x) = 0
    BY <1>1, <1>6
  <2>6. Len(y) = 2
    BY <1>1, <1>6 DEF IsPart
  <2>4. Len(y) = 2 /\ Len(s) = 2 /\ 1 \in 1..Len(y) /\ 2 \in 1..Len(y)
    BY <1>3, <2>1, <2>6
  <2>5. \A i \in 1..Len(y) : s[0 + i] = y[i] /\ 0 + i = i
    BY <1>3, <2>1
  <2>3. s[1] = y[1] /\ s[2] = y[2]
    BY <2>4, <2>5
  <2>2. Len(s) = 2 /\ s[1] = Bar /\ s[2] = <<"time", b.end>>
    BY <1>1, <1>6, <2>3, <2>4 DEF IsPart
  <2> QED
    BY <1>3, <1>6, <2>2 DEF HasTimeRange, Bar
<1>7. CASE b.start # 0 /\ b.end # 0
  <2>1. Len(x) = 2 /\ Len(y) = 2
    BY <1>1, <1>7 DEF IsPart
  <2>2. /\ Len(s) = 4 /\ s[1] = Bar /\ s[2] = <<"time", b.start>>
        /\ s[2 + 1] = Bar /\ s[2 + 2] = <<"time", b.end>>
    BY <1>1, <1>3, <1>7, <2>1 DEF IsPart
  <2> QED
    BY SMTT(30), <1>3, <1>7, <2>2 DEF HasTimeRange, Bar
<1> QED
  BY <1>1, <1>4, <1>5, <1>6, <1>7

(* What stands for an absent part. *)
Nothing == <<>>

LEMMA NothingIs ==
  /\ Nothing \in Seq(Element) /\ Len(Nothing) = 0
  /\ \A q, e : IsPart(q, e) => q # Nothing
<1>1. Nothing \in Seq(Element) /\ Len(Nothing) = 0
  BY DEF Nothing
<1> QED
  BY <1>1 DEF IsPart

LEMMA JoinedPart ==
  ASSUME NEW s \in Seq(Element), NEW p, NEW e \in Element, p = Nothing \/ IsPart(p, e)
  PROVE  /\ s \o p \in Seq(Element)
         /\ \A i \in 1..Len(s) : (s \o p)[i] = s[i]
         /\ p = Nothing => Len(s \o p) = Len(s)
         /\ p # Nothing => /\ Len(s \o p) = Len(s) + 2
                        /\ (s \o p)[Len(s) + 1] = Bar /\ (s \o p)[Len(s) + 2] = e
<1>1. p \in Seq(Element) /\ (p = Nothing => Len(p) = 0)
  BY NothingIs DEF IsPart
<1>2. /\ s \o p \in Seq(Element) /\ Len(s \o p) = Len(s) + Len(p) /\ Len(s) \in Nat
      /\ \A i \in 1..Len(s) : (s \o p)[i] = s[i]
      /\ \A i \in 1..Len(p) : (s \o p)[Len(s) + i] = p[i]
  BY <1>1, Joined
<1>3. CASE p = Nothing
  BY <1>1, <1>2, <1>3
<1>4. CASE p # Nothing
  <2>1. Len(p) = 2 /\ p[1] = Bar /\ p[2] = e
    BY <1>4 DEF IsPart
  <2>2. 1 \in 1..Len(p) /\ 2 \in 1..Len(p)
    BY <2>1
  <2> QED
    BY <1>2, <1>4, <2>1, <2>2
<1> QED
  BY <1>3, <1>4

(* A range and two parts that may be missing. *)
LEMMA JoinedParts ==
  ASSUME NEW range \in Seq(Element), NEW step, NEW normal,
         NEW e \in Element, NEW f \in Element,
         step = Nothing \/ IsPart(step, e), normal = Nothing \/ IsPart(normal, f)
  PROVE  LET u == range \o step \o normal
             n == Len(range)
         IN  /\ u \in Seq(Element) /\ n \in Nat /\ Len(u) \in Nat /\ n <= Len(u)
             /\ \A i \in 1..n : u[i] = range[i]
             /\ \A i \in 1..Len(u) : i \in 1..n \/ u[i] \in {Bar, e, f}
             /\ step # Nothing => n + 2 \in 1..Len(u) /\ u[n + 1] = Bar /\ u[n + 2] = e
             /\ step = Nothing => \A i \in 1..Len(u) : i \in 1..n \/ u[i] \in {Bar, f}
<1> PICK half : half = range \o step
  OBVIOUS
<1> PICK u : u = half \o normal
  OBVIOUS
<1>1. /\ half \in Seq(Element)
      /\ \A i \in 1..Len(range) : half[i] = range[i]
      /\ step = Nothing => Len(half) = Len(range)
      /\ step # Nothing => /\ Len(half) = Len(range) + 2
                        /\ half[Len(range) + 1] = Bar /\ half[Len(range) + 2] = e
  BY JoinedPart
<1>2. /\ u \in Seq(Element)
      /\ \A i \in 1..Len(half) : u[i] = half[i]
      /\ normal = Nothing => Len(u) = Len(half)
      /\ normal # Nothing => /\ Len(u) = Len(half) + 2
                          /\ u[Len(half) + 1] = Bar /\ u[Len(half) + 2] = f
  <2>1. half \in Seq(Element)
    BY <1>1
  <2>2. /\ half \o normal \in Seq(Element)
        /\ \A i \in 1..Len(half) : (half \o normal)[i] = half[i]
        /\ normal = Nothing => Len(half \o normal) = Len(half)
        /\ normal # Nothing => /\ Len(half \o normal) = Len(half) + 2
                               /\ (half \o normal)[Len(half) + 1] = Bar
                               /\ (half \o normal)[Len(half) + 2] = f
    BY ONLY ZenonT(60), <2>1, JoinedPart, f \in Element, normal = Nothing \/ IsPart(normal, f)
  <2> QED
    BY <2>2
<1>3. Len(range) \in Nat /\ Len(half) \in Nat /\ Len(u) \in Nat
  BY <1>1, <1>2
<1> PICK n \in Nat : n = Len(range)
  BY <1>3
<1> PICK h \in Nat : h = Len(half)
  BY <1>3
<1> PICK m \in Nat : m = Len(u)
  BY <1>3
<1>4. /\ (h = n /\ step = Nothing) \/ (h = n + 2 /\ step # Nothing)
      /\ (m = h /\ normal = Nothing) \/ (m = h + 2 /\ normal # Nothing)
  <2>1. (step = Nothing => h = n) /\ (step # Nothing => h = n + 2)
    BY <1>1
  <2>2. (normal = Nothing => m = h) /\ (normal # Nothing => m = h + 2)
    BY <1>2
  <2> QED
    BY <2>1, <2>2
<1>5. \A i \in 1..n : i \in 1..h /\ u[i] = range[i]
  BY <1>1, <1>2, <1>4
<1>6. step # Nothing => n + 1 \in 1..h /\ n + 2 \in 1..h /\ u[n + 1] = Bar /\ u[n + 2] = e
  BY <1>1, <1>2, <1>4
<1>7. normal # Nothing => h + 2 \in 1..m /\ u[h + 1] = Bar /\ u[h + 2] = f
  BY SMTT(30), <1>2, <1>4
<1>8. \A i \in 1..m :
        \/ i \in 1..n
        \/ step # Nothing /\ (i = n + 1 \/ i = n + 2)
        \/ normal # Nothing /\ (i = h + 1 \/ i = h + 2)
  BY SMTT(30), <1>4
<1>9. \A i \in 1..m : i \in 1..n \/ u[i] \in {Bar, e, f}
  BY <1>6, <1>7, <1>8
<1>10. step = Nothing => \A i \in 1..m : i \in 1..n \/ u[i] \in {Bar, f}
  BY <1>7, <1>8
<1>12. n <= m /\ (step # Nothing => n + 2 \in 1..m)
  BY <1>4
<1> QED
  BY <1>2, <1>5, <1>6, <1>9, <1>10, <1>12

(* What the optional parts of a key tell: the range and the step. *)
Tells(u, b) ==
  /\ u \in Seq(Element)
  /\ HasTimeRange(b) =>
       Len(u) >= 4 /\ u[2] = <<"time", b.start>> /\ u[4] = <<"time", b.end>>
  /\ ~HasTimeRange(b) => ~(Len(u) >= 4 /\ u[2][1] = "time" /\ u[4][1] = "time")
  /\ b.step # Unset => \E i \in 1..Len(u) : u[i] = <<"word", b.step>>
  /\ \A i \in 1..Len(u) :
       \/ u[i][1] = "time" \/ u[i] = Bar \/ u[i] = <<"word", Normalize>>
       \/ b.step # Unset /\ u[i] = <<"word", b.step>>

LEMMA TailTells ==
  ASSUME NEW b, IsRequested(b), NEW step, NEW normal, NEW f \in Element,
         f = <<"word", Normalize>>,
         b.step = Unset => step = Nothing, b.step # Unset => IsPart(step, <<"word", b.step>>),
         normal = Nothing \/ IsPart(normal, f)
  PROVE  Tells(Time(b.start) \o Time(b.end) \o step \o normal, b)
<1> PICK range : range = Time(b.start) \o Time(b.end)
  OBVIOUS
<1> PICK u : u = range \o step \o normal
  OBVIOUS
<1>1. PICK e \in Element : e = <<"word", b.step>>
  <2>1. b.step \in Word
    BY DEF IsRequested, Word
  <2> QED
    BY <2>1 DEF Element
<1>2. b.step # Unset => step # Nothing
  BY <1>1, NothingIs
<1>3. /\ range \in Seq(Element)
      /\ Len(range) = 0 \/ (Len(range) >= 2 /\ range[1] = Bar)
      /\ \A i \in 1..Len(range) : IF i \in {2, 4} THEN range[i][1] = "time" ELSE range[i] = Bar
      /\ HasTimeRange(b) =>
           Len(range) = 4 /\ range[2] = <<"time", b.start>> /\ range[4] = <<"time", b.end>>
      /\ ~HasTimeRange(b) => Len(range) \in {0, 2}
  BY RangeIs
<1>4. step = Nothing \/ IsPart(step, e)
  BY <1>1
<1>5. LET n == Len(range)
      IN  /\ u \in Seq(Element) /\ n \in Nat /\ Len(u) \in Nat /\ n <= Len(u)
          /\ \A i \in 1..n : u[i] = range[i]
          /\ \A i \in 1..Len(u) : i \in 1..n \/ u[i] \in {Bar, e, f}
          /\ step # Nothing => n + 2 \in 1..Len(u) /\ u[n + 1] = Bar /\ u[n + 2] = e
          /\ step = Nothing => \A i \in 1..Len(u) : i \in 1..n \/ u[i] \in {Bar, f}
  <2>1. LET v == range \o step \o normal
            n == Len(range)
        IN  /\ v \in Seq(Element) /\ n \in Nat /\ Len(v) \in Nat /\ n <= Len(v)
            /\ \A i \in 1..n : v[i] = range[i]
            /\ \A i \in 1..Len(v) : i \in 1..n \/ v[i] \in {Bar, e, f}
            /\ step # Nothing => n + 2 \in 1..Len(v) /\ v[n + 1] = Bar /\ v[n + 2] = e
            /\ step = Nothing => \A i \in 1..Len(v) : i \in 1..n \/ v[i] \in {Bar, f}
    <3>1. range \in Seq(Element)
      BY <1>3
    <3>2. f \in Element /\ (normal = Nothing \/ IsPart(normal, f))
      OBVIOUS
    <3> QED
      BY ONLY <1>4, <3>1, <3>2, e \in Element, JoinedParts, Zenon
  <2> QED
    BY <2>1
<1>6. Bar[1] = "word" /\ e[1] = "word" /\ f[1] = "word"
  BY <1>1 DEF Bar
<1>8. HasTimeRange(b) =>
        Len(u) >= 4 /\ u[2] = <<"time", b.start>> /\ u[4] = <<"time", b.end>>
  <2> SUFFICES ASSUME HasTimeRange(b)
               PROVE  Len(u) >= 4 /\ u[2] = <<"time", b.start>> /\ u[4] = <<"time", b.end>>
    OBVIOUS
  <2>1. Len(range) = 4 /\ range[2] = <<"time", b.start>> /\ range[4] = <<"time", b.end>>
    BY <1>3
  <2>2. 2 \in 1..Len(range) /\ 4 \in 1..Len(range) /\ Len(u) >= 4
    <3>1. Len(range) \in Nat /\ Len(u) \in Nat /\ Len(range) <= Len(u)
      BY ONLY <1>5
    <3> QED
      BY ONLY <2>1, <3>1
  <2>3. u[2] = range[2] /\ u[4] = range[4]
    BY ONLY <1>5, <2>2
  <2> QED
    BY <2>1, <2>2, <2>3
<1>9. ~HasTimeRange(b) => ~(Len(u) >= 4 /\ u[2][1] = "time" /\ u[4][1] = "time")
  <2> SUFFICES ASSUME ~HasTimeRange(b), Len(u) >= 4
               PROVE  u[4][1] # "time"
    OBVIOUS
  <2>1. 4 \in 1..Len(u) /\ 4 \notin 1..Len(range)
    BY <1>3, <1>5
  <2>2. u[4] \in {Bar, e, f}
    BY <1>5, <2>1
  <2> QED
    BY <1>6, <2>2
<1>10. b.step # Unset => \E i \in 1..Len(u) : u[i] = <<"word", b.step>>
  BY <1>1, <1>2, <1>5
<1>11. ASSUME NEW i \in 1..Len(u)
       PROVE  \/ u[i][1] = "time" \/ u[i] = Bar \/ u[i] = <<"word", Normalize>>
              \/ b.step # Unset /\ u[i] = <<"word", b.step>>
  <2>1. CASE i \in 1..Len(range)
    <3>1. u[i] = range[i]
      BY <1>5, <2>1
    <3> QED
      BY <1>3, <2>1, <3>1
  <2>2. CASE i \notin 1..Len(range) /\ b.step # Unset
    <3>1. u[i] \in {Bar, e, f}
      BY <1>5, <2>2
    <3> QED
      BY <1>1, <2>2, <3>1
  <2>3. CASE i \notin 1..Len(range) /\ b.step = Unset
    <3>1. u[i] \in {Bar, f}
      BY <1>5, <2>3
    <3> QED
      BY <3>1
  <2> QED
    BY <2>1, <2>2, <2>3
<1>12. u \in Seq(Element)
  BY <1>5
<1>13. Tells(u, b)
  BY <1>8, <1>9, <1>10, <1>11, <1>12 DEF Tells
<1> QED
  BY <1>13

(* One word of a key. *)
LEMMA WordIs ==
  ASSUME NEW w \in Word
  PROVE  /\ <<"word", w>> \in Element
         /\ Words(<<w>>) = <<<<"word", w>>>>
         /\ Words(<<w>>) \in Seq(Element) /\ Len(Words(<<w>>)) = 1
         /\ Words(<<w>>)[1] = <<"word", w>>
<1> PICK e : e = <<"word", w>>
  OBVIOUS
<1> PICK text : text = <<w>>
  OBVIOUS
<1>1. e \in Element
  BY DEF Element
<1>2. text \in Seq(Word) /\ Len(text) = 1 /\ text[1] = w
  BY Single
<1>3. /\ Words(text) \in Seq(Element) /\ Len(Words(text)) = 1
      /\ Words(text)[1] = e
  <2>1. /\ Words(text) \in Seq(Element) /\ Len(Words(text)) = Len(text)
        /\ \A i \in 1..Len(text) : Words(text)[i] = <<"word", text[i]>>
    BY ONLY <1>2, WordsAre
  <2>2. 1 \in 1..Len(text)
    BY <1>2
  <2> QED
    BY <1>2, <2>1, <2>2
<1>4. <<e>> \in Seq(Element) /\ Len(<<e>>) = 1 /\ <<e>>[1] = e
  BY <1>1, Single
<1> PICK s \in Seq(Element) : s = Words(text)
  BY <1>3
<1> PICK q \in Seq(Element) : q = <<e>>
  BY <1>4
<1>5. s = q
  BY <1>3, <1>4
<1> QED
  BY <1>1, <1>3, <1>5

LEMMA OptionalTells ==
  ASSUME NEW b, IsRequested(b)
  PROVE  Tells(Optional(b), b)
<1>1. b.step \in Word /\ Normalize \in Word
  BY DEF IsRequested, Word
<1> PICK f : f = <<"word", Normalize>>
  OBVIOUS
<1> PICK e : e = <<"word", b.step>>
  OBVIOUS
<1>2. /\ f \in Element /\ Words(<<Normalize>>) = <<f>>
      /\ e \in Element /\ Words(<<b.step>>) = <<e>>
  BY <1>1, WordIs
<1>3. IsPart(Part(<<f>>), f) /\ IsPart(Part(<<e>>), e)
  BY <1>2, PartIs
<1>4. Optional(b) = Time(b.start) \o Time(b.end)
                     \o (IF b.step = Unset THEN Nothing ELSE Part(<<e>>))
                     \o (IF b.normalize THEN Part(<<f>>) ELSE Nothing)
  BY <1>2 DEF Optional, Nothing
<1> QED
  BY <1>2, <1>3, <1>4, TailTells

LEMMA Spliced ==
  ASSUME NEW S, NEW s \in Seq(S), NEW t \in Seq(S)
  PROVE  /\ s \o t \in Seq(S) /\ Len(s \o t) = Len(s) + Len(t)
         /\ \A i \in 1..Len(s) : (s \o t)[i] = s[i]
         /\ \A i \in 1..Len(t) : (s \o t)[Len(s) + i] = t[i]
OBVIOUS

LEMMA Wider ==
  ASSUME NEW S, NEW T, S \subseteq T, NEW s \in Seq(S)
  PROVE  s \in Seq(T)
<1>1. Len(s) \in Nat /\ DOMAIN s = 1..Len(s) /\ \A i \in 1..Len(s) : s[i] \in T
  OBVIOUS
<1> QED
  BY <1>1

LEMMA Pairs ==
  ASSUME NEW S, NEW x \in S, NEW y \in S
  PROVE  <<x, y>> \in Seq(S) /\ Len(<<x, y>>) = 2 /\ <<x, y>>[1] = x
OBVIOUS

(* How a key begins: the language, the query, and a bar. *)
Begins(front, b) ==
  LET n == Len(b.query) + 3
  IN  /\ front \in Seq(Element) /\ Len(front) = n
      /\ front[1] = <<"word", b.lang>> /\ front[n] = Bar
      /\ \A i \in 1..Len(b.query) : front[i + 2] = <<"word", b.query[i]>>

LEMMA KeyBegins ==
  ASSUME NEW b, IsRequested(b)
  PROVE  Begins(Words(<<b.lang, Pipe>> \o b.query \o <<Pipe>>), b)
<1> PICK query : query = b.query
  OBVIOUS
<1> PICK first : first = <<b.lang, Pipe>>
  OBVIOUS
<1> PICK last : last = <<Pipe>>
  OBVIOUS
<1> PICK half : half = first \o query
  OBVIOUS
<1> PICK text : text = half \o last
  OBVIOUS
<1>2. b.lang \in Word /\ Pipe \in Word
  BY DEF IsRequested, Word
<1>3. first \in Seq(Word) /\ Len(first) = 2 /\ first[1] = b.lang
  BY <1>2, Pairs
<1>4. last \in Seq(Word) /\ Len(last) = 1 /\ last[1] = Pipe
  BY <1>2, Single
<1>5. query \in Seq(Word) /\ Len(query) \in Nat
  <2>1. query \in Seq(STRING)
    BY DEF IsRequested
  <2>2. STRING \subseteq Word
    BY DEF Word
  <2>3. query \in Seq(Word)
    BY ONLY <2>1, <2>2, Wider
  <2> QED
    BY <2>3
<1>6. /\ half \in Seq(Word) /\ Len(half) = Len(first) + Len(query)
      /\ \A i \in 1..Len(first) : half[i] = first[i]
      /\ \A i \in 1..Len(query) : half[Len(first) + i] = query[i]
  BY <1>3, <1>5, Spliced
<1>7. /\ text \in Seq(Word) /\ Len(text) = Len(half) + Len(last)
      /\ \A i \in 1..Len(half) : text[i] = half[i]
      /\ \A i \in 1..Len(last) : text[Len(half) + i] = last[i]
  BY <1>4, <1>6, Spliced
<1> PICK n : n = Len(query) + 3
  OBVIOUS
<1>8. /\ n \in Nat /\ Len(half) = Len(query) + 2 /\ Len(text) = n
      /\ 1 \in 1..Len(first) /\ 1 \in 1..Len(half) /\ 1 \in 1..Len(last)
      /\ Len(half) + 1 = n
  BY <1>3, <1>4, <1>5, <1>6, <1>7
<1>9. text[1] = b.lang /\ text[n] = Pipe
  BY <1>3, <1>4, <1>6, <1>7, <1>8
<1>10. \A i \in 1..Len(query) : text[i + 2] = query[i]
  <2> SUFFICES ASSUME NEW i \in 1..Len(query)
               PROVE  text[i + 2] = query[i]
    OBVIOUS
  <2>1. half[2 + i] = query[i] /\ 2 + i = i + 2 /\ i + 2 \in 1..Len(half)
    BY <1>3, <1>5, <1>6, <1>8
  <2> QED
    BY <1>7, <2>1
<1> PICK front : front = Words(text)
  OBVIOUS
<1>11. /\ front \in Seq(Element) /\ Len(front) = n
       /\ \A i \in 1..n : front[i] = <<"word", text[i]>>
  BY ZenonT(60), <1>7, <1>8, WordsAre
<1>12. 1 \in 1..n /\ n \in 1..n /\ \A i \in 1..Len(query) : i + 2 \in 1..n
  BY <1>5, <1>8
<1>13. /\ front[1] = <<"word", b.lang>> /\ front[n] = Bar
       /\ \A i \in 1..Len(query) : front[i + 2] = <<"word", query[i]>>
  <2>1. front[1] = <<"word", text[1]>> /\ front[n] = <<"word", text[n]>>
    BY ONLY <1>11, <1>12
  <2>2. \A i \in 1..Len(query) : front[i + 2] = <<"word", text[i + 2]>>
    BY ONLY <1>11, <1>12
  <2> QED
    BY ONLY <1>9, <1>10, <2>1, <2>2 DEF Bar
<1>14. Begins(front, b)
  BY <1>11, <1>13 DEF Begins
<1> QED
  BY <1>14

(* A key for plain names: how it begins, a template if there is one, a bar, the tenant,
   and the optional parts. *)
Spells(k, b, t, u) ==
  \E n, front :
    /\ n \in Nat /\ Begins(front, b)
    /\ b.template = Unset => n = Len(b.query) + 5
    /\ b.template # Unset => n = Len(b.query) + 6
    /\ Len(k) = n + Len(u)
    /\ \A i \in 1..(Len(b.query) + 3) : k[i] = front[i]
    /\ k[n] = <<"word", t>> /\ (k[n - 2] = Bar <=> b.template = Unset)
    /\ \A i \in 1..Len(u) : k[n + i] = u[i]

LEMMA Assembled ==
  ASSUME NEW b, Len(b.query) \in Nat, NEW t, NEW front, Begins(front, b),
         b.template # Pipe, NEW template \in Seq(Element),
         b.template = Unset => Len(template) = 0,
         b.template # Unset => Len(template) = 1 /\ template[1] = <<"word", b.template>>,
         NEW part, IsPart(part, <<"word", t>>), NEW u \in Seq(Element)
  PROVE  Spells(front \o template \o part \o u, b, t, u)
<1> PICK half : half = front \o template
  OBVIOUS
<1> PICK head : head = half \o part
  OBVIOUS
<1> PICK k : k = head \o u
  OBVIOUS
<1>7. part \in Seq(Element) /\ Len(part) = 2 /\ part[2] = <<"word", t>>
  BY DEF IsPart
<1> PICK q \in Nat : q = Len(b.query)
  OBVIOUS
<1>9. /\ front \in Seq(Element) /\ Len(front) = q + 3 /\ front[q + 3] = Bar
  BY DEF Begins
<1>10. /\ half \in Seq(Element) /\ Len(half) = Len(front) + Len(template)
       /\ \A i \in 1..Len(front) : half[i] = front[i]
       /\ \A i \in 1..Len(template) : half[Len(front) + i] = template[i]
  <2>1. front \in Seq(Element) /\ template \in Seq(Element)
    BY <1>9
  <2>2. /\ front \o template \in Seq(Element)
        /\ Len(front \o template) = Len(front) + Len(template)
        /\ \A i \in 1..Len(front) : (front \o template)[i] = front[i]
        /\ \A i \in 1..Len(template) : (front \o template)[Len(front) + i] = template[i]
    BY ONLY <2>1, Spliced
  <2> QED
    BY ONLY <2>2, half = front \o template
<1>11. /\ head \in Seq(Element) /\ Len(head) = Len(half) + Len(part)
       /\ \A i \in 1..Len(half) : head[i] = half[i]
       /\ \A i \in 1..Len(part) : head[Len(half) + i] = part[i]
  <2>1. half \in Seq(Element) /\ part \in Seq(Element)
    BY <1>7, <1>10
  <2>2. /\ half \o part \in Seq(Element) /\ Len(half \o part) = Len(half) + Len(part)
        /\ \A i \in 1..Len(half) : (half \o part)[i] = half[i]
        /\ \A i \in 1..Len(part) : (half \o part)[Len(half) + i] = part[i]
    BY ONLY <2>1, Spliced
  <2> QED
    BY ONLY <2>2, head = half \o part
<1>12. /\ k \in Seq(Element) /\ Len(k) = Len(head) + Len(u)
       /\ \A i \in 1..Len(head) : k[i] = head[i]
       /\ \A i \in 1..Len(u) : k[Len(head) + i] = u[i]
  BY <1>11, Spliced
<1> PICK n : n = Len(head)
  OBVIOUS
<1>13. /\ n \in Nat /\ Len(half) = n - 2 /\ n - 2 \in Nat /\ q + 3 <= n - 2
       /\ b.template = Unset => n - 2 = q + 3 /\ n = q + 5
       /\ b.template # Unset => n - 2 = q + 4 /\ n = q + 6
  <2>1. /\ Len(half) = q + 3 + Len(template) /\ n = Len(half) + 2
        /\ b.template = Unset => Len(template) = 0
        /\ b.template # Unset => Len(template) = 1
    BY ONLY <1>7, <1>9, <1>10, <1>11, n = Len(head), b.template = Unset => Len(template) = 0,
       b.template # Unset => Len(template) = 1
  <2>2. CASE b.template = Unset
    BY ONLY <2>1, <2>2, q \in Nat
  <2>3. CASE b.template # Unset
    <3>1. Len(template) = 1
      BY <2>1, <2>3
    <3>2. Len(half) = q + 4 /\ n = q + 6
      BY ONLY <2>1, <3>1, q \in Nat
    <3> QED
      BY ONLY <2>3, <3>2, q \in Nat
  <2> QED
    BY <2>2, <2>3
<1>14. \A i \in 1..(q + 3) : k[i] = front[i]
  <2> SUFFICES ASSUME NEW i \in 1..(q + 3)
               PROVE  k[i] = front[i]
    OBVIOUS
  <2>1. i \in 1..Len(front) /\ i \in 1..Len(half) /\ i \in 1..Len(head)
    BY ONLY <1>9, <1>13, n = Len(head), i \in 1..(q + 3), q \in Nat
  <2> QED
    BY <1>10, <1>11, <1>12, <2>1
<1>15. k[n] = <<"word", t>>
  <2>1. n \in 1..Len(head) /\ Len(half) + 2 = n
    BY ONLY <1>13, n = Len(head), q \in Nat
  <2>2. 2 \in 1..Len(part) /\ part[2] = <<"word", t>>
    BY <1>7
  <2>3. head[Len(half) + 2] = part[2]
    BY ONLY <1>11, <2>2
  <2>4. k[n] = head[n]
    BY ONLY <1>12, <2>1
  <2> QED
    BY ONLY <2>1, <2>2, <2>3, <2>4
<1>16. k[n - 2] = half[n - 2]
  <2>1. n - 2 \in 1..Len(half) /\ n - 2 \in 1..Len(head)
    BY ONLY <1>13, n = Len(head), q \in Nat
  <2> QED
    BY ONLY <1>11, <1>12, <2>1
<1>17. k[n - 2] = Bar <=> b.template = Unset
  <2>1. CASE b.template = Unset
    <3>1. n - 2 \in 1..Len(front) /\ n - 2 = q + 3
      BY <1>9, <1>13, <2>1
    <3> QED
      BY <1>9, <1>10, <1>16, <2>1, <3>1
  <2>2. CASE b.template # Unset
    <3>1. 1 \in 1..Len(template) /\ n - 2 = Len(front) + 1
      BY <1>9, <1>13, <2>2
    <3>2. k[n - 2] = <<"word", b.template>>
      BY <1>10, <1>16, <2>2, <3>1
    <3>3. <<"word", b.template>> # Bar
      BY DEF Bar
    <3> QED
      BY <2>2, <3>2, <3>3
  <2> QED
    BY <2>1, <2>2
<1>18. Len(k) = n + Len(u) /\ \A i \in 1..Len(u) : k[n + i] = u[i]
  BY <1>12
<1>19. Spells(k, b, t, u)
  <2>1. /\ n \in Nat /\ Begins(front, b)
        /\ b.template = Unset => n = Len(b.query) + 5
        /\ b.template # Unset => n = Len(b.query) + 6
        /\ Len(k) = n + Len(u)
        /\ \A i \in 1..(Len(b.query) + 3) : k[i] = front[i]
        /\ k[n] = <<"word", t>> /\ (k[n - 2] = Bar <=> b.template = Unset)
        /\ \A i \in 1..Len(u) : k[n + i] = u[i]
    BY <1>13, <1>14, <1>15, <1>17, <1>18
  <2> QED
    BY ONLY <2>1 DEF Spells
<1> QED
  BY <1>19

LEMMA KeySpells ==
  ASSUME NEW b, IsRequested(b), NEW t \in Tenant, Plain(b, t)
  PROVE  Spells(buildCacheKey(b, t), b, t, Optional(b))
<1> PICK u : u = Optional(b)
  OBVIOUS
<1> PICK front : front = Words(<<b.lang, Pipe>> \o b.query \o <<Pipe>>)
  OBVIOUS
<1> PICK template : template = Spelled(b.template)
  OBVIOUS
<1> PICK part : part = Part(Spelled(t))
  OBVIOUS
<1>1. buildCacheKey(b, t) = front \o template \o part \o u
  BY DEF buildCacheKey
<1>2. Begins(front, b)
  BY KeyBegins
<1>3. b.template \in Word /\ t \in Word /\ t # Unset
  BY GatewayAssumption DEF IsRequested, Word
<1>4. /\ b.template # Pipe
      /\ b.template # Unset => template = Words(<<b.template>>)
      /\ b.template = Unset => template = Nothing
      /\ Spelled(t) = Words(<<t>>)
  BY <1>3 DEF Plain, OneWord, Spelled, Nothing
<1>5. IsPart(part, <<"word", t>>)
  <2>1. <<"word", t>> \in Element /\ Words(<<t>>) = <<<<"word", t>>>>
    BY <1>3, WordIs
  <2> QED
    BY <1>4, <2>1, PartIs
<1>6. /\ template \in Seq(Element)
      /\ b.template = Unset => Len(template) = 0
      /\ b.template # Unset => Len(template) = 1 /\ template[1] = <<"word", b.template>>
  BY <1>3, <1>4, WordIs, NothingIs
<1>8. u \in Seq(Element)
  BY OptionalTells DEF Tells
<1>9. Len(b.query) \in Nat
  BY DEF IsRequested
<1>10. Spells(front \o template \o part \o u, b, t, u)
  BY ONLY <1>2, <1>4, <1>5, <1>6, <1>8, <1>9, Assembled
<1> QED
  BY <1>1, <1>10

(* A plain tenant is the last word of a key that is neither a bar nor an optional part:
   no key can be read with its tenant further back. *)
LEMMA TenantIsLast ==
  ASSUME NEW k, NEW n \in Nat, NEW m \in Nat, NEW u \in Seq(Element), NEW b, NEW t, NEW s,
         Len(k) = n + Len(u), \A i \in 1..Len(u) : k[n + i] = u[i],
         Tells(u, b), IsRequested(b), Plain(s, t), k[m] = <<"word", t>>, m <= Len(k)
  PROVE  m <= n
<1> SUFFICES ASSUME n < m
             PROVE  FALSE
  OBVIOUS
<1> PICK i : i = m - n
  OBVIOUS
<1>1. i \in 1..Len(u) /\ n + i = m
  OBVIOUS
<1>2. u[i] = <<"word", t>>
  BY <1>1
<1>3. \/ u[i][1] = "time" \/ u[i] = Bar \/ u[i] = <<"word", Normalize>>
      \/ b.step # Unset /\ u[i] = <<"word", b.step>>
  BY <1>1 DEF Tells
<1>4. t # Pipe /\ t \notin StepText /\ t # Normalize
  BY DEF Plain, OneWord
<1>5. b.step \in StepText
  BY DEF IsRequested
<1> QED
  BY <1>2, <1>3, <1>4, <1>5 DEF Bar

LEMMA StepIsNoOther ==
  ASSUME NEW step \in StepText
  PROVE  step # Pipe /\ step # Normalize
BY DEF StepText, Pipe, Normalize, Unset

(* Plain requests with one key ask the same of the backends. *)
LEMMA KeyTells ==
  ASSUME NEW a \in Bodies, NEW b \in Bodies, NEW s \in Tenant, NEW t \in Tenant,
         Plain(a, s), Plain(b, t), buildCacheKey(a, s) = buildCacheKey(b, t)
  PROVE  /\ a.lang = b.lang /\ a.query = b.query /\ s = t /\ a.step = b.step
         /\ HasTimeRange(a) <=> HasTimeRange(b)
         /\ HasTimeRange(a) => a.start = b.start /\ a.end = b.end
<1>1. IsRequested(a) /\ IsRequested(b)
  BY BodyTypes
<1> PICK k : k = buildCacheKey(a, s)
  OBVIOUS
<1> PICK u : u = Optional(a)
  OBVIOUS
<1> PICK v : v = Optional(b)
  OBVIOUS
<1>2. Spells(k, a, s, u) /\ Spells(k, b, t, v) /\ Tells(u, a) /\ Tells(v, b)
  BY <1>1, KeySpells, OptionalTells
<1>3. /\ a.query \in Seq(STRING) /\ b.query \in Seq(STRING)
      /\ Len(a.query) \in Nat /\ Len(b.query) \in Nat
  BY <1>1 DEF IsRequested
<1>4. PICK n, front :
        /\ n \in Nat /\ Begins(front, a)
        /\ a.template = Unset => n = Len(a.query) + 5
        /\ a.template # Unset => n = Len(a.query) + 6
        /\ Len(k) = n + Len(u)
        /\ \A i \in 1..(Len(a.query) + 3) : k[i] = front[i]
        /\ k[n] = <<"word", s>> /\ (k[n - 2] = Bar <=> a.template = Unset)
        /\ \A i \in 1..Len(u) : k[n + i] = u[i]
  BY <1>2 DEF Spells
<1>5. PICK m, other :
        /\ m \in Nat /\ Begins(other, b)
        /\ b.template = Unset => m = Len(b.query) + 5
        /\ b.template # Unset => m = Len(b.query) + 6
        /\ Len(k) = m + Len(v)
        /\ \A i \in 1..(Len(b.query) + 3) : k[i] = other[i]
        /\ k[m] = <<"word", t>> /\ (k[m - 2] = Bar <=> b.template = Unset)
        /\ \A i \in 1..Len(v) : k[m + i] = v[i]
  BY <1>2 DEF Spells
<1>6. /\ u \in Seq(Element) /\ v \in Seq(Element)
      /\ Len(u) \in Nat /\ Len(v) \in Nat
  BY <1>2 DEF Tells
<1>7. n = m
  <2>1. n <= Len(k) /\ m <= Len(k)
    BY <1>4, <1>5, <1>6
  <2>2. m <= n
    BY ONLY <1>1, <1>2, <1>4, <1>5, <1>6, <2>1, TenantIsLast, Plain(b, t)
  <2>3. n <= m
    BY ONLY <1>1, <1>2, <1>4, <1>5, <1>6, <2>1, TenantIsLast, Plain(a, s)
  <2> QED
    BY <1>4, <1>5, <2>2, <2>3
<1>8. s = t
  BY <1>4, <1>5, <1>7
<1>9. Len(a.query) = Len(b.query)
  <2>1. a.template = Unset <=> b.template = Unset
    BY <1>4, <1>5, <1>7
  <2> QED
    BY <1>3, <1>4, <1>5, <1>7, <2>1
<1>10. \A i \in 1..(Len(a.query) + 3) : front[i] = other[i]
  BY <1>4, <1>5, <1>9
<1>11. a.lang = b.lang
  <2>1. front[1] = <<"word", a.lang>> /\ other[1] = <<"word", b.lang>>
    BY <1>4, <1>5 DEF Begins
  <2>2. 1 \in 1..(Len(a.query) + 3)
    BY <1>3
  <2>3. front[1] = other[1]
    BY ONLY <1>10, <2>2
  <2> QED
    BY <2>1, <2>3
<1>12. a.query = b.query
  <2>1. ASSUME NEW i \in 1..Len(a.query)
        PROVE  a.query[i] = b.query[i]
    <3>1. i + 2 \in 1..(Len(a.query) + 3) /\ i \in 1..Len(b.query)
      BY <1>3, <1>9
    <3>2. front[i + 2] = <<"word", a.query[i]>> /\ other[i + 2] = <<"word", b.query[i]>>
      BY <1>4, <1>5, <3>1 DEF Begins
    <3> QED
      BY <1>10, <3>1, <3>2
  <2> QED
    BY <1>3, <1>9, <2>1
<1>13. u = v
  <2>1. Len(u) = Len(v)
    BY <1>4, <1>5, <1>6, <1>7
  <2>2. \A i \in 1..Len(u) : u[i] = v[i]
    BY <1>4, <1>5, <1>7, <2>1
  <2> QED
    BY <1>6, <2>1, <2>2
<1>14. ASSUME NEW x, NEW y, IsRequested(x), IsRequested(y), Tells(u, x), Tells(u, y),
              x.step # Unset
       PROVE  x.step = y.step
  <2>1. PICK i \in 1..Len(u) : u[i] = <<"word", x.step>>
    BY <1>14 DEF Tells
  <2>2. \/ u[i][1] = "time" \/ u[i] = Bar \/ u[i] = <<"word", Normalize>>
        \/ y.step # Unset /\ u[i] = <<"word", y.step>>
    BY <1>14 DEF Tells
  <2>3. x.step # Pipe /\ x.step # Normalize
    BY <1>14, StepIsNoOther DEF IsRequested
  <2> QED
    BY <2>1, <2>2, <2>3 DEF Bar
<1>15. a.step = b.step
  BY <1>1, <1>2, <1>13, <1>14
<1>16. HasTimeRange(a) =>
         Len(u) >= 4 /\ u[2] = <<"time", a.start>> /\ u[4] = <<"time", a.end>>
  BY <1>2 DEF Tells
<1>17. ~HasTimeRange(a) => ~(Len(u) >= 4 /\ u[2][1] = "time" /\ u[4][1] = "time")
  BY <1>2 DEF Tells
<1>18. HasTimeRange(b) =>
         Len(u) >= 4 /\ u[2] = <<"time", b.start>> /\ u[4] = <<"time", b.end>>
  BY <1>2, <1>13 DEF Tells
<1>19. ~HasTimeRange(b) => ~(Len(u) >= 4 /\ u[2][1] = "time" /\ u[4][1] = "time")
  BY <1>2, <1>13 DEF Tells
<1>20. HasTimeRange(a) <=> HasTimeRange(b)
  <2>1. HasTimeRange(a) => Len(u) >= 4 /\ u[2][1] = "time" /\ u[4][1] = "time"
    BY <1>16
  <2>2. HasTimeRange(b) => Len(u) >= 4 /\ u[2][1] = "time" /\ u[4][1] = "time"
    BY <1>18
  <2> QED
    BY <1>17, <1>19, <2>1, <2>2
<1>21. HasTimeRange(a) => a.start = b.start /\ a.end = b.end
  <2> SUFFICES ASSUME HasTimeRange(a)
               PROVE  a.start = b.start /\ a.end = b.end
    OBVIOUS
  <2>1. <<"time", a.start>> = <<"time", b.start>> /\ <<"time", a.end>> = <<"time", b.end>>
    BY <1>16, <1>18, <1>20
  <2> QED
    BY <2>1
<1> QED
  BY <1>8, <1>11, <1>12, <1>15, <1>20, <1>21

LEMMA SameCalls ==
  ASSUME NEW a \in Bodies, NEW b \in Bodies, NEW s \in Tenant, NEW t \in Tenant,
         Plain(a, s), Plain(b, t), buildCacheKey(a, s) = buildCacheKey(b, t)
  PROVE  \A f : Calls(f, a, s) = Calls(f, b, t)
<1>1. /\ a.lang = b.lang /\ a.query = b.query /\ s = t /\ a.step = b.step
      /\ HasTimeRange(a) <=> HasTimeRange(b)
      /\ HasTimeRange(a) => a.start = b.start /\ a.end = b.end
  BY KeyTells
<1>2. \A source : OpenObserveCall(a, s, source) = OpenObserveCall(b, t, source)
  BY <1>1 DEF OpenObserveCall
<1> QED
  BY <1>1, <1>2 DEF Calls, FallbackCall

-----------------------------------------------------------------------------
(* What the steps of a handler leave behind. *)

(* Only the handler of r moves, and time stands still. *)
Only(r) ==
  /\ now' = now /\ features' = features
  /\ \A q \in Request : q # r =>
       /\ pc'[q] = pc[q] /\ http'[q] = http[q] /\ tenant'[q] = tenant[q]
       /\ arrived'[q] = arrived[q] /\ result'[q] = result[q] /\ answer'[q] = answer[q]

LEMMA Handles ==
  ASSUME NEW r \in Request, HandlersOK, Only(r), HandlerTypes', HandlerOK(r)'
  PROVE  HandlersOK'
<1> SUFFICES ASSUME NEW q \in Request, q # r
             PROVE  HandlerOK(q)'
  BY DEF HandlersOK
<1>1. HandlerOK(q)
  BY DEF HandlersOK
<1>2. /\ pc'[q] = pc[q] /\ http'[q] = http[q] /\ tenant'[q] = tenant[q]
      /\ arrived'[q] = arrived[q] /\ result'[q] = result[q] /\ answer'[q] = answer[q]
      /\ now' = now /\ features' = features
  BY DEF Only
<1> QED
  BY <1>1, <1>2 DEF HandlerOK, Active, InHand, Deadline

LEMMA StepKeeps ==
  ASSUME NEW r \in Request, NEW label, HandlersOK, UNCHANGED <<now, features>>,
         Step(r, label), label \in PC \ {"idle", "done", "read"},
         pc[r] \in PC \ {"idle", "done", "read"},
         pc[r] \in Authenticating <=> label \in Authenticating,
         label = "fallback" => http[r].body.lang = "promql" /\ "fallback" \in features
  PROVE  /\ HandlersOK' /\ Only(r) /\ pc'[r] = label
         /\ arrived' = arrived /\ result' = result /\ answer' = answer
<1>1. HandlerTypes /\ HandlerOK(r)
  BY DEF HandlersOK
<1>2. /\ pc' = [pc EXCEPT ![r] = label] /\ http' = http /\ tenant' = tenant
      /\ arrived' = arrived /\ result' = result /\ answer' = answer
      /\ now' = now /\ features' = features
  BY DEF Step, Goto
<1>3. pc'[r] = label /\ HandlerTypes' /\ Only(r)
  BY <1>1, <1>2 DEF HandlerTypes, Only
<1>4. HandlerOK(r)'
  BY <1>1, <1>2, <1>3 DEF HandlerOK, Active, InHand, Deadline, Authenticating
<1> QED
  BY <1>2, <1>3, <1>4, Handles

LEMMA RefuseKeeps ==
  ASSUME NEW r \in Request, NEW code, HandlersOK, UNCHANGED <<now, features>>,
         Refuse(r, code), code \in Codes \ {NoAnswer, 200}
  PROVE  /\ HandlersOK' /\ Only(r) /\ pc'[r] = "done"
         /\ answer' = [answer EXCEPT ![r] = code]
<1>1. HandlerTypes /\ HandlerOK(r)
  BY DEF HandlersOK
<1>2. /\ pc' = [pc EXCEPT ![r] = "done"] /\ http' = [http EXCEPT ![r] = NoHttp]
      /\ tenant' = [tenant EXCEPT ![r] = Unset] /\ arrived' = [arrived EXCEPT ![r] = 0]
      /\ result' = [result EXCEPT ![r] = NoResult] /\ answer' = [answer EXCEPT ![r] = code]
      /\ now' = now /\ features' = features
  BY DEF Refuse, Reply, Goto
<1>3. /\ pc'[r] = "done" /\ http'[r] = NoHttp /\ tenant'[r] = Unset
      /\ result'[r] = NoResult /\ answer'[r] = code
  BY <1>1, <1>2 DEF HandlerTypes
<1>4. HandlerTypes' /\ Only(r)
  BY <1>1, <1>2 DEF HandlerTypes, Only, PC
<1>5. HandlerOK(r)'
  BY <1>3 DEF HandlerOK, Active
<1> QED
  BY <1>2, <1>3, <1>4, <1>5, Handles

LEMMA AcceptKeeps ==
  ASSUME NEW r \in Request, NEW t \in Tenant \cup {Unset}, HandlersOK,
         UNCHANGED <<now, features>>, pc[r] \in {"auth", "verify"}, Accept(r, t)
  PROVE  /\ HandlersOK' /\ Only(r)
         /\ pc'[r] \in {"limit", "done"}
         /\ answer'[r] # 200
<1>1. HandlerTypes /\ HandlerOK(r)
  BY DEF HandlersOK
<1>2. CASE t # Unset /\ validate(http[r].body)
  <2>1. /\ pc' = [pc EXCEPT ![r] = "limit"] /\ tenant' = [tenant EXCEPT ![r] = t]
        /\ http' = http /\ arrived' = arrived /\ result' = result /\ answer' = answer
        /\ now' = now /\ features' = features
    BY <1>2 DEF Accept, Goto
  <2>2. pc'[r] = "limit" /\ tenant'[r] = t
    BY <1>1, <2>1 DEF HandlerTypes
  <2>3. HandlerTypes' /\ Only(r)
    BY <1>1, <2>1 DEF HandlerTypes, Only, PC
  <2>4. /\ InHand(r) /\ pc[r] \in Authenticating
        /\ ~(answer[r] = 200 \/ pc[r] = "read") /\ answer[r] = NoAnswer /\ result[r] = NoResult
    BY <1>1 DEF HandlerOK, Active, Authenticating, NoAnswer
  <2>5. now <= arrived[r] + FetchTimeout /\ arrived[r] \in 1..now
    BY <2>4 DEF InHand, Deadline, Authenticating
  <2>6. now <= arrived[r] + RequestTimeout
    <3>1. FetchTimeout \in 1..RequestTimeout /\ RequestTimeout \in Nat /\ now \in Nat
      BY <1>1, AuthAssumption, GatewayAssumption DEF HandlerTypes
    <3> QED
      BY <2>5, <3>1
  <2>7. InHand(r)'
    BY <2>1, <2>2, <2>4, <2>6 DEF InHand, Deadline, Authenticating
  <2>8. tenant'[r] \in Tenant /\ validate(http'[r].body)
    BY <1>2, <2>1, <2>2
  <2>9. HandlerOK(r)'
    BY <2>1, <2>2, <2>4, <2>7, <2>8 DEF HandlerOK, Active, Authenticating, NoAnswer
  <2> QED
    BY <2>1, <2>2, <2>3, <2>4, <2>9, Handles DEF NoAnswer
<1>3. CASE ~(t # Unset /\ validate(http[r].body))
  <2>1. Refuse(r, 400)
    BY <1>3 DEF Accept
  <2>2. 400 \in Codes \ {NoAnswer, 200}
    BY DEF Codes, NoAnswer
  <2>3. /\ HandlersOK' /\ Only(r) /\ pc'[r] = "done"
        /\ answer' = [answer EXCEPT ![r] = 400]
    BY <2>1, <2>2, RefuseKeeps
  <2> QED
    BY <1>1, <2>3 DEF HandlerTypes
<1> QED
  BY <1>2, <1>3

LEMMA CallsAreKnown ==
  ASSUME NEW f, NEW body, NEW t
  PROVE  /\ OpenObserveCall(body, t, resolveTenantMetadata("metadata" \in f, t)) \in Calls(f, body, t)
         /\ body.lang = "promql" /\ "fallback" \in f =>
              FallbackCall(body, t) \in Calls(f, body, t)
BY DEF Calls

LEMMA ReceiveKeeps ==
  ASSUME NEW r \in Request, HandlersOK, Receive(r)
  PROVE  HandlersOK' /\ Only(r) /\ pc'[r] \in {"auth", "done"} /\ answer'[r] # 200
<1>1. HandlerTypes /\ HandlerOK(r) /\ pc[r] = "idle" /\ now' = now /\ features' = features
  BY DEF HandlersOK, Receive
<1>0. features \in Features
  BY <1>1 DEF HandlerTypes
<1>2. PICK request \in HttpRequest[features][r] :
        \E body \in resolveTemplate(request.body) :
           \/ /\ WellFormed(body)
              /\ http' = [http EXCEPT ![r] =
                            [body |-> body, asked |-> request.body,
                             token |-> request.token, tenant |-> request.tenant]]
              /\ arrived' = [arrived EXCEPT ![r] = now]
              /\ Goto(r, "auth")
              /\ UNCHANGED <<tenant, result, answer>>
           \/ ~WellFormed(body) /\ Refuse(r, 400)
  BY DEF Receive
<1>3. PICK body \in resolveTemplate(request.body) :
           \/ /\ WellFormed(body)
              /\ http' = [http EXCEPT ![r] =
                            [body |-> body, asked |-> request.body,
                             token |-> request.token, tenant |-> request.tenant]]
              /\ arrived' = [arrived EXCEPT ![r] = now]
              /\ Goto(r, "auth")
              /\ UNCHANGED <<tenant, result, answer>>
           \/ ~WellFormed(body) /\ Refuse(r, 400)
  BY <1>2
<1>4. CASE Refuse(r, 400)
  <2>1. 400 \in Codes \ {NoAnswer, 200}
    BY DEF Codes, NoAnswer
  <2>2. /\ HandlersOK' /\ Only(r) /\ pc'[r] = "done"
        /\ answer' = [answer EXCEPT ![r] = 400]
    BY <1>1, <1>4, <2>1, RefuseKeeps
  <2> QED
    BY <1>1, <2>2 DEF HandlerTypes
<1>5. CASE /\ WellFormed(body)
           /\ http' = [http EXCEPT ![r] =
                         [body |-> body, asked |-> request.body,
                          token |-> request.token, tenant |-> request.tenant]]
           /\ arrived' = [arrived EXCEPT ![r] = now]
           /\ Goto(r, "auth")
           /\ UNCHANGED <<tenant, result, answer>>
  <2>1. /\ pc' = [pc EXCEPT ![r] = "auth"] /\ tenant' = tenant /\ result' = result
        /\ answer' = answer
    BY <1>5 DEF Goto
  <2>2. /\ pc'[r] = "auth" /\ arrived'[r] = now
        /\ http'[r] = [body |-> body, asked |-> request.body,
                       token |-> request.token, tenant |-> request.tenant]
    BY <1>1, <1>5, <2>1 DEF HandlerTypes
  <2>3. http'[r].body = body /\ http'[r].token = request.token /\ http'[r].tenant = request.tenant
    BY <2>2
  <2>4. now \in 1..MaxTime /\ now \in Nat /\ MaxTime \in Nat /\ FetchTimeout \in Nat
    BY <1>1, AuthAssumption, GatewayAssumption DEF HandlerTypes
  <2>5. HandlerTypes' /\ Only(r)
    BY <1>1, <1>5, <2>1, <2>4 DEF HandlerTypes, Only, PC
  <2>6. body \in Bodies
    BY <1>0, <1>2, <1>3 DEF Bodies, Sent
  <2>7. request.token \in Token \cup {NoToken} /\ request.tenant \in Tenant \cup {Unset}
    BY <1>0, <1>2, RequestAssumption
  <2>8. InHand(r)'
    <3>1. now' <= Deadline(r)' /\ arrived'[r] \in 1..now'
      BY <1>1, <2>2, <2>4 DEF Deadline
    <3> QED
      BY <1>5, <2>3, <2>6, <2>7, <3>1 DEF InHand
  <2>9. tenant[r] = Unset /\ answer[r] = NoAnswer /\ result[r] = NoResult
    BY <1>1 DEF HandlerOK, Active, NoAnswer
  <2>10. HandlerOK(r)'
    BY <2>1, <2>2, <2>8, <2>9 DEF HandlerOK, Active, Authenticating, NoAnswer
  <2> QED
    BY <2>1, <2>2, <2>5, <2>9, <2>10, Handles DEF NoAnswer
<1> QED
  BY <1>3, <1>4, <1>5

LEMMA EvaluateKeeps ==
  ASSUME NEW r \in Request, NEW call \in Calls(features, http[r].body, tenant[r]),
         HandlersOK, pc[r] \in {"query", "fallback"}, Evaluate(r, call)
  PROVE  HandlersOK' /\ Only(r) /\ pc'[r] = "read" /\ answer' = answer
<1>1. HandlerTypes /\ HandlerOK(r)
  BY DEF HandlersOK
<1>2. /\ pc' = [pc EXCEPT ![r] = "read"] /\ http' = http /\ tenant' = tenant
      /\ arrived' = arrived /\ answer' = answer
      /\ result' = [result EXCEPT ![r] = [call |-> call, readAt |-> now]]
      /\ now' = now /\ features' = features
  BY DEF Evaluate, Goto
<1>3. pc'[r] = "read" /\ result'[r] = [call |-> call, readAt |-> now]
  BY <1>1, <1>2 DEF HandlerTypes
<1>4. HandlerTypes' /\ Only(r)
  BY <1>1, <1>2 DEF HandlerTypes, Only, PC
<1>5. result'[r].readAt = now /\ result'[r].call = call /\ now \in Nat /\ now # 0
  BY <1>1, <1>3, GatewayAssumption DEF HandlerTypes
<1>6. result'[r] # NoResult
  BY <1>5 DEF NoResult
<1>7. /\ InHand(r) /\ tenant[r] \in Tenant /\ validate(http[r].body)
      /\ answer[r] = NoAnswer
  BY <1>1 DEF HandlerOK, Active, Authenticating
<1>8. InHand(r)'
  BY <1>2, <1>3, <1>7 DEF InHand, Deadline, Authenticating
<1>9. result'[r].readAt \in arrived'[r]..now'
  BY <1>2, <1>5, <1>7 DEF InHand
<1>10. HandlerOK(r)'
  BY <1>2, <1>3, <1>5, <1>6, <1>7, <1>8, <1>9 DEF HandlerOK, Active, Authenticating, NoAnswer
<1> QED
  BY <1>2, <1>3, <1>4, <1>10, Handles

LEMMA ReplyKeeps ==
  ASSUME NEW r \in Request, HandlersOK, UNCHANGED <<now, features>>, Reply(r, 200),
         DOMAIN result' = Request, \A q \in Request : q # r => result'[q] = result[q],
         result'[r] # NoResult
  PROVE  HandlersOK' /\ Only(r) /\ pc'[r] = "done"
<1>1. HandlerTypes /\ HandlerOK(r)
  BY DEF HandlersOK
<1>2. /\ pc' = [pc EXCEPT ![r] = "done"] /\ http' = [http EXCEPT ![r] = NoHttp]
      /\ tenant' = [tenant EXCEPT ![r] = Unset] /\ arrived' = [arrived EXCEPT ![r] = 0]
      /\ answer' = [answer EXCEPT ![r] = 200]
      /\ now' = now /\ features' = features
  BY DEF Reply, Goto
<1>3. /\ pc'[r] = "done" /\ http'[r] = NoHttp /\ tenant'[r] = Unset /\ answer'[r] = 200
  BY <1>1, <1>2 DEF HandlerTypes
<1>4. HandlerTypes' /\ Only(r)
  BY <1>1, <1>2 DEF HandlerTypes, Only, PC, Codes
<1>5. HandlerOK(r)'
  BY <1>3 DEF HandlerOK, Active, NoAnswer
<1> QED
  BY <1>3, <1>4, <1>5, Handles

-----------------------------------------------------------------------------
(* What a step of a handler leaves alone. *)

LEMMA CacheRests ==
  ASSUME CacheOK, UNCHANGED <<now, features, cache>>
  PROVE  CacheOK'
BY DEF CacheOK

LEMMA KeysRest ==
  ASSUME NEW r \in Request, KeysOK, UNCHANGED authVars, Only(r),
         pc[r] # "fetch", pc'[r] # "verify"
  PROVE  KeysOK'
<1>1. /\ published' = published /\ rotatedAt' = rotatedAt /\ keySet' = keySet
      /\ fetchedAt' = fetchedAt /\ fetched' = fetched
  BY DEF authVars
<1>2. AuthTypeOK' /\ KeySetOK'
  BY <1>1 DEF KeysOK, AuthTypeOK, KeySetOK, Only
<1>3. ASSUME NEW q \in Request
      PROVE  FetchOK(q)'
  <2>1. FetchOK(q)
    BY DEF KeysOK
  <2>2. CASE q = r
    BY <1>1, <2>1, <2>2 DEF FetchOK
  <2>3. CASE q # r
    BY <1>1, <2>1, <2>3 DEF FetchOK, Only
  <2> QED
    BY <2>2, <2>3
<1> QED
  BY <1>2, <1>3 DEF KeysOK

LEMMA LimiterRests ==
  ASSUME LimiterOK, UNCHANGED <<now, limiterVars>>
  PROVE  LimiterOK'
<1>1. /\ bucket' = bucket /\ window' = window /\ expires' = expires /\ stamp' = stamp
      /\ admitted' = admitted /\ now' = now
  BY DEF limiterVars
<1>2. LimiterTypeOK' /\ DOMAIN window' = Tenant
  BY <1>1 DEF LimiterOK, LimiterTypeOK
<1>3. QuotaHolds'
  BY <1>1 DEF LimiterOK, QuotaHolds, Within
<1>4. \A t \in Tenant : WindowOK(t)'
  BY <1>1 DEF LimiterOK, WindowOK
<1> QED
  BY <1>2, <1>3, <1>4 DEF LimiterOK

-----------------------------------------------------------------------------
(* The quota. *)

LEMMA RangeIsFinite ==
  ASSUME NEW n \in Nat, NEW S \in SUBSET (0..n)
  PROVE  IsFiniteSet(S)
<1>1. IsFiniteSet(0..n)
  BY FS_Interval
<1> QED
  BY <1>1, FS_Subset

LEMMA Fewer ==
  ASSUME NEW n \in Nat, NEW T \in SUBSET (0..n), NEW S \in SUBSET T
  PROVE  Cardinality(S) \in Nat /\ Cardinality(T) \in Nat /\ Cardinality(S) <= Cardinality(T)
<1>1. IsFiniteSet(T)
  BY RangeIsFinite
<1> QED
  BY <1>1, FS_Subset, FS_CardinalityType

(* Whom the script lets pass. *)
Admitted(r, t) == [tenant |-> t, stamp |-> stamp[r], ran |-> now]

LEMMA AdmittedIs ==
  ASSUME NEW r, NEW t
  PROVE  /\ Admitted(r, t).tenant = t /\ Admitted(r, t).stamp = stamp[r]
         /\ Admitted(r, t).ran = now
BY DEF Admitted

(* What is known of the limiter, by its parts. *)
LEMMA LimiterIs ==
  ASSUME HandlersOK, LimiterOK
  PROVE  /\ now \in Nat /\ now <= MaxTime /\ MaxTime \in Nat /\ Window \in Nat \ {0}
         /\ Burst \in Nat
         /\ \A u \in Tenant : window[u] \subseteq 0..now /\ Cardinality(window[u]) <= Burst
         /\ expires \in [Tenant -> 0..(MaxTime + Window)]
         /\ stamp \in [Request -> 0..now]
         /\ admitted \subseteq [tenant : Tenant, stamp : 0..now, ran : 0..now]
         /\ \A e \in admitted : e.tenant \in Tenant /\ e.stamp \in 0..now /\ e.ran \in 0..now
         /\ bucket \in [Tenant -> 0..Burst]
         /\ DOMAIN window = Tenant
<1>1. /\ now \in Nat /\ now <= MaxTime /\ MaxTime \in Nat /\ Window \in Nat \ {0}
      /\ Burst \in Nat
  BY GatewayAssumption, LimiterAssumption DEF HandlersOK, HandlerTypes
<1>2. /\ \A u \in Tenant : window[u] \subseteq 0..now /\ Cardinality(window[u]) <= Burst
      /\ expires \in [Tenant -> 0..(MaxTime + Window)]
      /\ stamp \in [Request -> 0..now]
      /\ admitted \subseteq [tenant : Tenant, stamp : 0..now, ran : 0..now]
      /\ bucket \in [Tenant -> 0..Burst]
      /\ DOMAIN window = Tenant
  BY DEF LimiterOK, LimiterTypeOK
<1>3. \A e \in admitted : e.tenant \in Tenant /\ e.stamp \in 0..now /\ e.ran \in 0..now
  BY <1>2
<1> QED
  BY <1>1, <1>2, <1>3

(* The members that the script keeps: all that may still count. *)
LEMMA RecentIs ==
  ASSUME NEW r \in Request, NEW t \in Tenant, HandlersOK, LimiterOK
  PROVE  /\ Recent(r, t) \subseteq 0..now /\ IsFiniteSet(Recent(r, t))
         /\ Cardinality(Recent(r, t)) \in Nat /\ Cardinality(Recent(r, t)) <= Burst
         /\ \A e \in admitted : e.tenant = t /\ now < e.stamp + Window =>
              e.stamp \in Recent(r, t) /\ e.stamp + Window <= expires[t]
<1>1. /\ now \in Nat /\ Window \in Nat /\ Burst \in Nat
      /\ window[t] \subseteq 0..now /\ Cardinality(window[t]) <= Burst
      /\ expires[t] \in Nat /\ stamp[r] \in 0..now
      /\ \A e \in admitted : e.stamp \in 0..now
  BY LimiterIs
<1> PICK recent : recent = Recent(r, t)
  OBVIOUS
<1>2. recent = {s \in window[t] : now < expires[t] /\ s > stamp[r] - Window}
  BY DEF Recent
<1>3. recent \subseteq window[t] /\ recent \subseteq 0..now
  BY <1>1, <1>2
<1>4. Cardinality(recent) \in Nat /\ Cardinality(recent) <= Burst /\ IsFiniteSet(recent)
  <2>1. /\ Cardinality(recent) \in Nat /\ Cardinality(window[t]) \in Nat
        /\ Cardinality(recent) <= Cardinality(window[t])
    BY <1>1, <1>3, Fewer
  <2>2. IsFiniteSet(recent)
    BY <1>1, <1>3, RangeIsFinite
  <2> QED
    BY <1>1, <2>1, <2>2
<1>5. ASSUME NEW e \in admitted, e.tenant = t, now < e.stamp + Window
      PROVE  e.stamp \in recent /\ e.stamp + Window <= expires[t]
  <2>1. e.stamp \in window[t] /\ e.stamp + Window <= expires[t]
    BY <1>5 DEF LimiterOK, WindowOK
  <2>2. e.stamp \in Nat /\ stamp[r] \in Nat /\ stamp[r] <= now
    BY <1>1
  <2>3. now < expires[t] /\ e.stamp > stamp[r] - Window
    BY <1>1, <1>5, <2>1, <2>2
  <2> QED
    BY <1>2, <2>1, <2>3
<1> QED
  BY <1>3, <1>4, <1>5

LEMMA AllowsKeepsWindow ==
  ASSUME NEW r \in Request, NEW t \in Tenant, HandlersOK, LimiterOK, ScriptAllows(r, t),
         admitted' = admitted \cup {Admitted(r, t)},
         now' = now, bucket' = bucket, stamp' = stamp
  PROVE  LimiterTypeOK' /\ DOMAIN window' = Tenant /\ \A u \in Tenant : WindowOK(u)'
<1> PICK recent : recent = Recent(r, t)
  OBVIOUS
<1>1. /\ now \in Nat /\ now <= MaxTime /\ MaxTime \in Nat /\ Window \in Nat \ {0}
      /\ Burst \in Nat
      /\ \A u \in Tenant : window[u] \subseteq 0..now /\ Cardinality(window[u]) <= Burst
      /\ expires \in [Tenant -> 0..(MaxTime + Window)]
      /\ stamp \in [Request -> 0..now]
      /\ admitted \subseteq [tenant : Tenant, stamp : 0..now, ran : 0..now]
      /\ \A e \in admitted : e.tenant \in Tenant /\ e.stamp \in 0..now /\ e.ran \in 0..now
      /\ bucket \in [Tenant -> 0..Burst]
      /\ DOMAIN window = Tenant
  BY LimiterIs
<1>2. /\ recent \subseteq 0..now /\ IsFiniteSet(recent)
      /\ Cardinality(recent) \in Nat
      /\ \A e \in admitted : e.tenant = t /\ now < e.stamp + Window =>
           e.stamp \in recent /\ e.stamp + Window <= expires[t]
  BY RecentIs
<1>3. stamp[r] \in 0..now
  BY <1>1
<1>4. /\ Cardinality(recent) < Burst
      /\ window' = [window EXCEPT ![t] = recent \cup {stamp[r]}]
      /\ expires' = [expires EXCEPT ![t] = now + Window]
  BY DEF ScriptAllows
<1>5. /\ window'[t] = recent \cup {stamp[r]} /\ expires'[t] = now + Window
      /\ \A u \in Tenant : u # t => window'[u] = window[u] /\ expires'[u] = expires[u]
      /\ DOMAIN window' = Tenant
  BY <1>1, <1>4
<1>6. Cardinality(recent \cup {stamp[r]}) <= Burst
  <2>1. Cardinality(recent \cup {stamp[r]}) =
          IF stamp[r] \in recent THEN Cardinality(recent) ELSE Cardinality(recent) + 1
    BY <1>2, FS_AddElement
  <2> QED
    BY <1>1, <1>2, <1>4, <2>1
<1>7. LimiterTypeOK'
  <2>1. \A u \in Tenant : window'[u] \subseteq 0..now /\ Cardinality(window'[u]) <= Burst
    BY <1>1, <1>2, <1>3, <1>5, <1>6
  <2>2. expires' \in [Tenant -> 0..(MaxTime + Window)]
    BY <1>1, <1>4
  <2>3. admitted' \subseteq [tenant : Tenant, stamp : 0..now, ran : 0..now]
    <3>1. Admitted(r, t) \in [tenant : Tenant, stamp : 0..now, ran : 0..now]
      BY <1>1, <1>3 DEF Admitted
    <3> QED
      BY <1>1, <3>1
  <2> QED
    BY <1>1, <2>1, <2>2, <2>3 DEF LimiterTypeOK
<1>8. ASSUME NEW u \in Tenant
      PROVE  WindowOK(u)'
  <2> SUFFICES ASSUME NEW e \in admitted', e.tenant = u, now < e.stamp + Window
               PROVE  e.stamp \in window'[u] /\ e.stamp + Window <= expires'[u]
    BY DEF WindowOK
  <2>1. CASE e = Admitted(r, t)
    <3>1. u = t /\ e.stamp = stamp[r]
      BY <2>1, AdmittedIs
    <3> QED
      BY <1>1, <1>3, <1>5, <3>1
  <2>2. CASE e \in admitted /\ u = t
    <3>1. e.stamp \in recent /\ e.stamp \in 0..now
      BY <1>1, <1>2, <2>2
    <3> QED
      BY <1>1, <1>5, <2>2, <3>1
  <2>3. CASE e \in admitted /\ u # t
    BY <1>5, <2>3 DEF LimiterOK, WindowOK
  <2> QED
    BY <2>1, <2>2, <2>3
<1> QED
  BY <1>5, <1>7, <1>8

LEMMA RefusesKeepsWindow ==
  ASSUME NEW r \in Request, NEW t \in Tenant, HandlersOK, LimiterOK, ScriptRefuses(r, t),
         admitted' = admitted, now' = now, bucket' = bucket, stamp' = stamp
  PROVE  LimiterTypeOK' /\ DOMAIN window' = Tenant /\ \A u \in Tenant : WindowOK(u)'
<1> PICK recent : recent = Recent(r, t)
  OBVIOUS
<1>1. /\ Burst \in Nat /\ DOMAIN window = Tenant
      /\ \A u \in Tenant : window[u] \subseteq 0..now /\ Cardinality(window[u]) <= Burst
  BY LimiterIs
<1>2. /\ recent \subseteq 0..now /\ Cardinality(recent) <= Burst
      /\ \A e \in admitted : e.tenant = t /\ now < e.stamp + Window =>
           e.stamp \in recent /\ e.stamp + Window <= expires[t]
  BY RecentIs
<1>3. window' = [window EXCEPT ![t] = recent] /\ expires' = expires
  BY DEF ScriptRefuses
<1>4. /\ window'[t] = recent /\ DOMAIN window' = Tenant
      /\ \A u \in Tenant : u # t => window'[u] = window[u]
  BY <1>1, <1>3
<1>5. LimiterTypeOK'
  <2>1. \A u \in Tenant : window'[u] \subseteq 0..now /\ Cardinality(window'[u]) <= Burst
    BY <1>1, <1>2, <1>4
  <2> QED
    BY <1>3, <2>1 DEF LimiterOK, LimiterTypeOK
<1>6. ASSUME NEW u \in Tenant
      PROVE  WindowOK(u)'
  <2> SUFFICES ASSUME NEW e \in admitted, e.tenant = u, now < e.stamp + Window
               PROVE  e.stamp \in window'[u] /\ e.stamp + Window <= expires[u]
    BY <1>3 DEF WindowOK
  <2>1. CASE u # t
    BY <1>4, <2>1 DEF LimiterOK, WindowOK
  <2>2. CASE u = t
    BY <1>2, <1>4, <2>2
  <2> QED
    BY <2>1, <2>2
<1> QED
  BY <1>4, <1>5, <1>6

(* The stamps of a window of time in which the script has just run are all members of
   the set: none has been trimmed yet, and the set has not been dropped. *)
LEMMA AllowsKeepsQuota ==
  ASSUME NEW r \in Request, NEW t \in Tenant, HandlersOK, LimiterOK, LimiterTypeOK',
         WindowOK(t)', admitted' = admitted \cup {Admitted(r, t)},
         now' = now, stamp' = stamp
  PROVE  QuotaHolds'
<1> SUFFICES ASSUME NEW u \in Tenant, NEW from \in 0..MaxTime
             PROVE  Cardinality(Within(u, from)') <= Burst
  BY DEF QuotaHolds, Within
<1>1. /\ now \in Nat /\ MaxTime \in Nat /\ Window \in Nat /\ Burst \in Nat /\ from \in Nat
      /\ \A e \in admitted : e.stamp \in 0..now
      /\ stamp[r] \in 0..now
  BY LimiterIs
<1>2. /\ Admitted(r, t).tenant = t /\ Admitted(r, t).stamp = stamp[r]
      /\ Admitted(r, t).ran = now
  BY AdmittedIs
<1>3. Within(u, from)' =
        {e.stamp : e \in {a \in admitted' :
                            a.tenant = u /\ from <= a.stamp /\ a.ran < from + Window}}
  BY DEF Within
<1>4. CASE u # t \/ now >= from + Window
  <2>1. ~(Admitted(r, t).tenant = u /\ Admitted(r, t).ran < from + Window)
    BY <1>1, <1>2, <1>4
  <2>2. Within(u, from)' = Within(u, from)
    BY <1>3, <2>1 DEF Within
  <2>3. Cardinality(Within(u, from)) <= Burst
    BY DEF LimiterOK, QuotaHolds
  <2> QED
    BY <2>2, <2>3
<1>5. CASE u = t /\ now < from + Window
  <2>1. ASSUME NEW s \in Within(u, from)'
        PROVE  s \in window'[t]
    <3>1. PICK e \in admitted' : e.tenant = t /\ from <= e.stamp /\ s = e.stamp
      BY <1>3, <1>5
    <3>2. e.stamp \in 0..now
      BY <1>1, <1>2
    <3>3. now' < e.stamp + Window
      BY <1>1, <1>5, <3>1, <3>2
    <3> QED
      BY <3>1, <3>3 DEF WindowOK
  <2>2. window'[t] \subseteq 0..now /\ Cardinality(window'[t]) <= Burst
    BY DEF LimiterTypeOK
  <2>3. Within(u, from)' \in SUBSET window'[t]
    BY <2>1
  <2>4. /\ Cardinality(Within(u, from)') \in Nat /\ Cardinality(window'[t]) \in Nat
        /\ Cardinality(Within(u, from)') <= Cardinality(window'[t])
    BY <1>1, <2>2, <2>3, Fewer
  <2> QED
    BY <1>1, <2>2, <2>4
<1> QED
  BY <1>1, <1>4, <1>5

LEMMA LimiterStarts == Init => LimiterOK
<1> SUFFICES ASSUME Init
             PROVE  LimiterOK
  OBVIOUS
<1>1. /\ now = 1 /\ bucket = [t \in Tenant |-> Burst] /\ window = [t \in Tenant |-> {}]
      /\ expires = [t \in Tenant |-> 0] /\ stamp = [r \in Request |-> 0] /\ admitted = {}
  BY DEF Init, LimiterInit
<1>2. Burst \in Nat /\ Window \in Nat /\ MaxTime \in Nat
  BY LimiterAssumption, GatewayAssumption
<1>3. Cardinality({}) = 0
  BY FS_EmptySet
<1>4. LimiterTypeOK /\ DOMAIN window = Tenant
  BY <1>1, <1>2, <1>3 DEF LimiterTypeOK
<1>5. QuotaHolds
  <2>1. \A t \in Tenant : \A from \in 0..MaxTime : Within(t, from) = {}
    BY <1>1 DEF Within
  <2> QED
    BY <1>2, <1>3, <2>1 DEF QuotaHolds
<1>6. \A t \in Tenant : WindowOK(t)
  BY <1>1 DEF WindowOK
<1> QED
  BY <1>4, <1>5, <1>6 DEF LimiterOK

LEMMA AllowLocalLimits ==
  ASSUME NEW r \in Request, HandlersOK, LimiterOK, AllowLocal(r)
  PROVE  LimiterOK'
<1>1. /\ pc[r] = "limit" /\ window' = window /\ expires' = expires /\ admitted' = admitted
      /\ now' = now
  BY DEF AllowLocal
<1>2. HandlerTypes /\ HandlerOK(r) /\ now \in Nat
  BY GatewayAssumption DEF HandlersOK, HandlerTypes
<1>3. tenant[r] \in Tenant
  BY <1>1, <1>2 DEF HandlerOK, Active, Authenticating
<1>4. LimiterTypeOK
  BY DEF LimiterOK
<1>6. /\ bucket' = bucket \/ (HasToken(tenant[r]) /\ TakeToken(tenant[r]))
      /\ stamp' = stamp \/ ReadClock(r)
  BY DEF AllowLocal
<1>8. stamp' \in [Request -> 0..now]
  BY <1>2, <1>4, <1>6 DEF LimiterTypeOK, ReadClock
<1>9. bucket' \in [Tenant -> 0..Burst]
  BY <1>3, <1>4, <1>6, LimiterAssumption DEF LimiterTypeOK, HasToken, TakeToken
<1>10. LimiterTypeOK' /\ DOMAIN window' = Tenant
  BY <1>1, <1>4, <1>8, <1>9 DEF LimiterTypeOK, LimiterOK
<1>11. QuotaHolds'
  BY <1>1 DEF LimiterOK, QuotaHolds, Within
<1>12. \A t \in Tenant : WindowOK(t)'
  BY <1>1 DEF LimiterOK, WindowOK
<1> QED
  BY <1>10, <1>11, <1>12 DEF LimiterOK

LEMMA ScriptLimits ==
  ASSUME NEW r \in Request, NEW t \in Tenant, HandlersOK, LimiterOK,
         bucket' = bucket, stamp' = stamp, now' = now,
         \/ ScriptAllows(r, t) /\ Admit(r, t)
         \/ ScriptRefuses(r, t) /\ admitted' = admitted
  PROVE  LimiterOK'
<1>1. CASE ScriptAllows(r, t) /\ Admit(r, t)
  <2>1. admitted' = admitted \cup {Admitted(r, t)}
    BY <1>1 DEF Admit, Admitted
  <2>2. LimiterTypeOK' /\ DOMAIN window' = Tenant /\ \A u \in Tenant : WindowOK(u)'
    BY <1>1, <2>1, AllowsKeepsWindow
  <2>3. WindowOK(t)'
    BY <2>2
  <2>4. QuotaHolds'
    BY <2>1, <2>2, <2>3, AllowsKeepsQuota
  <2> QED
    BY <2>2, <2>4 DEF LimiterOK
<1>2. CASE ScriptRefuses(r, t) /\ admitted' = admitted
  <2>1. LimiterTypeOK' /\ DOMAIN window' = Tenant /\ \A u \in Tenant : WindowOK(u)'
    BY <1>2, RefusesKeepsWindow
  <2>2. QuotaHolds'
    BY <1>2 DEF LimiterOK, QuotaHolds, Within
  <2> QED
    BY <2>1, <2>2 DEF LimiterOK
<1> QED
  BY <1>1, <1>2

-----------------------------------------------------------------------------
(* The key set. *)

LEMMA ProviderAnswersKeeps ==
  ASSUME NEW r \in Request, KeysOK, ProviderAnswers(r), pc[r] = "fetch",
         UNCHANGED <<now, pc, arrived>>
  PROVE  KeysOK'
<1>1. /\ fetched' = [fetched EXCEPT ![r] = published] /\ published' = published
      /\ rotatedAt' = rotatedAt /\ keySet' = keySet /\ fetchedAt' = fetchedAt
  BY DEF ProviderAnswers
<1>2. AuthTypeOK' /\ KeySetOK'
  BY <1>1, AuthAssumption DEF KeysOK, AuthTypeOK, KeySetOK, SigningKey
<1>3. ASSUME NEW q \in Request
      PROVE  FetchOK(q)'
  <2>1. FetchOK(q) /\ DOMAIN fetched = Request
    BY DEF KeysOK, AuthTypeOK
  <2> QED
    BY <1>1, <2>1 DEF FetchOK
<1> QED
  BY <1>2, <1>3 DEF KeysOK

LEMMA RefreshKeeps ==
  ASSUME NEW r \in Request, HandlersOK, KeysOK, Refresh(r), pc[r] = "fetch", Only(r),
         arrived' = arrived, pc'[r] = "verify"
  PROVE  KeysOK'
<1>1. /\ fetched[r] # NoSet /\ fetched' = [fetched EXCEPT ![r] = NoSet]
      /\ published' = published /\ rotatedAt' = rotatedAt
      /\ keySet' = fetched[r] /\ fetchedAt' = now /\ now' = now
  BY DEF Refresh, Only
<1>2. /\ AuthTypeOK /\ KeySetOK /\ FetchOK(r) /\ DOMAIN fetched = Request
      /\ now \in Nat
  BY GatewayAssumption DEF KeysOK, AuthTypeOK, HandlersOK, HandlerTypes
<1>3. now <= arrived[r] + FetchTimeout /\ arrived[r] \in Nat
  BY DEF HandlersOK, HandlerTypes, HandlerOK, Active, InHand, Deadline, Authenticating
<1>4. FetchTimeout \in Nat /\ rotatedAt \in Nat /\ published \in Nat /\ fetched[r] \in 0..published
  BY <1>2, AuthAssumption DEF AuthTypeOK, SigningKey
<1>5. AuthTypeOK'
  BY <1>1, <1>2, <1>4 DEF AuthTypeOK, NoSet
<1>6. KeySetOK'
  BY <1>1, <1>2, <1>3, <1>4 DEF KeySetOK, FetchOK
<1>7. ASSUME NEW q \in Request
      PROVE  FetchOK(q)'
  <2>1. FetchOK(q)
    BY DEF KeysOK
  <2>2. arrived[q] <= now \/ pc[q] # "verify"
    BY <1>2 DEF HandlersOK, HandlerOK, Active, InHand
  <2>3. CASE q = r
    <3>1. arrived[r] <= now /\ fetched'[r] = NoSet
      BY <1>1, <1>2 DEF HandlersOK, HandlerOK, Active, InHand
    <3> QED
      BY <1>1, <2>3, <3>1 DEF FetchOK
  <2>4. CASE q # r
    BY <1>1, <1>2, <2>1, <2>2, <2>4 DEF FetchOK, Only
  <2> QED
    BY <2>3, <2>4
<1> QED
  BY <1>5, <1>6, <1>7 DEF KeysOK

LEMMA FetchFailsKeeps ==
  ASSUME NEW r \in Request, KeysOK, FetchFails(r), Only(r), pc'[r] = "done"
  PROVE  KeysOK'
<1>1. /\ fetched' = [fetched EXCEPT ![r] = NoSet] /\ published' = published
      /\ rotatedAt' = rotatedAt /\ keySet' = keySet /\ fetchedAt' = fetchedAt /\ now' = now
  BY DEF FetchFails, Only
<1>2. AuthTypeOK' /\ KeySetOK'
  BY <1>1 DEF KeysOK, AuthTypeOK, KeySetOK, SigningKey, NoSet
<1>3. ASSUME NEW q \in Request
      PROVE  FetchOK(q)'
  <2>1. FetchOK(q) /\ DOMAIN fetched = Request
    BY DEF KeysOK, AuthTypeOK
  <2> QED
    BY <1>1, <2>1 DEF FetchOK, Only
<1> QED
  BY <1>2, <1>3 DEF KeysOK

LEMMA RotateKeeps ==
  ASSUME HandlersOK, KeysOK, Rotate, UNCHANGED <<now, pc, arrived>>
  PROVE  KeysOK'
<1>1. /\ published <= MaxRotations /\ published' = published + 1 /\ rotatedAt' = now
      /\ keySet' = keySet /\ fetchedAt' = fetchedAt /\ fetched' = fetched /\ now' = now
  BY DEF Rotate
<1>2. now \in Nat /\ FetchTimeout \in Nat /\ MaxRotations \in Nat
  BY GatewayAssumption, AuthAssumption DEF HandlersOK, HandlerTypes
<1>3. AuthTypeOK'
  BY <1>1, <1>2 DEF KeysOK, AuthTypeOK, SigningKey
<1>4. KeySetOK'
  BY <1>1, <1>2 DEF KeysOK, AuthTypeOK, KeySetOK
<1>5. ASSUME NEW q \in Request
      PROVE  FetchOK(q)'
  <2>1. FetchOK(q)
    BY DEF KeysOK
  <2>2. arrived[q] <= now \/ pc[q] # "fetch"
    BY <1>2 DEF HandlersOK, HandlerOK, Active, InHand
  <2> QED
    BY <1>1, <2>1, <2>2 DEF FetchOK
<1> QED
  BY <1>3, <1>4, <1>5 DEF KeysOK

-----------------------------------------------------------------------------
(* The invariant. *)

LEMMA Starts == Init => Inv
<1> SUFFICES ASSUME Init
             PROVE  Inv
  OBVIOUS
<1>1. /\ now = 1 /\ features \in Features /\ pc = [r \in Request |-> "idle"]
      /\ http = [r \in Request |-> NoHttp] /\ tenant = [r \in Request |-> Unset]
      /\ arrived = [r \in Request |-> 0] /\ result = [r \in Request |-> NoResult]
      /\ answer = [r \in Request |-> NoAnswer] /\ cache = <<>>
  BY DEF Init
<1>2. HandlersOK
  BY <1>1, GatewayAssumption
     DEF HandlersOK, HandlerTypes, HandlerOK, Active, PC, Codes, NoAnswer, Authenticating
<1>3. KeysOK
  <2>1. /\ published = 1 /\ rotatedAt = 0 /\ keySet = 1 /\ fetchedAt = 0
        /\ fetched = [r \in Request |-> NoSet]
    BY DEF Init, AuthInit
  <2> QED
    BY <1>1, <2>1, AuthAssumption
       DEF KeysOK, AuthTypeOK, KeySetOK, FetchOK, SigningKey, NoSet
<1>4. CacheOK
  <2>1. DOMAIN cache = {}
    BY <1>1
  <2> QED
    BY <2>1 DEF CacheOK
<1> QED
  BY <1>2, <1>3, <1>4, LimiterStarts DEF Inv

(* A step of r that concerns its handler alone. *)
LEMMA Quiet ==
  ASSUME NEW r \in Request, Inv, HandlersOK', Only(r),
         UNCHANGED <<limiterVars, authVars, cache>>, pc[r] # "fetch",
         pc'[r] # "verify"
  PROVE  Inv'
<1>1. HandlersOK /\ LimiterOK /\ KeysOK /\ CacheOK
  BY DEF Inv
<1>2. LimiterOK'
  BY <1>1, LimiterRests DEF Only
<1>3. KeysOK'
  BY <1>1, KeysRest
<1>4. CacheOK'
  BY <1>1, CacheRests DEF Only
<1> QED
  BY <1>2, <1>3, <1>4 DEF Inv

LEMMA ClaimedIs ==
  ASSUME NEW r \in Request, InHand(r)
  PROVE  Claimed(r) \in Tenant \cup {Unset}
<1>1. http[r].token \in Token \cup {NoToken} /\ http[r].tenant \in Tenant \cup {Unset}
  BY DEF InHand
<1>2. http[r].token.tenant \in Tenant \cup {Unset}
  BY <1>1 DEF Token, NoToken
<1> QED
  BY <1>1, <1>2 DEF Claimed

LEMMA VerifyKeeps ==
  ASSUME NEW r \in Request, HandlersOK, UNCHANGED <<now, features>>,
         pc[r] \in {"auth", "verify"}, Verify(r)
  PROVE  HandlersOK' /\ Only(r) /\ pc'[r] \in {"limit", "done"} /\ answer'[r] # 200
<1>1. HandlerTypes /\ HandlerOK(r)
  BY DEF HandlersOK
<1>2. Claimed(r) \in Tenant \cup {Unset}
  BY <1>1, ClaimedIs DEF HandlerOK, Active
<1>3. CASE Verified(http[r].token)
  BY <1>2, <1>3, AcceptKeeps DEF Verify
<1>4. CASE ~Verified(http[r].token)
  <2>1. Refuse(r, 401) /\ 401 \in Codes \ {NoAnswer, 200}
    BY <1>4 DEF Verify, Codes, NoAnswer
  <2>2. /\ HandlersOK' /\ Only(r) /\ pc'[r] = "done"
        /\ answer' = [answer EXCEPT ![r] = 401]
    BY <2>1, RefuseKeeps
  <2> QED
    BY <1>1, <2>2 DEF HandlerTypes
<1> QED
  BY <1>3, <1>4

LEMMA RefuseQuietly ==
  ASSUME NEW r \in Request, NEW code, Inv, Refuse(r, code),
         code \in Codes \ {NoAnswer, 200}, pc[r] # "fetch",
         UNCHANGED <<now, features, limiterVars, authVars, cache>>
  PROVE  Inv'
<1>1. HandlersOK
  BY DEF Inv
<1>2. HandlersOK' /\ Only(r) /\ pc'[r] = "done"
  BY <1>1, RefuseKeeps
<1> QED
  BY <1>2, Quiet

LEMMA StepQuietly ==
  ASSUME NEW r \in Request, NEW label, Inv, Step(r, label), pc[r] \in PC \ {"idle", "done", "read"},
         label \in PC \ {"idle", "done", "read", "verify"}, pc[r] # "fetch",
         pc[r] \in Authenticating <=> label \in Authenticating,
         label = "fallback" => http[r].body.lang = "promql" /\ "fallback" \in features,
         UNCHANGED <<now, features, limiterVars, authVars, cache>>
  PROVE  Inv'
<1>1. HandlersOK
  BY DEF Inv
<1>2. HandlersOK' /\ Only(r) /\ pc'[r] = label
  BY <1>1, StepKeeps
<1> QED
  BY <1>2, Quiet

LEMMA ReceiveInv == ASSUME NEW r \in Request, Inv, Receive(r) PROVE Inv'
<1>1. HandlersOK
  BY DEF Inv
<1>2. HandlersOK' /\ Only(r) /\ pc'[r] \in {"auth", "done"}
  BY <1>1, ReceiveKeeps
<1>3. pc[r] = "idle" /\ UNCHANGED <<limiterVars, authVars, cache>>
  BY DEF Receive
<1> QED
  BY <1>2, <1>3, Quiet

LEMMA AuthDisabledInv == ASSUME NEW r \in Request, Inv, AuthDisabled(r) PROVE Inv'
<1>1. HandlersOK
  BY DEF Inv
<1>2. /\ pc[r] = "auth" /\ Accept(r, http[r].tenant)
      /\ UNCHANGED <<now, features, limiterVars, authVars, cache>>
  BY DEF AuthDisabled
<1>3. http[r].tenant \in Tenant \cup {Unset}
  BY <1>1, <1>2 DEF HandlersOK, HandlerOK, Active, InHand
<1>4. HandlersOK' /\ Only(r) /\ pc'[r] \in {"limit", "done"}
  BY <1>1, <1>2, <1>3, AcceptKeeps
<1> QED
  BY <1>2, <1>4, Quiet

LEMMA GetKeySetInv == ASSUME NEW r \in Request, Inv, GetKeySet(r) PROVE Inv'
<1>1. pc[r] = "auth" /\ UNCHANGED <<now, features, limiterVars, authVars, cache>>
  BY DEF GetKeySet
<1>2. CASE Refuse(r, 401)
  BY <1>1, <1>2, RefuseQuietly DEF Codes, NoAnswer
<1>3. CASE Verify(r)
  <2>1. HandlersOK' /\ Only(r) /\ pc'[r] \in {"limit", "done"}
    BY <1>1, <1>3, VerifyKeeps DEF Inv
  <2> QED
    BY <1>1, <2>1, Quiet
<1>4. CASE Step(r, "fetch")
  BY <1>1, <1>4, StepQuietly DEF PC, Authenticating
<1> QED
  BY <1>2, <1>3, <1>4 DEF GetKeySet

LEMMA FetchInv == ASSUME NEW r \in Request, Inv, Fetch(r) PROVE Inv'
<1>1. /\ pc[r] = "fetch" /\ ProviderAnswers(r)
      /\ UNCHANGED <<now, limiterVars, features, handlerVars, cache>>
  BY DEF Fetch
<1>2. Only(r) /\ UNCHANGED <<now, pc, arrived>> /\ pc' = pc
  BY <1>1 DEF handlerVars, Only
<1>3. HandlersOK'
  BY <1>1 DEF Inv, HandlersOK, HandlerTypes, HandlerOK, Active, InHand, Deadline, handlerVars
<1>4. KeysOK'
  BY <1>1, <1>2, ProviderAnswersKeeps DEF Inv
<1>5. LimiterOK'
  BY <1>1, <1>2, LimiterRests DEF Inv
<1>6. CacheOK'
  BY <1>1, CacheRests DEF Inv
<1> QED
  BY <1>3, <1>4, <1>5, <1>6 DEF Inv

LEMMA StoreKeySetInv == ASSUME NEW r \in Request, Inv, StoreKeySet(r) PROVE Inv'
<1>1. /\ pc[r] = "fetch" /\ Refresh(r) /\ Step(r, "verify")
      /\ UNCHANGED <<now, limiterVars, features, cache>>
  BY DEF StoreKeySet
<1>2. HandlersOK' /\ Only(r) /\ pc'[r] = "verify" /\ arrived' = arrived
  BY <1>1, StepKeeps DEF Inv, PC, Authenticating
<1>3. KeysOK'
  BY <1>1, <1>2, RefreshKeeps DEF Inv
<1>4. LimiterOK'
  BY <1>1, <1>2, LimiterRests DEF Inv
<1>5. CacheOK'
  BY <1>1, CacheRests DEF Inv
<1> QED
  BY <1>2, <1>3, <1>4, <1>5 DEF Inv

LEMMA VerifyFetchedInv == ASSUME NEW r \in Request, Inv, VerifyFetched(r) PROVE Inv'
<1>1. /\ pc[r] = "verify" /\ Verify(r)
      /\ UNCHANGED <<now, features, limiterVars, authVars, cache>>
  BY DEF VerifyFetched
<1>2. HandlersOK' /\ Only(r) /\ pc'[r] \in {"limit", "done"}
  BY <1>1, VerifyKeeps DEF Inv
<1> QED
  BY <1>1, <1>2, Quiet

LEMMA FetchErrorInv == ASSUME NEW r \in Request, Inv, FetchError(r) PROVE Inv'
<1>1. /\ pc[r] = "fetch" /\ FetchFails(r) /\ Refuse(r, 401)
      /\ UNCHANGED <<now, limiterVars, features, cache>>
  BY DEF FetchError
<1>2. HandlersOK' /\ Only(r) /\ pc'[r] = "done"
  BY <1>1, RefuseKeeps DEF Inv, Codes, NoAnswer
<1>3. KeysOK'
  BY <1>1, <1>2, FetchFailsKeeps DEF Inv
<1>4. LimiterOK'
  BY <1>1, <1>2, LimiterRests DEF Inv
<1>5. CacheOK'
  BY <1>1, CacheRests DEF Inv
<1> QED
  BY <1>2, <1>3, <1>4, <1>5 DEF Inv

LEMMA AllowLocalInv == ASSUME NEW r \in Request, Inv, AllowLocal(r) PROVE Inv'
<1>1. pc[r] = "limit" /\ UNCHANGED <<now, authVars, features, cache>>
  BY DEF AllowLocal
<1>2. HandlersOK' /\ Only(r) /\ pc'[r] \in {"cache", "redis", "done"}
  <2>1. Step(r, "cache") \/ Step(r, "redis") \/ Refuse(r, 429)
    BY DEF AllowLocal
  <2>2. CASE Step(r, "cache")
    BY <1>1, <2>2, StepKeeps DEF Inv, PC, Authenticating
  <2>3. CASE Step(r, "redis")
    BY <1>1, <2>3, StepKeeps DEF Inv, PC, Authenticating
  <2>4. CASE Refuse(r, 429)
    BY <1>1, <2>4, RefuseKeeps DEF Inv, Codes, NoAnswer
  <2> QED
    BY <2>1, <2>2, <2>3, <2>4
<1>3. LimiterOK'
  BY AllowLocalLimits DEF Inv
<1>4. KeysOK'
  BY <1>1, <1>2, KeysRest DEF Inv
<1>5. CacheOK'
  BY <1>1, CacheRests DEF Inv
<1> QED
  BY <1>2, <1>3, <1>4, <1>5 DEF Inv

LEMMA RedisInv ==
  ASSUME NEW r \in Request, Inv, AllowRedis(r) \/ RedisReplyLost(r)
  PROVE  Inv'
<1>1. /\ pc[r] = "redis" /\ bucket' = bucket /\ stamp' = stamp
      /\ UNCHANGED <<now, authVars, features, cache>>
      /\ \/ ScriptAllows(r, tenant[r]) /\ Admit(r, tenant[r])
         \/ ScriptRefuses(r, tenant[r]) /\ admitted' = admitted
  BY DEF AllowRedis, RedisReplyLost
<1>2. HandlersOK' /\ Only(r) /\ pc'[r] \in {"cache", "redis", "done"}
  <2>1. Step(r, "cache") \/ Step(r, "redis") \/ Refuse(r, 429) \/ Refuse(r, 500)
    BY DEF AllowRedis, RedisReplyLost
  <2>2. CASE Step(r, "cache")
    BY <1>1, <2>2, StepKeeps DEF Inv, PC, Authenticating
  <2>3. CASE Step(r, "redis")
    BY <1>1, <2>3, StepKeeps DEF Inv, PC, Authenticating
  <2>4. CASE Refuse(r, 429)
    BY <1>1, <2>4, RefuseKeeps DEF Inv, Codes, NoAnswer
  <2>5. CASE Refuse(r, 500)
    BY <1>1, <2>5, RefuseKeeps DEF Inv, Codes, NoAnswer
  <2> QED
    BY <2>1, <2>2, <2>3, <2>4, <2>5
<1>3. LimiterOK'
  <2>1. HandlersOK /\ LimiterOK /\ tenant[r] \in Tenant
    BY <1>1 DEF Inv, HandlersOK, HandlerOK, Active, Authenticating
  <2> QED
    BY <1>1, <2>1, ScriptLimits
<1>4. KeysOK'
  BY <1>1, <1>2, KeysRest DEF Inv
<1>5. CacheOK'
  BY <1>1, CacheRests DEF Inv
<1> QED
  BY <1>2, <1>3, <1>4, <1>5 DEF Inv

LEMMA CacheMissInv == ASSUME NEW r \in Request, Inv, CacheMiss(r) PROVE Inv'
<1>1. /\ pc[r] = "cache" /\ Step(r, "query")
      /\ UNCHANGED <<now, features, limiterVars, authVars, cache>>
  BY DEF CacheMiss
<1> QED
  BY <1>1, StepQuietly DEF PC, Authenticating

LEMMA UnsupportedInv == ASSUME NEW r \in Request, Inv, Unsupported(r) PROVE Inv'
<1>1. /\ pc[r] = "query" /\ http[r].body.lang = "promql"
      /\ (Step(r, "fallback") /\ "fallback" \in features) \/ Refuse(r, 400)
      /\ UNCHANGED <<now, features, limiterVars, authVars, cache>>
  BY DEF Unsupported
<1>2. CASE Step(r, "fallback") /\ "fallback" \in features
  BY <1>1, <1>2, StepQuietly DEF PC, Authenticating
<1>3. CASE Refuse(r, 400)
  BY <1>1, <1>3, RefuseQuietly DEF Codes, NoAnswer
<1> QED
  BY <1>1, <1>2, <1>3

LEMMA RefusalInv ==
  ASSUME NEW r \in Request, Inv, RedisError(r) \/ BackendError(r) \/ UnreadableAnswer(r)
  PROVE  Inv'
<1>1. /\ pc[r] # "fetch" /\ (Refuse(r, 500) \/ Refuse(r, 502))
      /\ UNCHANGED <<now, features, limiterVars, authVars, cache>>
  BY DEF RedisError, BackendError, UnreadableAnswer
<1> QED
  BY <1>1, RefuseQuietly DEF Codes, NoAnswer

LEMMA EvaluateInv ==
  ASSUME NEW r \in Request, Inv, OpenObserveAnswers(r) \/ FallbackAnswers(r)
  PROVE  Inv'
<1>1. HandlersOK /\ pc[r] \in {"query", "fallback"}
  BY DEF Inv, OpenObserveAnswers, FallbackAnswers
<1>2. PICK call \in Calls(features, http[r].body, tenant[r]) : Evaluate(r, call)
  <2>1. CASE OpenObserveAnswers(r)
    BY <2>1, CallsAreKnown DEF OpenObserveAnswers, OwnSource
  <2>2. CASE FallbackAnswers(r)
    <3>1. Evaluate(r, FallbackCall(http[r].body, tenant[r])) /\ pc[r] = "fallback"
      BY <2>2 DEF FallbackAnswers
    <3>2. http[r].body.lang = "promql" /\ "fallback" \in features
      BY <3>1 DEF Inv, HandlersOK, HandlerOK
    <3> QED
      BY <3>1, <3>2, CallsAreKnown
  <2> QED
    BY <2>1, <2>2
<1>3. HandlersOK' /\ Only(r) /\ pc'[r] = "read"
  BY <1>1, <1>2, EvaluateKeeps
<1>4. UNCHANGED <<limiterVars, authVars, cache>>
  BY <1>2 DEF Evaluate
<1> QED
  BY <1>1, <1>3, <1>4, Quiet

(* An entry that is found is fresh, and holds an answer to the request at hand if the
   key is that of plain names alone. *)
LEMMA HitFits ==
  ASSUME NEW r \in Request, Inv, CacheHit(r)
  PROVE  /\ HandlersOK' /\ Only(r) /\ pc'[r] = "done"
         /\ OwnKey(r) => result'[r].call \in Calls(features, http[r].body, tenant[r])
         /\ result'[r].readAt \in 1..now
         /\ now <= result'[r].readAt + RequestTimeout + CacheTTL
<1>1. /\ pc[r] = "cache" /\ CacheKey(r) \in DOMAIN cache
      /\ now <= cache[CacheKey(r)].expires
      /\ result' = [result EXCEPT ![r] = cache[CacheKey(r)].result]
      /\ Reply(r, 200) /\ UNCHANGED <<now, features, limiterVars, authVars, cache>>
  BY DEF CacheHit
<1>2. HandlersOK /\ CacheOK /\ HandlerOK(r) /\ HandlerTypes
  BY DEF Inv, HandlersOK
<1>3. http[r].body \in Bodies /\ tenant[r] \in Tenant
  BY <1>1, <1>2 DEF HandlerOK, Active, InHand, Authenticating
<1> PICK entry : entry = cache[CacheKey(r)]
  OBVIOUS
<1>4. /\ entry.result.readAt \in 1..now /\ entry.expires \in Nat
      /\ entry.expires <= entry.result.readAt + RequestTimeout + CacheTTL
      /\ \E body \in Bodies, t \in Tenant :
           /\ validate(body) /\ CacheKey(r) = buildCacheKey(body, t)
           /\ entry.result.call \in Calls(features, body, t)
           /\ entry.plain => Plain(body, t)
  BY <1>1, <1>2 DEF CacheOK
<1>5. PICK body \in Bodies, t \in Tenant :
        /\ CacheKey(r) = buildCacheKey(body, t)
        /\ entry.result.call \in Calls(features, body, t)
        /\ entry.plain => Plain(body, t)
  BY <1>4
<1>6. ASSUME OwnKey(r)
      PROVE  Calls(features, body, t) = Calls(features, http[r].body, tenant[r])
  <2>1. Plain(http[r].body, tenant[r]) /\ Plain(body, t)
    BY <1>1, <1>5, <1>6 DEF OwnKey
  <2> QED
    BY <1>3, <1>5, <2>1, SameCalls DEF CacheKey
<1>7. now \in Nat /\ RequestTimeout \in Nat /\ CacheTTL \in Nat /\ entry.result.readAt \in Nat
  BY <1>2, <1>4, GatewayAssumption, ServerAssumption DEF HandlerTypes
<1>8. now <= entry.result.readAt + RequestTimeout + CacheTTL
  BY <1>1, <1>4, <1>7
<1>9. result'[r] = entry.result
  BY <1>1, <1>2 DEF HandlerTypes
<1>10. result'[r] # NoResult
  BY <1>4, <1>7, <1>9 DEF NoResult
<1>11. DOMAIN result' = Request /\ \A q \in Request : q # r => result'[q] = result[q]
  BY <1>1, <1>2 DEF HandlerTypes
<1>12. HandlersOK' /\ Only(r) /\ pc'[r] = "done"
  BY <1>1, <1>2, <1>10, <1>11, ReplyKeeps
<1> QED
  BY <1>4, <1>5, <1>6, <1>8, <1>9, <1>12

LEMMA CacheHitInv == ASSUME NEW r \in Request, Inv, CacheHit(r) PROVE Inv'
<1>1. pc[r] = "cache" /\ UNCHANGED <<limiterVars, authVars, cache>>
  BY DEF CacheHit
<1>2. HandlersOK' /\ Only(r) /\ pc'[r] = "done"
  BY HitFits
<1> QED
  BY <1>1, <1>2, Quiet

(* What a handler has read, it read during its request. *)
LEMMA ReadFits ==
  ASSUME NEW r \in Request, Inv, pc[r] = "read"
  PROVE  /\ http[r].body \in Bodies /\ tenant[r] \in Tenant /\ validate(http[r].body)
         /\ result[r] # NoResult
         /\ result[r].call \in Calls(features, http[r].body, tenant[r])
         /\ result[r].readAt \in 1..now
         /\ now <= result[r].readAt + RequestTimeout
<1>1. HandlerOK(r) /\ HandlerTypes
  BY DEF Inv, HandlersOK
<1>2. /\ http[r].body \in Bodies /\ tenant[r] \in Tenant /\ validate(http[r].body)
      /\ result[r] # NoResult
      /\ result[r].call \in Calls(features, http[r].body, tenant[r])
      /\ result[r].readAt \in arrived[r]..now /\ arrived[r] \in 1..now
      /\ now <= arrived[r] + RequestTimeout
  BY <1>1 DEF HandlerOK, Active, InHand, Deadline, Authenticating
<1>3. now \in Nat /\ RequestTimeout \in Nat
  BY <1>1, GatewayAssumption DEF HandlerTypes
<1>4. result[r].readAt \in 1..now /\ now <= result[r].readAt + RequestTimeout
  BY <1>2, <1>3
<1> QED
  BY <1>2, <1>4

LEMMA EntryIs ==
  ASSUME NEW r, NEW until
  PROVE  /\ Entry(r, until).result = result[r] /\ Entry(r, until).expires = until
         /\ Entry(r, until).plain => Plain(http[r].body, tenant[r])
BY DEF Entry

LEMMA AnswerInv == ASSUME NEW r \in Request, Inv, Answer(r) PROVE Inv'
<1>1. /\ pc[r] = "read" /\ Reply(r, 200) /\ result' = result
      /\ UNCHANGED <<now, features, limiterVars, authVars>>
      /\ CacheSet(r) \/ UNCHANGED cache
  BY DEF Answer
<1>2. HandlersOK /\ LimiterOK /\ KeysOK /\ CacheOK /\ HandlerTypes
  BY DEF Inv, HandlersOK
<1>3. result[r] # NoResult /\ DOMAIN result = Request
  BY <1>1, <1>2, ReadFits DEF HandlerTypes
<1>4. HandlersOK' /\ Only(r) /\ pc'[r] = "done"
  BY <1>1, <1>2, <1>3, ReplyKeeps
<1>5. LimiterOK'
  BY <1>1, <1>2, <1>4, LimiterRests
<1>6. KeysOK'
  BY <1>1, <1>2, <1>4, KeysRest
<1>7. CacheOK'
  <2>1. CASE UNCHANGED cache
    BY <1>1, <1>2, <2>1, CacheRests
  <2>2. CASE CacheSet(r)
    <3>1. cache' = [k \in DOMAIN cache \cup {CacheKey(r)} |->
                      IF k = CacheKey(r) THEN Entry(r, now + CacheTTL) ELSE cache[k]]
      BY <2>2 DEF CacheSet
    <3>2. /\ now \in Nat /\ RequestTimeout \in Nat /\ CacheTTL \in Nat
          /\ now' = now /\ features' = features
      BY <1>1, <1>2, GatewayAssumption, ServerAssumption DEF HandlerTypes
    <3> SUFFICES ASSUME NEW k \in DOMAIN cache'
                 PROVE  /\ cache'[k].result.readAt \in 1..now /\ cache'[k].expires \in Nat
                        /\ cache'[k].expires <= cache'[k].result.readAt + RequestTimeout + CacheTTL
                        /\ \E body \in Bodies, t \in Tenant :
                             /\ validate(body) /\ k = buildCacheKey(body, t)
                             /\ cache'[k].result.call \in Calls(features, body, t)
                             /\ cache'[k].plain => Plain(body, t)
      BY <3>2 DEF CacheOK
    <3>3. CASE k = CacheKey(r)
      <4>1. cache'[k] = Entry(r, now + CacheTTL)
        BY <3>1, <3>3
      <4>2. /\ cache'[k].result = result[r] /\ cache'[k].expires = now + CacheTTL
            /\ cache'[k].plain => Plain(http[r].body, tenant[r])
        BY <4>1, EntryIs
      <4>3. /\ http[r].body \in Bodies /\ tenant[r] \in Tenant /\ validate(http[r].body)
            /\ result[r].call \in Calls(features, http[r].body, tenant[r])
            /\ result[r].readAt \in 1..now /\ now <= result[r].readAt + RequestTimeout
        BY <1>1, ReadFits
      <4>4. k = buildCacheKey(http[r].body, tenant[r])
        BY <3>3 DEF CacheKey
      <4>5. now + CacheTTL \in Nat /\ now + CacheTTL <= result[r].readAt + RequestTimeout + CacheTTL
        BY <3>2, <4>3
      <4> QED
        BY <4>2, <4>3, <4>4, <4>5
    <3>4. CASE k # CacheKey(r)
      <4>1. k \in DOMAIN cache /\ cache'[k] = cache[k]
        BY <3>1, <3>4
      <4> QED
        BY <1>2, <4>1 DEF CacheOK
    <3> QED
      BY <3>3, <3>4
  <2> QED
    BY <1>1, <2>1, <2>2
<1> QED
  BY <1>4, <1>5, <1>6, <1>7 DEF Inv

LEMMA TickInv == ASSUME Inv, Tick PROVE Inv'
<1>1. /\ now < MaxTime /\ now' = now + 1
      /\ \A r \in Request : Active(r) => now < Deadline(r)
      /\ RefillBuckets
      /\ window' = window /\ expires' = expires /\ stamp' = stamp /\ admitted' = admitted
      /\ published' = published /\ rotatedAt' = rotatedAt /\ keySet' = keySet
      /\ fetchedAt' = fetchedAt /\ fetched' = fetched
      /\ features' = features /\ pc' = pc /\ http' = http /\ tenant' = tenant
      /\ arrived' = arrived /\ result' = result /\ answer' = answer /\ cache' = cache
  BY DEF Tick, authVars, handlerVars
<1>2. HandlersOK /\ LimiterOK /\ KeysOK /\ CacheOK /\ HandlerTypes
  BY DEF Inv, HandlersOK
<1>3. /\ now \in Nat /\ MaxTime \in Nat /\ RequestTimeout \in Nat /\ FetchTimeout \in Nat
      /\ Window \in Nat /\ Burst \in Nat /\ Refill \in Nat
  BY <1>2, GatewayAssumption, AuthAssumption, LimiterAssumption DEF HandlerTypes
<1>4. HandlersOK'
  <2>1. HandlerTypes'
    BY <1>1, <1>2, <1>3 DEF HandlerTypes
  <2>2. ASSUME NEW r \in Request
        PROVE  HandlerOK(r)'
    <3>1. HandlerOK(r) /\ arrived[r] \in Nat
      BY <1>2 DEF HandlersOK, HandlerTypes
    <3>2. Active(r) => now + 1 <= Deadline(r)
      BY <1>1, <1>3, <3>1 DEF Deadline
    <3>3. Active(r) => InHand(r)'
      BY <1>1, <1>3, <3>1, <3>2 DEF HandlerOK, InHand, Deadline
    <3>4. pc[r] = "read" => result[r].readAt \in arrived[r]..(now + 1)
      BY <1>3, <3>1 DEF HandlerOK
    <3> QED
      BY <1>1, <3>1, <3>3, <3>4 DEF HandlerOK, Active
  <2> QED
    BY <2>1, <2>2 DEF HandlersOK
<1>5. LimiterOK'
  <2>1. bucket' \in [Tenant -> 0..Burst]
    BY <1>1, <1>2, <1>3 DEF RefillBuckets, LimiterOK, LimiterTypeOK
  <2>2. 0..now \subseteq 0..(now + 1)
    BY <1>3
  <2>3. LimiterTypeOK'
    <3>1. /\ \A t \in Tenant : window[t] \subseteq 0..(now + 1)
          /\ stamp \in [Request -> 0..(now + 1)]
          /\ admitted \subseteq [tenant : Tenant, stamp : 0..(now + 1), ran : 0..(now + 1)]
      BY <1>2, <2>2 DEF LimiterOK, LimiterTypeOK
    <3> QED
      BY <1>1, <1>2, <2>1, <3>1 DEF LimiterOK, LimiterTypeOK
  <2>4. QuotaHolds' /\ DOMAIN window' = Tenant
    BY <1>1, <1>2 DEF LimiterOK, QuotaHolds, Within
  <2>5. ASSUME NEW t \in Tenant
        PROVE  WindowOK(t)'
    <3>1. \A e \in admitted : e.stamp \in Nat
      BY <1>2, <1>3, LimiterIs
    <3> QED
      BY <1>1, <1>2, <1>3, <3>1 DEF LimiterOK, WindowOK
  <2> QED
    BY <2>3, <2>4, <2>5 DEF LimiterOK
<1>6. KeysOK'
  BY <1>1, <1>2, <1>3 DEF KeysOK, AuthTypeOK, KeySetOK, FetchOK
<1>7. CacheOK'
  <2> SUFFICES ASSUME NEW k \in DOMAIN cache
               PROVE  /\ cache[k].result.readAt \in 1..(now + 1) /\ cache[k].expires \in Nat
                      /\ cache[k].expires <= cache[k].result.readAt + RequestTimeout + CacheTTL
                      /\ \E body \in Bodies, t \in Tenant :
                           /\ validate(body) /\ k = buildCacheKey(body, t)
                           /\ cache[k].result.call \in Calls(features, body, t)
                           /\ cache[k].plain => Plain(body, t)
    BY <1>1 DEF CacheOK
  <2>1. cache[k].result.readAt \in 1..now
    BY <1>2 DEF CacheOK
  <2>2. cache[k].result.readAt \in 1..(now + 1)
    BY <1>3, <2>1
  <2> QED
    BY <1>2, <2>2 DEF CacheOK
<1> QED
  BY <1>4, <1>5, <1>6, <1>7 DEF Inv

LEMMA KeyRotationInv == ASSUME Inv, KeyRotation PROVE Inv'
<1>1. /\ Rotate /\ now' = now /\ features' = features /\ cache' = cache
      /\ pc' = pc /\ http' = http /\ tenant' = tenant
      /\ arrived' = arrived /\ result' = result /\ answer' = answer
      /\ bucket' = bucket /\ window' = window /\ expires' = expires /\ stamp' = stamp
      /\ admitted' = admitted
  BY DEF KeyRotation, limiterVars, handlerVars
<1>2. HandlersOK /\ LimiterOK /\ KeysOK /\ CacheOK
  BY DEF Inv
<1>3. HandlersOK'
  BY <1>1, <1>2 DEF HandlersOK, HandlerTypes, HandlerOK, Active, InHand, Deadline
<1>4. LimiterOK'
  BY <1>1, <1>2 DEF LimiterOK, LimiterTypeOK, QuotaHolds, Within, WindowOK
<1>5. KeysOK'
  BY <1>1, <1>2, RotateKeeps
<1>6. CacheOK'
  BY <1>1, <1>2, CacheRests
<1> QED
  BY <1>3, <1>4, <1>5, <1>6 DEF Inv

LEMMA StandsStill == ASSUME Inv, UNCHANGED vars PROVE Inv'
<1>1. /\ now' = now /\ features' = features /\ cache' = cache
      /\ pc' = pc /\ http' = http /\ tenant' = tenant
      /\ arrived' = arrived /\ result' = result /\ answer' = answer
      /\ bucket' = bucket /\ window' = window /\ expires' = expires /\ stamp' = stamp
      /\ admitted' = admitted
      /\ published' = published /\ rotatedAt' = rotatedAt /\ keySet' = keySet
      /\ fetchedAt' = fetchedAt /\ fetched' = fetched
  BY DEF vars, limiterVars, authVars, handlerVars
<1>2. HandlersOK /\ LimiterOK /\ KeysOK /\ CacheOK
  BY DEF Inv
<1>3. HandlersOK'
  BY <1>1, <1>2 DEF HandlersOK, HandlerTypes, HandlerOK, Active, InHand, Deadline
<1>4. LimiterOK'
  BY <1>1, <1>2 DEF LimiterOK, LimiterTypeOK, QuotaHolds, Within, WindowOK
<1>5. KeysOK'
  BY <1>1, <1>2 DEF KeysOK, AuthTypeOK, KeySetOK, FetchOK
<1>6. CacheOK'
  BY <1>1, <1>2, CacheRests
<1> QED
  BY <1>3, <1>4, <1>5, <1>6 DEF Inv

LEMMA StepInv ==
  ASSUME Inv, [Next]_vars
  PROVE  Inv'
<1>1. ASSUME NEW r \in Request, Receive(r) \/ Handle(r) \/ Fault(r)
      PROVE  Inv'
  <2>1. CASE Handle(r)
    BY <2>1, AuthDisabledInv, GetKeySetInv, FetchInv, StoreKeySetInv, VerifyFetchedInv,
       AllowLocalInv, RedisInv, CacheHitInv, CacheMissInv, EvaluateInv, AnswerInv DEF Handle
  <2>2. CASE Fault(r)
    BY <2>2, FetchErrorInv, RedisInv, UnsupportedInv, RefusalInv DEF Fault
  <2> QED
    BY <1>1, <2>1, <2>2, ReceiveInv
<1> QED
  BY <1>1, TickInv, KeyRotationInv, StandsStill DEF Next

(* The invariant of the gateway: beside the types, what is in hand of every request, what
   every cached entry answers, and how the stamps, the windows and the key sets relate
   to the clock. *)
THEOREM GatewayInvariant == Spec => []Inv
<1>1. Inv /\ [Next]_vars => Inv'
  BY StepInv
<1> QED
  BY <1>1, Starts, PTL DEF Spec

(* The variables have their types, and what is known of a request fits the point its
   handler has reached (server.go:93): never more than its deadline allows. *)
THEOREM GatewayTypeCorrect == Spec => []TypeOK
<1>1. ASSUME Inv
      PROVE  TypeOK
  <2>1. HandlerTypes /\ (\A r \in Request : HandlerOK(r)) /\ LimiterTypeOK /\ AuthTypeOK
    BY <1>1 DEF Inv, HandlersOK, LimiterOK, KeysOK
  <2>2. /\ now \in 1..MaxTime /\ features \in Features /\ pc \in [Request -> PC]
        /\ answer \in [Request -> {NoAnswer, 200, 400, 401, 429, 500, 502}]
    BY <2>1 DEF HandlerTypes, Codes
  <2>3. ASSUME NEW r \in Request
        PROVE  /\ IF Active(r) THEN WellFormed(http[r].body) ELSE http[r] = NoHttp
               /\ IF Active(r) /\ pc[r] \notin {"auth", "fetch", "verify"}
                  THEN tenant[r] \in Tenant /\ validate(http[r].body)
                  ELSE tenant[r] = Unset
               /\ pc[r] = "done" <=> answer[r] # NoAnswer
               /\ Active(r) => now <= Deadline(r)
               /\ answer[r] = 200 \/ pc[r] = "read" <=> result[r] # NoResult
    BY <2>1 DEF HandlerOK, InHand, Authenticating
  <2> QED
    BY <2>1, <2>2, <2>3 DEF TypeOK
<1> QED
  BY <1>1, GatewayInvariant, PTL

(* In every window of time, the requests of a tenant that both read their clock
   (limiter.go:117) and had their script run within it pass at Burst milliseconds at
   most, whatever ran before and between them, however late, and whichever answers
   get lost.  For all that read their clock within it this is false: scripts that run
   after the window come on top. *)
THEOREM QuotaIsKept == Spec => []QuotaHolds
<1>1. Inv => QuotaHolds
  BY DEF Inv, LimiterOK
<1> QED
  BY <1>1, GatewayInvariant, PTL

-----------------------------------------------------------------------------
(* What clients are told. *)

(* A request is served by a step of its own: from the cache, or with what was read. *)
LEMMA ServedBy ==
  ASSUME Inv, [Next]_vars, NEW r \in Request, Served(r)
  PROVE  CacheHit(r) \/ (Answer(r) /\ result' = result)
<1>1. HandlerTypes /\ answer'[r] = 200 /\ answer[r] # 200
  BY DEF Inv, HandlersOK, Served
<1>2. ASSUME NEW q \in Request, Refuse(q, 400) \/ Refuse(q, 401) \/ Refuse(q, 429)
                                  \/ Refuse(q, 500) \/ Refuse(q, 502)
      PROVE  FALSE
  BY <1>1, <1>2 DEF Refuse, Reply, HandlerTypes
<1>3. ASSUME NEW q \in Request, NEW label, Step(q, label)
      PROVE  FALSE
  BY <1>1, <1>3 DEF Step
<1>4. ASSUME NEW q \in Request, NEW t, Accept(q, t)
      PROVE  FALSE
  BY <1>1, <1>2, <1>4 DEF Accept
<1>5. ASSUME NEW q \in Request, Reply(q, 200)
      PROVE  q = r
  BY <1>1, <1>5 DEF Reply, HandlerTypes
<1>6. answer' # answer
  BY <1>1
<1>7. PICK q \in Request : Receive(q) \/ Handle(q) \/ Fault(q)
  BY <1>6 DEF Next, Tick, KeyRotation, vars, handlerVars
<1>8. ~Receive(q)
  BY <1>2, <1>6 DEF Receive
<1>9. ~Verify(q)
  BY <1>2, <1>4 DEF Verify
<1>10. ~Fault(q)
  BY <1>2, <1>3
     DEF Fault, FetchError, RedisReplyLost, RedisError, Unsupported, BackendError, UnreadableAnswer
<1>11. ~(OpenObserveAnswers(q) \/ FallbackAnswers(q))
  BY <1>6 DEF OpenObserveAnswers, FallbackAnswers, Evaluate
<1>12. ~(AuthDisabled(q) \/ GetKeySet(q) \/ StoreKeySet(q) \/ VerifyFetched(q))
  BY <1>2, <1>3, <1>4, <1>9 DEF AuthDisabled, GetKeySet, StoreKeySet, VerifyFetched
<1>13. ~(AllowLocal(q) \/ AllowRedis(q) \/ CacheMiss(q))
  BY <1>2, <1>3 DEF AllowLocal, AllowRedis, CacheMiss
<1>14. ~Fetch(q)
  BY <1>6 DEF Fetch, handlerVars
<1>15. CacheHit(q) \/ Answer(q)
  BY <1>7, <1>8, <1>10, <1>11, <1>12, <1>13, <1>14 DEF Handle
<1>16. q = r
  BY <1>5, <1>15 DEF CacheHit, Answer
<1> QED
  BY <1>15, <1>16 DEF Answer

LEMMA ServedFits ==
  ASSUME Inv, [Next]_vars, NEW r \in Request, Served(r)
  PROVE  /\ OwnKey(r) => result'[r].call \in Calls(features, http[r].body, tenant[r])
         /\ result'[r].readAt \in 1..now
         /\ now <= result'[r].readAt + RequestTimeout + CacheTTL
<1>1. CASE CacheHit(r)
  BY <1>1, HitFits
<1>2. CASE Answer(r) /\ result' = result
  <2>1. /\ result[r].call \in Calls(features, http[r].body, tenant[r])
        /\ result[r].readAt \in 1..now /\ now <= result[r].readAt + RequestTimeout
    BY <1>2, ReadFits DEF Answer
  <2>2. /\ now \in Nat /\ RequestTimeout \in Nat /\ CacheTTL \in Nat
        /\ result[r].readAt \in Nat
    BY <2>1, GatewayAssumption, ServerAssumption DEF Inv, HandlersOK, HandlerTypes
  <2>3. now <= result[r].readAt + RequestTimeout + CacheTTL
    BY <2>1, <2>2
  <2> QED
    BY <1>2, <2>1, <2>3
<1> QED
  BY <1>1, <1>2, ServedBy

(* What a client gets from a backend is what it says of the client's own query, range,
   step and tenant; and so is what it gets from the cache, if the names of its request
   and of the one that stored the entry are plain: two such requests that share a
   cache key (server.go:271) ask the same, although the key leaves absent parts out.
   Without that condition it is false: nothing checks the names. *)
THEOREM AnswersFit == Spec => AnswerFitsRequest
<1>1. ASSUME Inv, [Next]_vars, NEW r \in Request, Served(r) /\ OwnKey(r)
      PROVE  \/ result'[r].call = OpenObserveCall(http[r].body, tenant[r], OwnSource(r))
             \/ /\ http[r].body.lang = "promql" /\ "fallback" \in features
                /\ result'[r].call = FallbackCall(http[r].body, tenant[r])
  BY <1>1, ServedFits DEF Calls, OwnSource
<1>2. Inv /\ [Next]_vars =>
        [\A r \in Request :
           Served(r) /\ OwnKey(r) =>
             \/ result'[r].call = OpenObserveCall(http[r].body, tenant[r], OwnSource(r))
             \/ /\ http[r].body.lang = "promql" /\ "fallback" \in features
                /\ result'[r].call = FallbackCall(http[r].body, tenant[r])]_vars
  BY <1>1
<1> QED
  BY <1>2, GatewayInvariant, PTL DEF Spec, AnswerFitsRequest

(* No answer is older than the ttl of the cache and the life of one request
   (server.go:225), however slow requests overwrite the entries of faster ones. *)
THEOREM AnswersAreFresh == Spec => AnswerIsFresh
<1>1. ASSUME Inv, [Next]_vars, NEW r \in Request, Served(r)
      PROVE  now - result'[r].readAt <= CacheTTL + RequestTimeout
  <2>1. result'[r].readAt \in 1..now /\ now <= result'[r].readAt + RequestTimeout + CacheTTL
    BY <1>1, ServedFits
  <2>2. /\ now \in Nat /\ RequestTimeout \in Nat /\ CacheTTL \in Nat
        /\ result'[r].readAt \in Nat
    BY <1>1, <2>1, GatewayAssumption, ServerAssumption DEF Inv, HandlersOK, HandlerTypes
  <2> QED
    BY <2>1, <2>2
<1>2. Inv /\ [Next]_vars =>
        [\A r \in Request :
           Served(r) => now - result'[r].readAt <= CacheTTL + RequestTimeout]_vars
  BY <1>1
<1> QED
  BY <1>2, GatewayInvariant, PTL DEF Spec, AnswerIsFresh

-----------------------------------------------------------------------------
(* The keys. *)

LEMMA VerifiesBy ==
  ASSUME Inv, [Next]_vars, NEW r \in Request, Verifies(r), http[r].token.valid
  PROVE  \/ pc[r] = "auth" /\ KeySetFresh
         \/ pc[r] = "verify"
<1> SUFFICES ASSUME pc[r] = "auth", ~KeySetFresh
             PROVE  FALSE
  BY DEF Verifies
<1>1. HandlerTypes /\ pc'[r] \notin {"auth", "fetch"} /\ "auth" \in features
  BY DEF Inv, HandlersOK, Verifies
<1>2. pc' # pc
  BY <1>1
<1>3. PICK q \in Request : Receive(q) \/ Handle(q) \/ Fault(q)
  BY <1>2 DEF Next, Tick, KeyRotation, vars, handlerVars
<1>4. CASE q = r
  <2>1. GetKeySet(r)
    BY <1>1, <1>3, <1>4
       DEF Receive, Handle, Fault, AuthDisabled, Fetch, StoreKeySet, VerifyFetched, AllowLocal,
           AllowRedis, CacheHit, CacheMiss, OpenObserveAnswers, FallbackAnswers, Answer,
           FetchError, RedisReplyLost, RedisError, Unsupported, BackendError, UnreadableAnswer
  <2>2. http[r].token # NoToken
    BY DEF NoToken
  <2>3. Step(r, "fetch")
    BY <2>1, <2>2 DEF GetKeySet
  <2> QED
    BY <1>1, <2>3 DEF Step, Goto, HandlerTypes
<1>5. CASE q # r
  <2>1. pc'[r] = pc[r]
    <3>1. ASSUME NEW label, Goto(q, label)
          PROVE  pc'[r] = pc[r]
      BY <1>1, <1>5, <3>1 DEF Goto, HandlerTypes
    <3>2. CASE Receive(q)
      BY <3>1, <3>2 DEF Receive, Refuse, Reply
    <3>3. CASE Handle(q)
      BY <3>1, <3>3
         DEF Handle, AuthDisabled, GetKeySet, Fetch, handlerVars, StoreKeySet, VerifyFetched, Verify,
             Accept, AllowLocal, AllowRedis, CacheHit, CacheMiss, OpenObserveAnswers,
             FallbackAnswers, Answer, Evaluate, Refuse, Reply, Step
    <3>4. CASE Fault(q)
      BY <3>1, <3>4
         DEF Fault, FetchError, RedisReplyLost, RedisError, Unsupported, BackendError,
             UnreadableAnswer, Refuse, Reply, Step
    <3> QED
      BY <1>3, <3>2, <3>3, <3>4
  <2> QED
    BY <1>1, <2>1
<1> QED
  BY <1>4, <1>5

(* If no fetch takes longer than a key set is kept, a withdrawn key is not accepted, and
   the published one not refused, once ttl and timeout have passed since the rotation:
   no fetch that stores its answer late (authenticator.go:155) lets an old key live
   longer.  The hypothesis is what the code's constant (10 s) and its default (1 h)
   give: a ttl shorter than the timeout makes a late set last longer than that. *)
THEOREM KeysAreFollowed ==
  ASSUME FetchTimeout <= KeyTTL
  PROVE  Spec => KeysFollowRotation
<1>1. ASSUME Inv, [Next]_vars, NEW r \in Request, Verifies(r) /\ http[r].token.valid
      PROVE  \/ SignatureOK(http[r].token) <=> http[r].token.key = published
             \/ now <= rotatedAt + KeyTTL + FetchTimeout
  <2>1. CASE keySet = published
    BY <2>1 DEF SignatureOK
  <2>2. CASE keySet # published
    <3>1. /\ fetchedAt <= rotatedAt + FetchTimeout /\ fetchedAt \in 0..now /\ rotatedAt \in 0..now
          /\ FetchOK(r) /\ HandlerOK(r) /\ now \in 1..MaxTime /\ arrived[r] \in Nat
      BY <1>1, <2>2 DEF Inv, KeysOK, KeySetOK, AuthTypeOK, HandlersOK, HandlerTypes
    <3>2. /\ now \in Nat /\ fetchedAt \in Nat /\ rotatedAt \in Nat /\ KeyTTL \in Nat
          /\ FetchTimeout \in Nat
      BY <3>1, AuthAssumption, GatewayAssumption
    <3>3. CASE KeySetFresh
      BY <3>1, <3>2, <3>3 DEF KeySetFresh
    <3>4. CASE pc[r] = "verify"
      <4>1. arrived[r] <= fetchedAt /\ now <= arrived[r] + FetchTimeout
        BY <3>1, <3>4 DEF FetchOK, HandlerOK, Active, InHand, Deadline, Authenticating
      <4> QED
        BY <3>1, <3>2, <4>1
    <3> QED
      BY <1>1, <3>3, <3>4, VerifiesBy
  <2> QED
    BY <2>1, <2>2
<1>2. Inv /\ [Next]_vars =>
        [\A r \in Request :
           Verifies(r) /\ http[r].token.valid
             => \/ SignatureOK(http[r].token) <=> http[r].token.key = published
                \/ now <= rotatedAt + KeyTTL + FetchTimeout]_vars
  BY <1>1
<1> QED
  BY <1>2, GatewayInvariant, PTL DEF Spec, KeysFollowRotation
=============================================================================
