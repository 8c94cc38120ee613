---------------------------- MODULE ResourcesProofs ----------------------------
(***************************************************************************)
(* A transaction that is rolled back leaves the configuration reading as   *)
(* it did, for every document and every configuration, and one that is     *)
(* applied leaves it reading as it was planned: the sections it manages    *)
(* read back as they were asked for, and applied again it writes nothing.  *)
(* The resources and the portal keep the cloud in the form that needs,     *)
(* share no item, and never write over what they have not seen.            *)
(***************************************************************************)
EXTENDS ResourcesProperties, RouterConfigProofs

-----------------------------------------------------------------------------
(* What a write does to what a document says.                                *)

Kinds == {"site", "device", "client"}
\* What a document says of the key of a write: of a client, the edit the portal would post.
Says(d, kind, key) ==
  CASE kind = "site"   -> At(d.site, key)
    [] kind = "device" -> At(d.device, key)
    [] kind = "client" -> ClientEdit(Record(d, key))
IsWrite(w) == w.kind \in Kinds /\ (w.kind = "client" => \E r : w.value = ClientEdit(r))

EditKeys == ClientConfigFields \cup ClientRecordFields \cup {"wired"}
LEMMA EditIs ==
  ASSUME NEW r
  PROVE  /\ ClientEdit(r) = [k \in EditKeys |-> ClientEdit(r)[k]]
         /\ \A k \in ClientConfigFields : ClientEdit(r)[k] = At(At(r, "config"), k)
         /\ \A k \in ClientRecordFields : ClientEdit(r)[k] = At(r, k)
         /\ ClientEdit(r)["wired"] = Bool(AsFlag(At(r, "wired")))
BY DEF ClientEdit, EditKeys, ClientConfigFields, ClientRecordFields

LEMMA EditsSame ==
  ASSUME NEW r, NEW t, \A k \in EditKeys : ClientEdit(r)[k] = ClientEdit(t)[k]
  PROVE  ClientEdit(r) = ClientEdit(t)
BY EditIs

LEMMA FlagsAgain == ASSUME NEW v PROVE Bool(AsFlag(Bool(AsFlag(v)))) = Bool(AsFlag(v))
BY DEF Bool, AsFlag

\* A record that was posted gives the edit it was posted from.
LEMMA EditPosted ==
  ASSUME NEW r, NEW record
  PROVE  ClientEdit(Obj(Over([k \in ClientRecordFields \cup {"wired", "config"} |->
           IF k = "config" THEN ClientConfig(ClientEdit(r)) ELSE ClientEdit(r)[k]], record))) = ClientEdit(r)
<1> DEFINE edit == ClientEdit(r)
           new == Obj(Over([k \in ClientRecordFields \cup {"wired", "config"} |->
                    IF k = "config" THEN ClientConfig(edit) ELSE edit[k]], record))
<1>1. \A k \in ClientRecordFields \cup {"wired"} : At(new, k) = edit[k]
  BY DEF At, Fields, Obj, Over, ClientRecordFields
<1>2. At(new, "config") = ClientConfig(edit)
  BY DEF At, Fields, Obj, Over
<1>3. \A k \in ClientConfigFields : At(ClientConfig(edit), k) = edit[k]
  BY DEF At, Fields, Obj, ClientConfig
<1>4. edit["wired"] = Bool(AsFlag(edit["wired"]))
  BY EditIs, FlagsAgain
<1> HIDE DEF edit, new
<1>5. \A k \in EditKeys : ClientEdit(new)[k] = edit[k]
  <2>1. \A k \in ClientConfigFields : ClientEdit(new)[k] = edit[k]
    BY <1>2, <1>3, EditIs
  <2>2. \A k \in ClientRecordFields : ClientEdit(new)[k] = edit[k]
    BY <1>1, EditIs
  <2>3. ClientEdit(new)["wired"] = edit["wired"]
    BY <1>1, <1>4, EditIs
  <2> QED
    BY <2>1, <2>2, <2>3 DEF EditKeys
<1> QED
  BY <1>5, EditsSame DEF edit, new

LEMMA PostedClients ==
  ASSUME NEW d, FiniteKeys(d), NEW w, w.kind = "client"
  PROVE  \E record :
           Posted(d, w) = [site |-> d.site, device |-> d.device,
                           clients |-> Over([c \in {w.key} |-> Obj(Over(
                             [k \in ClientRecordFields \cup {"wired", "config"} |->
                                IF k = "config" THEN ClientConfig(w.value) ELSE w.value[k]], record))], d.clients)]
<1> DEFINE record == IF w.key \in DOMAIN d.clients THEN Fields(d.clients[w.key]) ELSE [id |-> Str(w.key)]
<1>1. DOMAIN d = {"site", "device", "clients"}
  BY DEF FiniteKeys
<1> QED
  BY <1>1 DEF Posted, FiniteKeys

LEMMA PostedTells ==
  ASSUME NEW d, FiniteKeys(d), NEW w, IsWrite(w)
  PROVE  /\ FiniteKeys(Posted(d, w))
         /\ \A kind \in Kinds : \A key :
              Says(Posted(d, w), kind, key) =
                IF kind = w.kind /\ key = w.key THEN w.value ELSE Says(d, kind, key)
<1>1. CASE w.kind = "site"
  <2>1. Posted(d, w) = [site |-> With(d.site, w.key, w.value), device |-> d.device, clients |-> d.clients]
    BY <1>1 DEF Posted, FiniteKeys
  <2> QED
    BY <1>1, <2>1, AtWith, FiniteWith DEF FiniteKeys, Says, Kinds, Record
<1>2. CASE w.kind = "device"
  <2>1. Posted(d, w) = [site |-> d.site, device |-> With(d.device, w.key, w.value), clients |-> d.clients]
    BY <1>2 DEF Posted, FiniteKeys
  <2> QED
    BY <1>2, <2>1, AtWith, FiniteWith DEF FiniteKeys, Says, Kinds, Record
<1>3. CASE w.kind = "client"
  <2>1. PICK record :
          Posted(d, w) = [site |-> d.site, device |-> d.device,
                          clients |-> Over([c \in {w.key} |-> Obj(Over(
                            [k \in ClientRecordFields \cup {"wired", "config"} |->
                               IF k = "config" THEN ClientConfig(w.value) ELSE w.value[k]], record))], d.clients)]
    BY <1>3, PostedClients
  <2> DEFINE e == Posted(d, w)
             sent == [k \in ClientRecordFields \cup {"wired", "config"} |->
                        IF k = "config" THEN ClientConfig(w.value) ELSE w.value[k]]
             new == Obj(Over(sent, record))
  <2>2. e.site = d.site /\ e.device = d.device /\ e.clients = Over([c \in {w.key} |-> new], d.clients)
    BY <2>1
  <2>3. FiniteKeys(e)
    BY <2>1, <2>2, FiniteOver, FS_Singleton DEF FiniteKeys
  <2>4. \A c : Record(e, c) = IF c = w.key THEN new ELSE Record(d, c)
    BY <2>2 DEF Record, Over
  <2>5. PICK r : w.value = ClientEdit(r)
    BY <1>3 DEF IsWrite
  <2>6. ClientEdit(new) = w.value
    BY <2>5, EditPosted
  <2> HIDE DEF new, sent
  <2>7. \A key : Says(e, "client", key) = IF key = w.key THEN w.value ELSE Says(d, "client", key)
    BY <2>4, <2>6 DEF Says
  <2> QED
    BY <1>3, <2>2, <2>3, <2>7 DEF Says, Kinds
<1> QED
  BY <1>1, <1>2, <1>3 DEF IsWrite, Kinds

LEMMA SetToSeqLists ==
  ASSUME NEW S, IsFiniteSet(S)
  PROVE  /\ Cardinality(S) \in Nat
         /\ SetToSeq(S) \in [1..Cardinality(S) -> S]
         /\ Len(SetToSeq(S)) = Cardinality(S)
         /\ \A i, j \in 1..Cardinality(S) : SetToSeq(S)[i] = SetToSeq(S)[j] => i = j
         /\ \A x \in S : \E i \in 1..Cardinality(S) : SetToSeq(S)[i] = x
<1> DEFINE n == Cardinality(S)
           q == SetToSeq(S)
<1>1. n \in Nat /\ ExistsBijection(1..n, S)
  BY FS_NatBijection, FS_CardinalityType
<1>2. PICK f \in [1..n -> S] : IsInjective(f)
  BY <1>1 DEF ExistsBijection, Bijection, Injection
<1>3. q \in [1..n -> S] /\ IsInjective(q)
  BY <1>2 DEF SetToSeq
<1>4. q \in Injection(1..n, S)
  BY <1>3 DEF Injection
<1>5. IsFiniteSet(1..n) /\ Cardinality(1..n) = n
  BY <1>1, FS_Interval
<1>6. q \in Surjection(1..n, S)
  BY <1>4, <1>5, FS_Injection
<1>7. Len(q) = n
  BY <1>1, <1>3, LenProperties
<1>8. \A x \in S : \E i \in 1..n : q[i] = x
  BY <1>6 DEF Surjection
<1>9. \A i, j \in 1..n : q[i] = q[j] => i = j
  BY <1>3 DEF IsInjective
<1> HIDE DEF n, q
<1> QED
  BY <1>1, <1>3, <1>7, <1>8, <1>9 DEF n, q

\* q lists the writes W, and f holds the documents between them.
IsRun(d, W, n, q, f) ==
  /\ n \in Nat /\ q \in [1..n -> W]
  /\ f[0] = d /\ f[n] = Post(d, W)
  /\ \A i \in 1..n : f[i] = Posted(f[i - 1], q[i])
  /\ \A i, j \in 1..n : q[i] = q[j] => i = j
  /\ \A w \in W : \E i \in 1..n : q[i] = w

LEMMA PostRuns ==
  ASSUME NEW d, NEW W, IsFiniteSet(W)
  PROVE  \E n, q, f : IsRun(d, W, n, q, f)
<1> DEFINE q == SetToSeq(W)
           n == Cardinality(W)
<1>1. /\ n \in Nat /\ q \in [1..n -> W] /\ Len(q) = n
      /\ \A i, j \in 1..n : q[i] = q[j] => i = j
      /\ \A w \in W : \E i \in 1..n : q[i] = w
  BY SetToSeqLists
<1>2. PICK f : f[0] = d /\ PostAlong(d, q) = f[n] /\ \A i \in 1..n : f[i] = Posted(f[i - 1], q[i])
  BY <1>1, PostedRuns
<1>3. Post(d, W) = PostAlong(d, q)
  BY DEF Post, PostAlong
<1>4. IsRun(d, W, n, q, f)
  BY <1>1, <1>2, <1>3 DEF IsRun
<1> QED
  BY <1>4

IsWrites(W) ==
  /\ IsFiniteSet(W)
  /\ \A w \in W : IsWrite(w)
  /\ \A v, w \in W : v.kind = w.kind /\ v.key = w.key => v = w

LEMMA PostTells ==
  ASSUME NEW d, FiniteKeys(d), NEW W, IsWrites(W)
  PROVE  /\ FiniteKeys(Post(d, W))
         /\ \A w \in W : Says(Post(d, W), w.kind, w.key) = w.value
         /\ \A kind \in Kinds : \A key : (\A w \in W : ~(w.kind = kind /\ w.key = key)) =>
              Says(Post(d, W), kind, key) = Says(d, kind, key)
<1>0. PICK n, q, f : IsRun(d, W, n, q, f)
  BY PostRuns DEF IsWrites
<1>1. /\ n \in Nat /\ q \in [1..n -> W]
      /\ f[0] = d /\ f[n] = Post(d, W)
      /\ \A i \in 1..n : f[i] = Posted(f[i - 1], q[i])
      /\ \A i, j \in 1..n : q[i] = q[j] => i = j
      /\ \A w \in W : \E i \in 1..n : q[i] = w
  BY <1>0 DEF IsRun
<1> DEFINE Good(i) == /\ FiniteKeys(f[i])
                      /\ \A j \in 1..i : Says(f[i], q[j].kind, q[j].key) = q[j].value
                      /\ \A kind \in Kinds : \A key : (\A j \in 1..i : ~(q[j].kind = kind /\ q[j].key = key)) =>
                           Says(f[i], kind, key) = Says(d, kind, key)
           Bad == {i \in 0..n : ~Good(i)}
<1>2. Good(0)
  BY <1>1
<1>3. ASSUME NEW i \in 1..n, Good(i - 1) PROVE Good(i)
  <2>1. q[i] \in W /\ IsWrite(q[i]) /\ \A j \in 1..n : q[j] \in W /\ q[j].kind \in Kinds
    BY <1>1 DEF IsWrites, IsWrite
  <2>2. /\ FiniteKeys(f[i])
        /\ \A kind \in Kinds : \A key :
             Says(f[i], kind, key) = IF kind = q[i].kind /\ key = q[i].key THEN q[i].value ELSE Says(f[i - 1], kind, key)
    BY <1>1, <1>3, <2>1, PostedTells
  <2>3. ASSUME NEW j \in 1..i PROVE Says(f[i], q[j].kind, q[j].key) = q[j].value
    <3>1. CASE j = i
      BY <1>1, <2>1, <2>2, <3>1
    <3>2. CASE j # i
      <4>1. j \in 1..(i - 1) /\ j \in 1..n
        BY <1>1, <3>2
      <4>2. ~(q[j].kind = q[i].kind /\ q[j].key = q[i].key)
        BY <1>1, <2>1, <3>2, <4>1 DEF IsWrites
      <4> QED
        BY <1>3, <2>1, <2>2, <4>1, <4>2
    <3> QED
      BY <3>1, <3>2
  <2>4. ASSUME NEW kind \in Kinds, NEW key, \A j \in 1..i : ~(q[j].kind = kind /\ q[j].key = key)
        PROVE  Says(f[i], kind, key) = Says(d, kind, key)
    <3>1. i \in 1..i /\ \A j \in 1..(i - 1) : j \in 1..i
      BY <1>1
    <3> QED
      BY <1>3, <2>2, <2>4, <3>1
  <2> QED
    BY <2>2, <2>3, <2>4
<1>4. Good(n)
  <2> HIDE DEF Good
  <2>1. Bad \in SUBSET Nat
    BY <1>1
  <2>2. SUFFICES ASSUME Bad # {} PROVE FALSE
    BY <1>1
  <2>3. PICK i \in Bad : \A j \in Bad : i <= j
    BY <2>1, <2>2, NatMin
  <2>4. i \in 1..n /\ i - 1 \in 0..n /\ ~(i <= i - 1)
    BY <1>1, <1>2, <2>3
  <2> QED
    BY <1>3, <2>3, <2>4
<1> QED
  BY <1>1, <1>4 DEF IsWrites

-----------------------------------------------------------------------------
(* Pre-images undo their writes.                                             *)

LEMMA PreImagesTell ==
  ASSUME NEW d, NEW W, IsWrites(W)
  PROVE  /\ IsWrites(PreImages(d, W))
         /\ \A p \in PreImages(d, W) :
              p.value = Says(d, p.kind, p.key) /\ \E w \in W : w.kind = p.kind /\ w.key = p.key
         /\ \A w \in W : \E p \in PreImages(d, W) : p.kind = w.kind /\ p.key = w.key
<1> DEFINE Pre(w) == CASE w.kind = "site"   -> At(d.site, w.key)
                       [] w.kind = "device" -> At(d.device, w.key)
                       [] w.kind = "client" -> ClientEdit(Record(d, w.key))
           f == [w \in W |-> Write(w.kind, w.key, Pre(w))]
           P == PreImages(d, W)
<1>1. P = {f[w] : w \in W} /\ DOMAIN f = W
  BY DEF PreImages
<1>2. \A w \in W : f[w].kind = w.kind /\ f[w].key = w.key /\ f[w].value = Pre(w)
  BY DEF Write
<1>3. IsFiniteSet(P)
  <2> HIDE DEF f, P
  <2>1. IsFiniteSet({f[w] : w \in DOMAIN f})
    BY <1>1, FiniteImage DEF IsWrites
  <2> QED
    BY <1>1, <2>1
<1>4. \A w \in W : w.kind \in Kinds
  BY DEF IsWrites, IsWrite
<1>5. \A w \in W : f[w].value = Says(d, w.kind, w.key)
  BY <1>2, <1>4 DEF Says, Kinds
<1> HIDE DEF f, P
<1>6. \A p \in P : IsWrite(p)
  BY <1>1, <1>2, <1>4, <1>5 DEF IsWrite, Says
<1>7. ASSUME NEW p \in P, NEW r \in P, p.kind = r.kind, p.key = r.key PROVE p = r
  BY <1>1, <1>2, <1>7 DEF IsWrites
<1> QED
  BY <1>1, <1>2, <1>3, <1>5, <1>6, <1>7 DEF P, IsWrites

\* A set of writes followed by its pre-images leaves every key saying what it said.
LEMMA PreImagesUndo ==
  ASSUME NEW d, FiniteKeys(d), NEW W, IsWrites(W)
  PROVE  LET e == Post(Post(d, W), PreImages(d, W))
         IN  FiniteKeys(e) /\ \A kind \in Kinds : \A key : Says(e, kind, key) = Says(d, kind, key)
<1> DEFINE m == Post(d, W)
           P == PreImages(d, W)
           e == Post(m, P)
<1>1. FiniteKeys(m) /\ IsWrites(P)
  BY PostTells, PreImagesTell
<1>2. FiniteKeys(e)
  BY <1>1, PostTells
<1>3. ASSUME NEW kind \in Kinds, NEW key PROVE Says(e, kind, key) = Says(d, kind, key)
  <2>1. CASE \E p \in P : p.kind = kind /\ p.key = key
    <3>1. PICK p \in P : p.kind = kind /\ p.key = key
      BY <2>1
    <3>2. Says(e, p.kind, p.key) = p.value
      BY <1>1, PostTells
    <3> QED
      BY <3>1, <3>2, PreImagesTell
  <2>2. CASE \A p \in P : ~(p.kind = kind /\ p.key = key)
    <3>1. \A w \in W : ~(w.kind = kind /\ w.key = key)
      BY <2>2, PreImagesTell
    <3>2. Says(e, kind, key) = Says(m, kind, key)
      BY <1>1, <2>2, PostTells
    <3>3. Says(m, kind, key) = Says(d, kind, key)
      BY <3>1, PostTells
    <3> QED
      BY <3>2, <3>3
  <2> QED
    BY <2>1, <2>2
<1> QED
  BY <1>2, <1>3

-----------------------------------------------------------------------------
(* Reading depends on nothing but what the keys say.                         *)

LEMMA NodeSame ==
  ASSUME NEW root, NEW other, NEW path, Len(path) \in Nat \ {0},
         \A k : At(root, k) = At(other, k)
  PROVE  Node(root, path) = Node(other, path)
<1> DEFINE n == Len(path)
<1>1. PICK f : f[0] = root /\ Node(root, path) = f[n] /\ \A i \in 1..n : f[i] = At(f[i - 1], path[i])
  BY NodeRuns
<1>2. PICK g : g[0] = other /\ Node(other, path) = g[n] /\ \A i \in 1..n : g[i] = At(g[i - 1], path[i])
  BY NodeRuns
<1> DEFINE T == {i \in 1..n : f[i] # g[i]}
<1>3. SUFFICES ASSUME T # {} PROVE FALSE
  BY <1>1, <1>2
<1>4. PICK i \in T : \A j \in T : i <= j
  <2>1. T \in SUBSET Nat
    OBVIOUS
  <2> QED
    BY <1>3, <2>1, NatMin
<1>5. CASE i = 1
  BY <1>1, <1>2, <1>4, <1>5
<1>6. CASE i # 1
  BY <1>1, <1>2, <1>4, <1>6
<1> QED
  BY <1>5, <1>6

LEMMA ListReadSame ==
  ASSUME NEW s \in DOMAIN Codec, NEW root, NEW other, \A k : At(root, k) = At(other, k)
  PROVE  ListRead(s, root) = ListRead(s, other)
<1>1. Len(Codec[s].path) \in Nat \ {0}
  BY DEF Codec, ListCodec
<1>2. Node(root, Codec[s].path) = Node(other, Codec[s].path)
  BY <1>1, NodeSame
<1> QED
  BY <1>2 DEF ListRead, Elements

LEMMA PortsReadSame ==
  ASSUME NEW root, NEW other, \A k : At(root, k) = At(other, k)
  PROVE  ReadSwitchPorts(root) = ReadSwitchPorts(other)
<1>1. Len(PortsPath) \in Nat \ {0}
  BY DEF PortsPath
<1>2. Node(root, PortsPath) = Node(other, PortsPath)
  BY <1>1, NodeSame
<1> QED
  BY <1>2 DEF ReadSwitchPorts

LEMMA ReservationsReadSame ==
  ASSUME NEW d, NEW e, \A c : Says(d, "client", c) = Says(e, "client", c)
  PROVE  ReadReservations(d.clients) = ReadReservations(e.clients)
<1> DEFINE ip(x, c) == AsString(At(At(x.clients[c], "config"), "ip"))
           with(x) == {c \in DOMAIN x.clients : ip(x, c) # ""}
           leases(x) == {[MAC |-> MACOf[c], IP |-> ip(x, c)] : c \in with(x)}
<1>1. At(At(EmptyObj, "config"), "ip") = Null /\ AsString(Null) = ""
  BY DEF At, Fields, Obj, EmptyObj, Null, AsString
<1>2. ASSUME NEW x, NEW c
      PROVE  /\ c \in DOMAIN x.clients => Says(x, "client", c)["ip"] = At(At(x.clients[c], "config"), "ip")
             /\ c \notin DOMAIN x.clients => Says(x, "client", c)["ip"] = Null
  <2>1. Says(x, "client", c)["ip"] = At(At(Record(x, c), "config"), "ip")
    BY EditIs DEF Says, ClientConfigFields
  <2> QED
    BY <1>1, <2>1 DEF Record
<1>3. \A c : c \in with(d) <=> c \in with(e)
  BY <1>1, <1>2
<1>4. \A c \in with(d) : ip(d, c) = ip(e, c)
  BY <1>1, <1>2, <1>3
<1>5. leases(d) = leases(e)
  BY <1>3, <1>4
<1> QED
  BY <1>5 DEF ReadReservations

LEMMA ReadSame ==
  ASSUME NEW d, NEW e, \A kind \in Kinds : \A key : Says(d, kind, key) = Says(e, kind, key)
  PROVE  Read(d) = Read(e)
<1>1. \A k : At(d.site, k) = At(e.site, k)
  <2>1. \A k : Says(d, "site", k) = At(d.site, k) /\ Says(e, "site", k) = At(e.site, k)
    BY DEF Says
  <2> QED
    BY <2>1 DEF Kinds
<1>2. \A k : At(d.device, k) = At(e.device, k)
  <2>1. \A k : Says(d, "device", k) = At(d.device, k) /\ Says(e, "device", k) = At(e.device, k)
    BY DEF Says
  <2> QED
    BY <2>1 DEF Kinds
<1>3. \A c : Says(d, "client", c) = Says(e, "client", c)
  BY DEF Kinds
<1>4. ASSUME NEW s \in ToSet(Sections) PROVE ReadSection(s, d) = ReadSection(s, e)
  <2>1. s \in DOMAIN Codec \cup {"SwitchPorts", "DHCPReservations"}
    BY DEF Sections, Codec, ToSet
  <2>2. CASE s = "SwitchPorts"
    BY <1>2, <2>2, PortsReadSame DEF ReadSection
  <2>3. CASE s = "DHCPReservations"
    BY <1>3, <2>3, ReservationsReadSame DEF ReadSection
  <2>4. CASE s \in DOMAIN Codec /\ s # "SwitchPorts" /\ s # "DHCPReservations"
    BY <1>1, <2>4, ListReadSame DEF ReadSection
  <2> QED
    BY <2>1, <2>2, <2>3, <2>4
<1> QED
  BY <1>4 DEF Read

LEMMA WritesAreWrites ==
  ASSUME NEW d, NEW e, FiniteKeys(d), FiniteKeys(e)
  PROVE  IsWrites(Writes(e, d))
<1> DEFINE S == Changed(d.site, e.site)
           D == Changed(d.device, e.device)
           C == {c \in DOMAIN e.clients : ClientEdit(Record(d, c)) # ClientEdit(Record(e, c))}
           fs == [k \in S |-> Write("site", k, At(e.site, k))]
           fd == [k \in D |-> Write("device", k, At(e.device, k))]
           fc == [c \in C |-> Write("client", c, ClientEdit(Record(e, c)))]
           W == Writes(e, d)
<1>1. W = {fs[k] : k \in S} \cup {fd[k] : k \in D} \cup {fc[c] : c \in C}
  BY DEF Writes
<1>2. IsFiniteSet(S) /\ IsFiniteSet(D) /\ IsFiniteSet(C)
  BY FS_Subset DEF FiniteKeys, Changed
<1>3. DOMAIN fs = S /\ DOMAIN fd = D /\ DOMAIN fc = C
  OBVIOUS
<1>4. /\ \A k \in S : fs[k].kind = "site" /\ fs[k].key = k
      /\ \A k \in D : fd[k].kind = "device" /\ fd[k].key = k
      /\ \A c \in C : fc[c].kind = "client" /\ fc[c].key = c
  BY DEF Write
<1> HIDE DEF S, D, C, fs, fd, fc, W
<1>5. IsFiniteSet({fs[k] : k \in S}) /\ IsFiniteSet({fd[k] : k \in D}) /\ IsFiniteSet({fc[c] : c \in C})
  BY <1>2, <1>3, FiniteImage
<1>6. IsFiniteSet(W)
  BY <1>1, <1>5, FS_Union
<1>7. \A w \in W : IsWrite(w)
  <2>1. \A c \in C : fc[c].value = ClientEdit(Record(e, c))
    BY DEF fc, Write
  <2> QED
    BY <1>1, <1>4, <2>1 DEF IsWrite, Kinds
<1>8. ASSUME NEW v \in W, NEW w \in W, v.kind = w.kind, v.key = w.key PROVE v = w
  BY <1>1, <1>4, <1>8
<1> QED
  BY <1>6, <1>7, <1>8 DEF IsWrites, W

\* Whatever a document was to become, its writes followed by their pre-images leave it
\* reading as it did, in every section and for records they created (Writes, PreImages in
\* document.go).
THEOREM UndoneReadsTheSame ==
  ASSUME NEW d, NEW e, IsDocument(d), IsDocument(e)
  PROVE  LET W == Writes(e, d)  u == Post(Post(d, W), PreImages(d, W))
         IN  IsDocument(u) /\ Read(u) = Read(d)
<1> DEFINE W == Writes(e, d)
           u == Post(Post(d, W), PreImages(d, W))
<1>1. FiniteKeys(u) /\ \A kind \in Kinds : \A key : Says(u, kind, key) = Says(d, kind, key)
  BY WritesAreWrites, PreImagesUndo DEF IsDocument
<1>2. Read(u) = Read(d)
  BY <1>1, ReadSame
<1>3. \A k : At(u.device, k) = At(d.device, k)
  <2>1. \A k : Says(u, "device", k) = At(u.device, k) /\ Says(d, "device", k) = At(d.device, k)
    BY DEF Says
  <2> QED
    BY <1>1, <2>1 DEF Kinds
<1>4. Node(u.device, PortsPath) = Node(d.device, PortsPath)
  <2> HIDE DEF u
  <2>1. Len(PortsPath) \in Nat \ {0}
    BY DEF PortsPath
  <2> QED
    BY <1>3, <2>1, NodeSame
<1> QED
  BY <1>1, <1>2, <1>4 DEF IsDocument

-----------------------------------------------------------------------------
(* What the provider writes is a document again.                             *)

\* Whatever is put at a path, the object it is put in changes at the first of the path only.
LEMMA PutAtTop ==
  ASSUME NEW root, NEW path, NEW v, Len(path) \in Nat \ {0}
  PROVE  \E w : PutAt(root, path, v) = With(Obj(Fields(root)), path[1], w)
<1> DEFINE n == Len(path)
<1>1. PICK f : f[0] = v /\ PutAt(root, path, v) = f[n] /\ \A i \in 1..n : f[i] = Wrap(root, path, f[i - 1], i)
  BY PutAtRuns
<1> DEFINE top == SubSeq(path, 1, n - n)
<1>2. Node(root, top) = root
  <2>1. n - n = 0
    OBVIOUS
  <2>2. top = Prefix(path, 0)
    BY <2>1 DEF Prefix
  <2> QED
    BY <2>2, NodeAlong
<1>3. f[n] = With(Obj(Fields(root)), path[n - n + 1], f[n - 1])
  BY <1>1, <1>2 DEF Wrap
<1> QED
  BY <1>1, <1>3

\* The keys of the object it is put in: none is lost.
Gains(root, next) ==
  /\ DOMAIN Fields(root) \subseteq DOMAIN Fields(next)
  /\ IsFiniteSet(DOMAIN Fields(root)) => IsFiniteSet(DOMAIN Fields(next))
LEMMA PutAtGains ==
  ASSUME NEW root, NEW path, NEW v, Len(path) \in Nat \ {0}
  PROVE  Gains(root, PutAt(root, path, v))
<1>1. PICK w : PutAt(root, path, v) = With(Obj(Fields(root)), path[1], w)
  BY PutAtTop
<1>2. Fields(Obj(Fields(root))) = Fields(root)
  BY DEF Fields, Obj
<1>3. DOMAIN Fields(PutAt(root, path, v)) = {path[1]} \cup DOMAIN Fields(root)
  BY <1>1, <1>2, FieldsWith
<1>4. IsFiniteSet(DOMAIN Fields(root)) => IsFiniteSet(DOMAIN Fields(PutAt(root, path, v)))
  BY <1>1, <1>2, FiniteWith
<1> QED
  BY <1>3, <1>4 DEF Gains

LEMMA ListWriteGains ==
  ASSUME NEW s \in DOMAIN Codec, NEW root, NEW items
  PROVE  Gains(root, ListWrite(s, root, items))
<1> DEFINE path == Codec[s].path
           parent == Front(path)
           v == Obj(Fields(Node(root, parent)))
           grown == PutAt(root, parent, v)
<1>1. Len(path) \in Nat \ {0} /\ Len(parent) \in Nat
  BY DEF Codec, ListCodec, Front
<1>2. Gains(root, grown)
  <2>1. Fields(v) = Fields(Node(root, parent))
    BY DEF Fields, Obj
  <2> HIDE DEF v, parent
  <2>2. CASE Len(parent) = 0
    <3>1. PICK g : g[0] = root /\ Node(root, parent) = g[Len(parent)]
      BY <1>1, NodeRuns
    <3>2. PICK f : f[0] = v /\ PutAt(root, parent, v) = f[Len(parent)]
      BY <1>1, PutAtRuns
    <3> QED
      BY <2>1, <2>2, <3>1, <3>2 DEF Gains
  <2>3. CASE Len(parent) # 0
    BY <1>1, <2>3, PutAtGains
  <2> QED
    BY <2>2, <2>3
<1>3. \A w : Gains(root, PutAt(root, path, w))
  <2> HIDE DEF path
  <2> QED
    BY <1>1, PutAtGains
<1>4. ListWrite(s, root, items) = grown \/ \E w : ListWrite(s, root, items) = PutAt(root, path, w)
  BY DEF ListWrite
<1> QED
  BY <1>2, <1>3, <1>4

\* What a port is put in gains no key but its own.
FinitePorts(device) ==
  IsFiniteSet(DOMAIN Fields(device)) /\ IsFiniteSet(DOMAIN Fields(Node(device, PortsPath)))
LEMMA PutAtPort ==
  ASSUME NEW device, NEW t, NEW v, FinitePorts(device)
  PROVE  FinitePorts(PutAt(device, Append(PortsPath, t), v))
<1> DEFINE path == PortPath(t)
           e == PutAt(device, path, v)
<1>1. Len(path) \in Nat \ {0}
  BY PortPathIs
<1>2. Node(e, PortsPath) = With(Obj(Fields(Node(device, PortsPath))), t, v)
  BY PortPut
<1> HIDE DEF path
<1>3. IsFiniteSet(DOMAIN Fields(e))
  BY <1>1, PutAtGains DEF FinitePorts, Gains
<1> HIDE DEF e
<1>4. IsFiniteSet(DOMAIN Fields(Node(e, PortsPath)))
  BY <1>2, FieldsObj, FiniteWith DEF FinitePorts
<1>5. FinitePorts(e)
  BY <1>3, <1>4 DEF FinitePorts
<1> QED
  BY <1>5 DEF e, path, PortPath

LEMMA WritePortsKeys ==
  ASSUME NEW device, NEW items, Len(items) \in Nat, FinitePorts(device)
  PROVE  FinitePorts(WriteSwitchPorts(device, items)) /\ Gains(device, WriteSwitchPorts(device, items))
<1>1. PICK f : /\ f[0] = device /\ WriteSwitchPorts(device, items) = f[Len(items)]
               /\ \A i \in 1..Len(items) : f[i] = WriteSwitchPort(f[i - 1], items[i])
  BY PortsRuns
<1>2. ASSUME NEW x, FinitePorts(x), NEW sp PROVE FinitePorts(WriteSwitchPort(x, sp)) /\ Gains(x, WriteSwitchPort(x, sp))
  <2>1. PICK v : WriteSwitchPort(x, sp) = PutAt(x, Append(PortsPath, ToString(sp.Port)), v)
    BY DEF WriteSwitchPort
  <2> DEFINE path == Append(PortsPath, ToString(sp.Port))
  <2>2. Len(path) \in Nat \ {0}
    BY DEF PortsPath
  <2> HIDE DEF path
  <2>3. Gains(x, PutAt(x, path, v))
    BY <2>2, PutAtGains
  <2>4. Gains(x, WriteSwitchPort(x, sp))
    BY <2>1, <2>3 DEF path
  <2> QED
    BY <1>2, <2>1, <2>4, PutAtPort
<1> DEFINE n == Len(items)
           S == {i \in Nat : i <= n => FinitePorts(f[i]) /\ Gains(device, f[i])}
<1>3. 0 \in S
  BY <1>1 DEF Gains
<1>4. ASSUME NEW i \in Nat, i \in S PROVE i + 1 \in S
  <2>1. i + 1 <= n => i <= n /\ i + 1 \in 1..n /\ i + 1 - 1 = i
    OBVIOUS
  <2>2. i + 1 <= n => f[i + 1] = WriteSwitchPort(f[i], items[i + 1])
    BY <1>1, <2>1
  <2> QED
    BY <1>2, <1>4, <2>1, <2>2 DEF Gains
<1>5. n \in S
  <2> HIDE DEF S
  <2> QED
    BY <1>3, <1>4, NatInduct
<1> QED
  BY <1>1, <1>5

LEMMA WriteReservationsKeys ==
  ASSUME NEW clients, NEW items, IsFiniteSet(DOMAIN clients), ~ReservationsError(items)
  PROVE  /\ IsFiniteSet(DOMAIN WriteReservations(clients, items))
         /\ DOMAIN clients \subseteq DOMAIN WriteReservations(clients, items)
<1> DEFINE wanted == {ClientOf[r.MAC] : r \in ToSet(items)}
           all == {ClientOf[t] : t \in DOMAIN ClientOf}
<1>1. wanted \subseteq all
  BY DEF ToSet, ReservationsError
<1>2. IsFiniteSet(all)
  BY FiniteImage, ClientOfAssumption
<1>3. IsFiniteSet(wanted)
  BY <1>1, <1>2, FS_Subset
<1>4. DOMAIN WriteReservations(clients, items) = DOMAIN clients \cup wanted
  BY DEF WriteReservations
<1> HIDE DEF wanted
<1> QED
  BY <1>3, <1>4, FS_Union

-----------------------------------------------------------------------------
\* A configuration that can be written: its ports are a list, its reservations have clients.
Listed(c) == c["SwitchPorts"] # <<>> => Len(c["SwitchPorts"][1]) \in Nat
Named(c) == c["DHCPReservations"] # <<>> => ~ReservationsError(c["DHCPReservations"][1])

LEMMA NoErrorNamed ==
  ASSUME NEW c, NEW d, ~ConfigError(c, d)
  PROVE  Named(c)
<1>1. "DHCPReservations" \in ToSet(Sections)
  BY DEF Sections, ToSet
<1> QED
  BY <1>1 DEF ConfigError, SectionError, Named

\* A document that e was before something was written to it.
Grows(d, e) ==
  /\ DOMAIN Fields(d.site) \subseteq DOMAIN Fields(e.site) /\ DOMAIN Fields(d.device) \subseteq DOMAIN Fields(e.device)
  /\ DOMAIN d.clients \subseteq DOMAIN e.clients

LEMMA OverlayKeeps ==
  ASSUME NEW c, Listed(c), Named(c), NEW d, IsDocument(d), NEW s \in ToSet(Sections)
  PROVE  IsDocument(Overlay(c, d, s)) /\ Grows(d, Overlay(c, d, s))
<1>1. CASE c[s] = <<>>
  BY <1>1 DEF Overlay, Grows
<1>2. CASE c[s] # <<>> /\ s = "SwitchPorts"
  <2>1. Overlay(c, d, s) = [site |-> d.site, device |-> WriteSwitchPorts(d.device, c[s][1]), clients |-> d.clients]
    BY <1>2 DEF Overlay, WriteSection, IsDocument, FiniteKeys
  <2>2. FinitePorts(WriteSwitchPorts(d.device, c[s][1])) /\ Gains(d.device, WriteSwitchPorts(d.device, c[s][1]))
    BY <1>2, WritePortsKeys DEF Listed, IsDocument, FiniteKeys, FinitePorts
  <2> QED
    BY <2>1, <2>2 DEF IsDocument, FiniteKeys, FinitePorts, Gains, Grows
<1>3. CASE c[s] # <<>> /\ s = "DHCPReservations"
  <2>1. Overlay(c, d, s) = [site |-> d.site, device |-> d.device, clients |-> WriteReservations(d.clients, c[s][1])]
    BY <1>3 DEF Overlay, WriteSection, IsDocument, FiniteKeys
  <2>2. /\ IsFiniteSet(DOMAIN WriteReservations(d.clients, c[s][1]))
        /\ DOMAIN d.clients \subseteq DOMAIN WriteReservations(d.clients, c[s][1])
    BY <1>3, WriteReservationsKeys DEF Named, IsDocument, FiniteKeys
  <2> QED
    BY <2>1, <2>2 DEF IsDocument, FiniteKeys, Grows
<1>4. CASE c[s] # <<>> /\ s # "SwitchPorts" /\ s # "DHCPReservations"
  <2>1. s \in DOMAIN Codec
    BY <1>4 DEF Sections, Codec, ToSet
  <2>2. Overlay(c, d, s) = [site |-> ListWrite(s, d.site, c[s][1]), device |-> d.device, clients |-> d.clients]
    BY <1>4 DEF Overlay, WriteSection, IsDocument, FiniteKeys
  <2>3. Gains(d.site, ListWrite(s, d.site, c[s][1]))
    BY <2>1, ListWriteGains
  <2> QED
    BY <2>2, <2>3 DEF IsDocument, FiniteKeys, Gains, Grows
<1> QED
  BY <1>1, <1>2, <1>3, <1>4

LEMMA ApplyKeeps ==
  ASSUME NEW c, Listed(c), Named(c), NEW d, IsDocument(d)
  PROVE  IsDocument(Apply(c, d)) /\ Grows(d, Apply(c, d))
<1>1. Len(Sections) \in Nat /\ \A i \in 1..Len(Sections) : Sections[i] \in ToSet(Sections)
  BY DEF Sections, ToSet
<1>2. PICK f : /\ f[0] = d /\ Apply(c, d) = f[Len(Sections)]
               /\ \A i \in 1..Len(Sections) : f[i] = Overlay(c, f[i - 1], Sections[i])
  BY <1>1, ApplyRuns
<1> DEFINE n == Len(Sections)
           S == {i \in Nat : i <= n => IsDocument(f[i]) /\ Grows(d, f[i])}
<1>3. 0 \in S
  BY <1>2 DEF Grows
<1>4. ASSUME NEW i \in Nat, i \in S PROVE i + 1 \in S
  <2>1. i + 1 <= n => i <= n /\ i + 1 \in 1..n /\ i + 1 - 1 = i
    BY <1>1
  <2>2. i + 1 <= n => f[i + 1] = Overlay(c, f[i], Sections[i + 1])
    BY <1>2, <2>1
  <2>3. i + 1 <= n => /\ IsDocument(f[i]) /\ Grows(d, f[i])
                      /\ IsDocument(f[i + 1]) /\ Grows(f[i], f[i + 1])
    BY <1>1, <1>4, <2>1, <2>2, OverlayKeeps
  <2> QED
    BY <2>3 DEF Grows
<1>5. n \in S
  <2> HIDE DEF S
  <2> QED
    BY <1>1, <1>3, <1>4, NatInduct
<1> QED
  BY <1>1, <1>2, <1>5

\* The cloud after the writes that make d into e.
LEMMA PostKeeps ==
  ASSUME NEW d, NEW e, IsDocument(d), IsDocument(e)
  PROVE  IsDocument(Post(d, Writes(e, d)))
<1> DEFINE W == Writes(e, d)
           u == Post(d, W)
           k == "portsCfg"
<1>1. IsWrites(W) /\ FiniteKeys(u)
  BY WritesAreWrites, PostTells DEF IsDocument
<1>2. At(u.device, k) = At(d.device, k) \/ At(u.device, k) = At(e.device, k)
  <2>1. \A x : Says(x, "device", k) = At(x.device, k)
    BY DEF Says
  <2>2. CASE \E w \in W : w.kind = "device" /\ w.key = k
    <3>1. PICK w \in W : w.kind = "device" /\ w.key = k
      BY <2>2
    <3>2. w.value = At(e.device, k)
      BY <3>1 DEF Writes, Write
    <3>3. Says(u, "device", k) = w.value
      BY <1>1, <3>1, PostTells DEF IsDocument
    <3> QED
      BY <2>1, <3>2, <3>3
  <2>3. CASE \A w \in W : ~(w.kind = "device" /\ w.key = k)
    <3>1. Says(u, "device", k) = Says(d, "device", k)
      BY <1>1, <2>3, PostTells DEF IsDocument, Kinds
    <3> QED
      BY <2>1, <3>1
  <2> QED
    BY <2>2, <2>3
<1> HIDE DEF u
<1>3. \A x : Node(x, PortsPath) = At(At(x, k), "ports")
  BY PortsNode
<1>4. Node(u.device, PortsPath) \in {Node(d.device, PortsPath), Node(e.device, PortsPath)}
  BY <1>2, <1>3
<1> QED
  BY <1>1, <1>4 DEF IsDocument, u


\* The writes between two documents are enough: the cloud says after them what the document
\* says that they were made from, and reads as it does in every section (Writes in document.go).
LEMMA WritesSuffice ==
  ASSUME NEW d, NEW e, IsDocument(d), IsDocument(e), Grows(d, e)
  PROVE  LET u == Post(d, Writes(e, d)) IN
         /\ \A kind \in Kinds : \A key : Says(u, kind, key) = Says(e, kind, key)
         /\ Read(u) = Read(e)
<1> DEFINE W == Writes(e, d)
           u == Post(d, W)
<1>1. IsWrites(W) /\ FiniteKeys(d)
  BY WritesAreWrites DEF IsDocument
<1>2. /\ \A w \in W : Says(u, w.kind, w.key) = w.value
      /\ \A kind \in Kinds : \A key : (\A w \in W : ~(w.kind = kind /\ w.key = key)) =>
           Says(u, kind, key) = Says(d, kind, key)
  <2> HIDE DEF W
  <2> QED
    BY <1>1, PostTells
<1>3. \A w \in W : w.value = Says(e, w.kind, w.key)
  BY DEF Writes, Write, Says
<1>4. ASSUME NEW kind \in Kinds, NEW key, \A w \in W : ~(w.kind = kind /\ w.key = key)
      PROVE  Says(d, kind, key) = Says(e, kind, key)
  <2>1. CASE kind = "site"
    <3> DEFINE w == Write("site", key, At(e.site, key))
    <3>1. key \notin Changed(d.site, e.site)
      <4>1. w.kind = "site" /\ w.key = key
        BY DEF Write
      <4>2. key \in Changed(d.site, e.site) => w \in W
        BY DEF Writes
      <4> HIDE DEF w, W
      <4> QED
        BY <1>4, <2>1, <4>1, <4>2
    <3> QED
      BY <2>1, <3>1 DEF Changed, At, Grows, Says
  <2>2. CASE kind = "device"
    <3> DEFINE w == Write("device", key, At(e.device, key))
    <3>1. key \notin Changed(d.device, e.device)
      <4>1. w.kind = "device" /\ w.key = key
        BY DEF Write
      <4>2. key \in Changed(d.device, e.device) => w \in W
        BY DEF Writes
      <4> HIDE DEF w, W
      <4> QED
        BY <1>4, <2>2, <4>1, <4>2
    <3> QED
      BY <2>2, <3>1 DEF Changed, At, Grows, Says
  <2>3. CASE kind = "client"
    <3> DEFINE w == Write("client", key, ClientEdit(Record(e, key)))
    <3>1. key \in DOMAIN e.clients => ClientEdit(Record(d, key)) = ClientEdit(Record(e, key))
      <4>1. w.kind = "client" /\ w.key = key
        BY DEF Write
      <4>2. key \in DOMAIN e.clients /\ ClientEdit(Record(d, key)) # ClientEdit(Record(e, key)) => w \in W
        BY DEF Writes
      <4> HIDE DEF w, W
      <4> QED
        BY <1>4, <2>3, <4>1, <4>2
    <3>2. key \notin DOMAIN e.clients => Record(d, key) = Record(e, key)
      BY DEF Grows, Record
    <3> QED
      BY <2>3, <3>1, <3>2 DEF Says
  <2> QED
    BY <2>1, <2>2, <2>3 DEF Kinds
<1> HIDE DEF W, u
<1>5. \A kind \in Kinds : \A key : Says(u, kind, key) = Says(e, kind, key)
  BY <1>2, <1>3, <1>4
<1>6. Read(u) = Read(e)
  BY <1>5, ReadSame
<1> QED
  BY <1>5, <1>6 DEF u, W

LEMMA NothingPosted == ASSUME NEW d PROVE Post(d, {}) = d
<1>1. PICK n, q, f : IsRun(d, {}, n, q, f)
  BY PostRuns, FS_EmptySet
<1>2. n = 0
  BY <1>1 DEF IsRun
<1> QED
  BY <1>1, <1>2 DEF IsRun

\* A configuration that is not in error is applied whole: what the cloud holds after its plan
\* reads as the working copy the configuration was overlaid on, in every section, and a plan
\* without writes changes nothing that is read (Plan in config.go, Writes in document.go).
THEOREM PlannedIsRead ==
  ASSUME NEW c, NEW d, Listed(c), IsDocument(d), ~ConfigError(c, d)
  PROVE  /\ Read(Post(d, Plan(c, d))) = Read(Apply(c, d))
         /\ Plan(c, d) = {} => Read(Apply(c, d)) = Read(d)
<1> DEFINE e == Apply(c, d)
<1>1. IsDocument(e) /\ Grows(d, e)
  BY NoErrorNamed, ApplyKeeps
<1>2. Plan(c, d) = Writes(e, d)
  BY DEF Plan
<1>3. Read(Post(d, Plan(c, d))) = Read(e)
  <2> HIDE DEF e
  <2> QED
    BY <1>1, <1>2, WritesSuffice
<1>4. Post(d, {}) = d
  BY NothingPosted
<1> QED
  BY <1>3, <1>4

-----------------------------------------------------------------------------
(* A configuration that is applied reads back, section by section.           *)

\* Items the sections of c can hold.
Fits(c) ==
  /\ \A s \in DOMAIN Codec : c[s] # <<>> => Listable(s, c[s][1])
  /\ c["SwitchPorts"] # <<>> => Plugged(c["SwitchPorts"][1])
  /\ c["DHCPReservations"] # <<>> => Reservable(c["DHCPReservations"][1])

\* What d holds of section s is in e as well.
Aside(s, d, e) ==
  /\ s \in DOMAIN Codec => ListAside(s, d.site, e.site)
  /\ s = "SwitchPorts" => e.device = d.device
  /\ s = "DHCPReservations" => e.clients = d.clients

LEMMA AsideReads ==
  ASSUME NEW s \in ToSet(Sections), NEW d, NEW e, Aside(s, d, e)
  PROVE  ReadSection(s, e) = ReadSection(s, d)
<1>1. s \in DOMAIN Codec \cup {"SwitchPorts", "DHCPReservations"}
  BY DEF Sections, Codec, ToSet
<1>2. CASE s = "SwitchPorts" \/ s = "DHCPReservations"
  BY <1>2 DEF Aside, ReadSection
<1>3. CASE s \in DOMAIN Codec /\ s # "SwitchPorts" /\ s # "DHCPReservations"
  BY <1>3, AsideOf DEF Aside, ReadSection
<1> QED
  BY <1>1, <1>2, <1>3

LEMMA AsideStays ==
  ASSUME NEW s, NEW d
  PROVE  /\ Aside(s, d, d)
         /\ \A e, g : Aside(s, d, e) /\ Aside(s, e, g) => Aside(s, d, g)
BY AsideSame, AsideAgain DEF Aside

LEMMA PortsStayObj ==
  ASSUME NEW device, IsObj(device), NEW items, Plugged(items)
  PROVE  IsObj(WriteSwitchPorts(device, items))
<1>0. Len(items) \in Nat
  BY DEF Plugged, Listing
<1>1. \E f : /\ f[0] = device /\ WriteSwitchPorts(device, items) = f[Len(items)]
             /\ \A i \in 1..Len(items) : f[i] = WriteSwitchPort(f[i - 1], items[i])
  BY <1>0, PortsRuns
<1> DEFINE n == Len(items)
<1>2. PICK f : /\ f[0] = device /\ WriteSwitchPorts(device, items) = f[n]
               /\ \A i \in 1..n : f[i] = WriteSwitchPort(f[i - 1], items[i])
  BY <1>1
<1> HIDE DEF n
<1>3. CASE n = 0
  BY <1>2, <1>3
<1>4. CASE n # 0
  <2>1. f[n] = WriteSwitchPort(f[n - 1], items[n])
    BY <1>0, <1>2, <1>4 DEF n
  <2>2. PICK v : f[n] = PutAt(f[n - 1], PortPath(Key(items[n])), v)
    BY <2>1, WritePort
  <2>3. Len(PortPath(Key(items[n]))) \in Nat \ {0}
    BY PortPathIs
  <2>4. \E w : f[n] = With(Obj(Fields(f[n - 1])), PortPath(Key(items[n]))[1], w)
    BY <2>2, <2>3, PutAtTop
  <2> QED
    BY <1>2, <2>4, WithIsObj
<1> QED
  BY <1>3, <1>4

LEMMA OverlayStep ==
  ASSUME NEW c, Fits(c), NEW t \in ToSet(Sections), NEW d, Ready(d), IsDocument(Overlay(c, d, t)),
         c["SwitchPorts"] # <<>> => d.device # Null
  PROVE  LET e == Overlay(c, d, t) IN
         /\ Ready(e) /\ (e.device = Null <=> d.device = Null)
         /\ \A s \in ToSet(Sections) : s # t \/ c[s] = <<>> => Aside(s, d, e)
<1>0. d = [site |-> d.site, device |-> d.device, clients |-> d.clients]
  BY DEF Ready, IsDocument, FiniteKeys
<1>1. CASE c[t] = <<>>
  <2>1. Overlay(c, d, t) = d
    BY <1>1 DEF Overlay
  <2> QED
    BY <2>1, AsideStays
<1>2. CASE c[t] # <<>> /\ t = "SwitchPorts"
  <2> DEFINE items == c[t][1]
             device == WriteSwitchPorts(d.device, items)
             e == Overlay(c, d, t)
  <2>1. e = [site |-> d.site, device |-> device, clients |-> d.clients]
    BY <1>0, <1>2 DEF Overlay, WriteSection
  <2>2. Plugged(items)
    BY <1>2 DEF Fits
  <2>3. IsObj(d.device) /\ IsDevice(d.device)
    BY <1>2 DEF Ready
  <2>4. IsDevice(device)
    BY <2>2, <2>3, WrittenPortsSettle, DevicePorts
  <2>5. IsObj(device)
    BY <2>2, <2>3, PortsStayObj
  <2>6. device # Null
    BY <2>5, ObjTag, Tags
  <2>7. d.device # Null
    BY <2>3, ObjTag, Tags
  <2> HIDE DEF device, items, e
  <2>8. Ready(e)
    BY <2>1, <2>4, <2>5 DEF Ready, e
  <2>9. \A s \in ToSet(Sections) : s # t \/ c[s] = <<>> => Aside(s, d, e)
    BY <1>2, <2>1, AsideSame DEF Aside
  <2> QED
    BY <2>1, <2>6, <2>7, <2>8, <2>9 DEF e
<1>3. CASE c[t] # <<>> /\ t = "DHCPReservations"
  <2> DEFINE clients == WriteReservations(d.clients, c[t][1])
             e == Overlay(c, d, t)
  <2>1. e = [site |-> d.site, device |-> d.device, clients |-> clients]
    BY <1>0, <1>3 DEF Overlay, WriteSection
  <2>2. \A k \in DOMAIN clients : IsClient(clients[k])
    BY WrittenClients DEF Ready
  <2> HIDE DEF clients, e
  <2>3. Ready(e)
    BY <2>1, <2>2 DEF Ready, e
  <2>4. \A s \in ToSet(Sections) : s # t \/ c[s] = <<>> => Aside(s, d, e)
    BY <1>3, <2>1, AsideSame DEF Aside
  <2> QED
    BY <2>1, <2>3, <2>4 DEF e
<1>4. CASE c[t] # <<>> /\ t # "SwitchPorts" /\ t # "DHCPReservations"
  <2> DEFINE items == c[t][1]
             site == ListWrite(t, d.site, items)
             e == Overlay(c, d, t)
  <2>1. t \in DOMAIN Codec
    BY <1>4 DEF Sections, Codec, ToSet
  <2>2. e = [site |-> site, device |-> d.device, clients |-> d.clients]
    BY <1>0, <1>4 DEF Overlay, WriteSection
  <2>3. Listable(t, items)
    BY <1>4, <2>1 DEF Fits
  <2>4. IsObj(site) /\ \A s \in DOMAIN Codec : s # t => ListAside(s, d.site, site)
    BY <2>1, ListsApart DEF Ready
  <2>5. \A s \in DOMAIN Codec : HoldsElements(s, site)
    <3> TAKE s \in DOMAIN Codec
    <3>1. CASE s = t
      BY <2>3, <3>1, WrittenHolds DEF Ready
    <3>2. CASE s # t
      <4> HIDE DEF site
      <4> QED
        BY <2>4, <3>2, AsideOf DEF Ready
    <3> QED
      BY <3>1, <3>2
  <2> HIDE DEF site, items, e
  <2>6. Ready(e)
    BY <2>2, <2>4, <2>5 DEF Ready, e
  <2>7. \A s \in ToSet(Sections) : s # t \/ c[s] = <<>> => Aside(s, d, e)
    BY <1>4, <2>2, <2>4 DEF Aside
  <2> QED
    BY <2>2, <2>6, <2>7 DEF e
<1> QED
  BY <1>1, <1>2, <1>3, <1>4

\* e holds of section s what was written over what d holds of it.
WrittenOver(c, s, d, e) ==
  \E x : Ready(x) /\ (x.device = Null <=> d.device = Null) /\ Aside(s, d, x) /\ Aside(s, Overlay(c, x, s), e)

LEMMA SectionsAre ==
  /\ Len(Sections) = 6 /\ ToSet(Sections) = {Sections[i] : i \in 1..6}
  /\ \A i, j \in 1..6 : i # j => Sections[i] # Sections[j]
<1>1. Len(Sections) = 6 /\ ToSet(Sections) = {Sections[i] : i \in 1..6}
  BY DEF Sections, ToSet
<1>2. /\ Sections[1] = "PortForwards" /\ Sections[2] = "FirewallRules" /\ Sections[3] = "VLANs"
      /\ Sections[4] = "StaticRoutes" /\ Sections[5] = "SwitchPorts" /\ Sections[6] = "DHCPReservations"
  BY DEF Sections
<1>3. \A i \in 1..6 : i = 1 \/ i = 2 \/ i = 3 \/ i = 4 \/ i = 5 \/ i = 6
  OBVIOUS
<1> QED
  BY <1>1, <1>2, <1>3

LEMMA AppliedSections ==
  ASSUME NEW c, Fits(c), NEW d, Ready(d), c["SwitchPorts"] # <<>> => d.device # Null
  PROVE  LET e == Apply(c, d) IN
         /\ Ready(e) /\ Grows(d, e)
         /\ \A s \in ToSet(Sections) : IF c[s] = <<>> THEN Aside(s, d, e) ELSE WrittenOver(c, s, d, e)
<1>1. Listed(c) /\ Named(c)
  BY DEF Fits, Listed, Named, Plugged, Listing, Reservable
<1>2. PICK f : /\ f[0] = d /\ Apply(c, d) = f[6]
               /\ \A i \in 1..6 : f[i] = Overlay(c, f[i - 1], Sections[i])
  <2>1. Len(Sections) \in Nat
    BY SectionsAre
  <2> QED
    BY <2>1, ApplyRuns, SectionsAre
<1> DEFINE Done(i) == \A s \in ToSet(Sections) :
                        IF c[s] # <<>> /\ (\E j \in 1..i : Sections[j] = s) THEN WrittenOver(c, s, d, f[i]) ELSE Aside(s, d, f[i])
           Good(i) == Ready(f[i]) /\ (f[i].device = Null <=> d.device = Null) /\ Done(i)
           S == {i \in Nat : i <= 6 => Good(i)}
<1>3. 0 \in S
  BY <1>2, AsideStays
<1>4. ASSUME NEW i \in Nat, i \in S PROVE i + 1 \in S
  <2>1. SUFFICES ASSUME i + 1 <= 6 PROVE Good(i + 1)
    OBVIOUS
  <2> DEFINE t == Sections[i + 1]
             x == f[i]
             e == f[i + 1]
  <2>2. i + 1 \in 1..6 /\ i + 1 - 1 = i /\ i <= 6 /\ \A j \in 1..i : j \in 1..6 /\ j # i + 1 /\ j \in 1..(i + 1)
    BY <2>1
  <2>3. e = Overlay(c, x, t) /\ t \in ToSet(Sections) /\ \A j \in 1..i : Sections[j] # t
    BY <1>2, <2>2, SectionsAre
  <2>4. Ready(x) /\ (x.device = Null <=> d.device = Null) /\ Done(i)
    BY <1>4, <2>2
  <2>5. IsDocument(e)
    BY <1>1, <2>3, <2>4, OverlayKeeps DEF Ready
  <2>6. /\ Ready(e) /\ (e.device = Null <=> x.device = Null)
        /\ \A s \in ToSet(Sections) : s # t \/ c[s] = <<>> => Aside(s, x, e)
    BY <2>3, <2>4, <2>5, OverlayStep
  <2>7. \A s : (\E j \in 1..(i + 1) : Sections[j] = s) <=> s = t \/ \E j \in 1..i : Sections[j] = s
    BY <2>2
  <2> HIDE DEF t, x, e
  <2>8. ASSUME NEW s \in ToSet(Sections), s # t \/ c[s] = <<>>
        PROVE  IF c[s] # <<>> /\ (\E j \in 1..(i + 1) : Sections[j] = s) THEN WrittenOver(c, s, d, e) ELSE Aside(s, d, e)
    <3>1. Aside(s, x, e)
      BY <2>6, <2>8
    <3>2. CASE c[s] # <<>> /\ \E j \in 1..i : Sections[j] = s
      <4>1. WrittenOver(c, s, d, x)
        BY <2>4, <3>2 DEF x
      <4>2. WrittenOver(c, s, d, e)
        BY <3>1, <4>1, AsideStays DEF WrittenOver
      <4> QED
        BY <2>7, <3>2, <4>2
    <3>3. CASE ~(c[s] # <<>> /\ \E j \in 1..i : Sections[j] = s)
      <4>1. Aside(s, d, x)
        BY <2>4, <3>3 DEF x
      <4>2. Aside(s, d, e)
        BY <3>1, <4>1, AsideStays
      <4> QED
        BY <2>7, <2>8, <3>3, <4>2
    <3> QED
      BY <3>2, <3>3
  <2>9. ASSUME c[t] # <<>> PROVE WrittenOver(c, t, d, e)
    <3>1. Aside(t, d, x)
      BY <2>3, <2>4 DEF x, t
    <3>2. Aside(t, Overlay(c, x, t), e)
      BY <2>3, AsideStays
    <3> QED
      BY <2>4, <3>1, <3>2 DEF WrittenOver
  <2>10. Done(i + 1)
    BY <2>7, <2>8, <2>9 DEF e
  <2> QED
    BY <2>4, <2>6, <2>10 DEF e
<1>5. Good(6)
  <2>1. 6 \in S
    <3> HIDE DEF S
    <3> QED
      BY <1>3, <1>4, NatInduct
  <2> QED
    BY <2>1
<1>6. Grows(d, Apply(c, d))
  BY <1>1, ApplyKeeps DEF Ready
<1>7. \A s \in ToSet(Sections) : \E j \in 1..6 : Sections[j] = s
  BY SectionsAre
<1> QED
  BY <1>2, <1>5, <1>6, <1>7

\* What is read of a section that was written over: of a list, the items and no other, each as
\* it was asked for; of the ports, those asked for and the others as they were; of the
\* reservations, those with an address and no other.
ListAsAsked(s, items, back) ==
  LET same(i, j) == \A f \in DOMAIN Codec[s].row : ReadsAs(Codec[s].row[f][3], back[i][f], items[j][f])
  IN /\ \A j \in 1..Len(items) : \E i \in 1..Len(back) : same(i, j)
     /\ \A i \in 1..Len(back) : \E j \in 1..Len(items) : same(i, j)
     /\ s = "FirewallRules" => Len(back) = Len(items) /\ \A i \in 1..Len(items) : same(i, i)
     /\ s = "StaticRoutes" => \A i, j \in 1..Len(back) : i < j => ~RouteBefore(back[j], back[i])
PortsAsAsked(items, was, back) ==
  /\ \A i, j \in 1..Len(back) : i < j => back[i].Port < back[j].Port
  /\ \A j \in 1..Len(items) : \E i \in 1..Len(back) : SamePort(back[i], items[j])
  /\ \A i \in 1..Len(back) :
       \/ \E j \in 1..Len(items) : SamePort(back[i], items[j])
       \/ (\A j \in 1..Len(items) : items[j].Port # back[i].Port) /\ \E j \in DOMAIN was : back[i] = was[j]
  /\ \A j \in DOMAIN was :
       (\A k \in 1..Len(items) : items[k].Port # was[j].Port) => \E i \in 1..Len(back) : back[i] = was[j]
ReservationsAsAsked(items, back) ==
  LET own(r) == [MAC |-> MACOf[ClientOf[r.MAC]], IP |-> r.IP]
  IN /\ {back[i] : i \in 1..Len(back)} = {own(r) : r \in {r \in ToSet(items) : r.IP # ""}}
     /\ \A i, j \in 1..Len(back) : i < j => Before(back[i].MAC, back[j].MAC)
ReadsBack(s, items, was, back) ==
  /\ Len(back) \in Nat /\ DOMAIN back = 1..Len(back)
  /\ s \in DOMAIN Codec => ListAsAsked(s, items, back)
  /\ s = "SwitchPorts" => PortsAsAsked(items, was, back)
  /\ s = "DHCPReservations" => ReservationsAsAsked(items, back)

LEMMA PortsReadAsAsked ==
  ASSUME NEW device, IsFiniteSet(DOMAIN Fields(PortsOf(device))), NEW items, Plugged(items)
  PROVE  LET back == ReadSwitchPorts(WriteSwitchPorts(device, items))
         IN /\ Len(back) \in Nat /\ DOMAIN back = 1..Len(back)
            /\ PortsAsAsked(items, ReadSwitchPorts(device), back)
BY PortsReadBack DEF PortsAsAsked

LEMMA WrittenReads ==
  ASSUME NEW c, Fits(c), NEW s \in ToSet(Sections), c[s] # <<>>, NEW x, Ready(x)
  PROVE  ReadsBack(s, c[s][1], ReadSection(s, x), ReadSection(s, Overlay(c, x, s)))
<1> DEFINE items == c[s][1]
           e == Overlay(c, x, s)
<1>0. x = [site |-> x.site, device |-> x.device, clients |-> x.clients]
  BY DEF Ready, IsDocument, FiniteKeys
<1>1. s \in DOMAIN Codec \cup {"SwitchPorts", "DHCPReservations"} /\ "SwitchPorts" \notin DOMAIN Codec /\ "DHCPReservations" \notin DOMAIN Codec
  BY DEF Sections, Codec, ToSet
<1>2. CASE s = "SwitchPorts"
  <2>0. e = [site |-> x.site, device |-> WriteSwitchPorts(x.device, items), clients |-> x.clients]
    BY <1>0, <1>2 DEF Overlay, WriteSection
  <2>1. ReadSection(s, e) = ReadSwitchPorts(WriteSwitchPorts(x.device, items)) /\ ReadSection(s, x) = ReadSwitchPorts(x.device)
    <3> HIDE DEF items, e
    <3> QED
      BY <1>2, <2>0 DEF ReadSection
  <2>2. Plugged(items) /\ IsFiniteSet(DOMAIN Fields(PortsOf(x.device)))
    BY <1>2 DEF Fits, Ready, IsDocument, PortsOf
  <2> HIDE DEF items, e
  <2> DEFINE was == ReadSwitchPorts(x.device)
             back == ReadSwitchPorts(WriteSwitchPorts(x.device, items))
  <2>3. Len(back) \in Nat /\ DOMAIN back = 1..Len(back) /\ PortsAsAsked(items, was, back)
    BY <2>2, PortsReadAsAsked
  <2> HIDE DEF was, back
  <2>4. ReadsBack(s, items, was, back)
    BY <1>1, <1>2, <2>3 DEF ReadsBack
  <2>5. ReadsBack(s, items, ReadSection(s, x), ReadSection(s, e))
    BY <2>1, <2>4 DEF was, back
  <2> QED
    BY <2>5 DEF items, e
<1>3. CASE s = "DHCPReservations"
  <2>1. ReadSection(s, e) = ReadReservations(WriteReservations(x.clients, items))
    BY <1>0, <1>3 DEF Overlay, WriteSection, ReadSection
  <2>2. Reservable(items)
    BY <1>3 DEF Fits
  <2> HIDE DEF items, e
  <2>3. LET back == ReadReservations(WriteReservations(x.clients, items))
        IN Len(back) \in Nat /\ DOMAIN back = 1..Len(back) /\ ReservationsAsAsked(items, back)
    BY <2>2, ReservationsReadBack DEF ReservationsAsAsked
  <2>4. ReadsBack(s, items, ReadSection(s, x), ReadSection(s, e))
    BY <1>1, <1>3, <2>1, <2>3 DEF ReadsBack
  <2> QED
    BY <2>4 DEF items, e
<1>4. CASE s \in DOMAIN Codec
  <2>1. ReadSection(s, e) = ListRead(s, ListWrite(s, x.site, items))
    BY <1>0, <1>1, <1>4 DEF Overlay, WriteSection, ReadSection
  <2>2. Listable(s, items) /\ HoldsElements(s, x.site)
    BY <1>4 DEF Fits, Ready
  <2> HIDE DEF items, e
  <2>3. LET back == ListRead(s, ListWrite(s, x.site, items))
        IN Len(back) \in Nat /\ DOMAIN back = 1..Len(back) /\ ListAsAsked(s, items, back)
    BY <1>4, <2>2, ListReadsBack DEF ListAsAsked
  <2>4. ReadsBack(s, items, ReadSection(s, x), ReadSection(s, e))
    BY <1>1, <1>4, <2>1, <2>3 DEF ReadsBack
  <2> QED
    BY <2>4 DEF items, e
<1> QED
  BY <1>1, <1>2, <1>3, <1>4

\* A document that is applied, before it is posted.
LEMMA ApplyReads ==
  ASSUME NEW c, Fits(c), NEW d, Ready(d), c["SwitchPorts"] # <<>> => d.device # Null
  PROVE  \A s \in ToSet(Sections) :
           IF c[s] = <<>> THEN ReadSection(s, Apply(c, d)) = ReadSection(s, d)
           ELSE ReadsBack(s, c[s][1], ReadSection(s, d), ReadSection(s, Apply(c, d)))
<1> DEFINE e == Apply(c, d)
<1> TAKE s \in ToSet(Sections)
<1>1. IF c[s] = <<>> THEN Aside(s, d, e) ELSE WrittenOver(c, s, d, e)
  BY AppliedSections
<1> HIDE DEF e
<1>2. CASE c[s] = <<>>
  BY <1>1, <1>2, AsideReads DEF e
<1>3. CASE c[s] # <<>>
  <2>1. PICK x : Ready(x) /\ Aside(s, d, x) /\ Aside(s, Overlay(c, x, s), e)
    BY <1>1, <1>3 DEF WrittenOver
  <2>2. ReadSection(s, x) = ReadSection(s, d) /\ ReadSection(s, e) = ReadSection(s, Overlay(c, x, s))
    BY <2>1, AsideReads
  <2>3. ReadsBack(s, c[s][1], ReadSection(s, x), ReadSection(s, Overlay(c, x, s)))
    BY <1>3, <2>1, WrittenReads
  <2> QED
    BY <1>3, <2>2, <2>3 DEF e
<1> QED
  BY <1>2, <1>3

-----------------------------------------------------------------------------
(* What is posted is in the form of a document again.                        *)

Formed(d) ==
  /\ IsObj(d.site) /\ (d.device = Null \/ IsObj(d.device))
  /\ \A c \in DOMAIN d.clients : IsClient(d.clients[c])
LEMMA PostedIsFormed ==
  ASSUME NEW d, FiniteKeys(d), Formed(d), NEW w, IsWrite(w)
  PROVE  Formed(Posted(d, w))
<1>1. CASE w.kind = "site"
  <2>1. Posted(d, w) = [site |-> With(d.site, w.key, w.value), device |-> d.device, clients |-> d.clients]
    BY <1>1 DEF Posted, FiniteKeys
  <2> QED
    BY <2>1, WithIsObj DEF Formed
<1>2. CASE w.kind = "device"
  <2>1. Posted(d, w) = [site |-> d.site, device |-> With(d.device, w.key, w.value), clients |-> d.clients]
    BY <1>2 DEF Posted, FiniteKeys
  <2> QED
    BY <2>1, WithIsObj DEF Formed
<1>3. CASE w.kind = "client"
  <2>1. PICK record :
          Posted(d, w) = [site |-> d.site, device |-> d.device,
                          clients |-> Over([c \in {w.key} |-> Obj(Over(
                            [k \in ClientRecordFields \cup {"wired", "config"} |->
                               IF k = "config" THEN ClientConfig(w.value) ELSE w.value[k]], record))], d.clients)]
    BY <1>3, PostedClients
  <2> DEFINE e == Posted(d, w)
             sent == [k \in ClientRecordFields \cup {"wired", "config"} |->
                        IF k = "config" THEN ClientConfig(w.value) ELSE w.value[k]]
             new == Obj(Over(sent, record))
  <2>2. e.site = d.site /\ e.device = d.device /\ e.clients = Over([c \in {w.key} |-> new], d.clients)
    BY <2>1
  <2>3. At(new, "config") = ClientConfig(w.value)
    BY DEF At, Fields, Obj, Over
  <2>4. IsObj(ClientConfig(w.value)) /\ Obj(Fields(ClientConfig(w.value))) = ClientConfig(w.value)
    BY DEF ClientConfig, IsObj, Fields, Obj
  <2> HIDE DEF new, sent, e
  <2>5. IsClient(new)
    BY <2>3, <2>4 DEF IsClient, Child
  <2>6. \A c \in DOMAIN e.clients : e.clients[c] = new \/ (c \in DOMAIN d.clients /\ e.clients[c] = d.clients[c])
    BY <2>2 DEF Over
  <2>7. Formed(e)
    BY <2>2, <2>5, <2>6 DEF Formed
  <2> QED
    BY <2>7 DEF e
<1> QED
  BY <1>1, <1>2, <1>3 DEF IsWrite, Kinds

LEMMA PostIsFormed ==
  ASSUME NEW d, FiniteKeys(d), Formed(d), NEW W, IsWrites(W)
  PROVE  Formed(Post(d, W))
<1>0. PICK n, q, f : IsRun(d, W, n, q, f)
  BY PostRuns DEF IsWrites
<1>1. /\ n \in Nat /\ q \in [1..n -> W]
      /\ f[0] = d /\ f[n] = Post(d, W)
      /\ \A i \in 1..n : f[i] = Posted(f[i - 1], q[i])
  BY <1>0 DEF IsRun
<1> DEFINE S == {i \in Nat : i <= n => FiniteKeys(f[i]) /\ Formed(f[i])}
<1>2. 0 \in S
  BY <1>1
<1>3. ASSUME NEW i \in Nat, i \in S PROVE i + 1 \in S
  <2>1. i + 1 <= n => i <= n /\ i + 1 \in 1..n /\ i + 1 - 1 = i
    BY <1>1
  <2>2. i + 1 <= n => f[i + 1] = Posted(f[i], q[i + 1]) /\ IsWrite(q[i + 1])
    BY <1>1, <2>1 DEF IsWrites
  <2> QED
    BY <1>3, <2>1, <2>2, PostedTells, PostedIsFormed
<1>4. n \in S
  <2> HIDE DEF S
  <2> QED
    BY <1>1, <1>2, <1>3, NatInduct
<1> QED
  BY <1>1, <1>4

\* What a document holds that says the same of every key.
LEMMA SaysSame ==
  ASSUME NEW d, NEW e, \A kind \in Kinds : \A key : Says(d, kind, key) = Says(e, kind, key)
  PROVE  /\ \A k : At(d.site, k) = At(e.site, k)
         /\ \A k : At(d.device, k) = At(e.device, k)
         /\ \A c : ClientEdit(Record(d, c)) = ClientEdit(Record(e, c))
<1>1. \A k : Says(d, "site", k) = Says(e, "site", k) /\ Says(d, "device", k) = Says(e, "device", k) /\ Says(d, "client", k) = Says(e, "client", k)
  BY DEF Kinds
<1> QED
  BY <1>1 DEF Says

LEMMA NullIsNoObj == ~IsObj(Null) /\ Null[1] # "obj"
BY ObjTag, Tags

LEMMA RootedSame ==
  ASSUME NEW root, NEW other, \A k : At(root, k) = At(other, k), IsObj(other),
         NEW path, Len(path) \in Nat, Rooted(root, path), path # <<>> /\ Len(path) # 0 => Node(root, path) # Null
  PROVE  Rooted(other, path)
<1>1. SUFFICES ASSUME NEW m \in 1..Len(path)
               PROVE  IsObj(Node(other, Prefix(path, m - 1))) /\ path[m] \in DOMAIN Fields(Node(other, Prefix(path, m - 1)))
  BY DEF Rooted
<1> DEFINE was == Node(root, Prefix(path, m - 1))
           is == Node(other, Prefix(path, m - 1))
<1>2. IsObj(was) /\ path[m] \in DOMAIN Fields(was)
  BY DEF Rooted
<1>3. CASE m = 1
  <2>1. m - 1 = 0 /\ 1 \in 1..Len(path) /\ Len(path) # 0
    BY <1>1, <1>3
  <2>2. is = other
    BY <1>1, <2>1, NodeAlong
  <2>3. Node(root, Prefix(path, 1)) = At(root, path[1])
    <3>1. Node(root, Prefix(path, 1)) = At(Node(root, Prefix(path, 1 - 1)), path[1])
      BY <2>1, NodeNext
    <3> QED
      BY <3>1, NodeAlong
  <2>4. Node(root, Prefix(path, 1)) # Null
    <3>0. Node(root, path) # Null
      <4>1. path # <<>>
        <5>1. Len(<<>>) = 0
          OBVIOUS
        <5> QED
          BY <2>1, <5>1
      <4> QED
        BY <2>1, <4>1
    <3>1. CASE Len(path) = 1
      <4>1. Node(root, path) = Node(root, Prefix(path, Len(path)))
        BY NodeAlong
      <4> QED
        BY <3>0, <3>1, <4>1
    <3>2. CASE Len(path) # 1
      <4>0. 2 \in 1..Len(path)
        BY <2>1, <3>2, PastOne
      <4>1. 2 \in 1..Len(path) /\ 2 - 1 = 1
        BY <4>0
      <4>2. IsObj(Node(root, Prefix(path, 2 - 1)))
        BY <4>1 DEF Rooted
      <4> QED
        BY <4>1, <4>2, NullIsNoObj
    <3> QED
      BY <3>1, <3>2
  <2>5. At(other, path[1]) # Null
    BY <2>3, <2>4
  <2>6. path[1] \in DOMAIN Fields(other)
    BY <2>5 DEF At
  <2> QED
    BY <1>3, <2>2, <2>6
<1>4. CASE m # 1
  <2>1. m - 1 \in 0..Len(path) /\ m - 1 # 0
    BY <1>1, <1>4
  <2>2. Len(Prefix(path, m - 1)) \in Nat \ {0}
    BY <2>1, PrefixOf
  <2>3. is = was
    BY <2>2, NodeSame
  <2> QED
    BY <1>2, <2>3
<1> QED
  BY <1>3, <1>4

LEMMA ListSettledSame ==
  ASSUME NEW s \in DOMAIN Codec, NEW root, NEW other, IsObj(other), \A k : At(root, k) = At(other, k),
         NEW items, ListSettled(s, root, items)
  PROVE  ListSettled(s, other, items)
<1> DEFINE path == Codec[s].path
           front == Front(path)
           next == NextElements(s, Elements(path, root), items)
<1>1. Len(path) \in Nat /\ Len(path) # 0 /\ front = Prefix(path, Len(path) - 1) /\ Len(front) \in Nat
  BY Paths, PrefixOf
<1>2. Node(other, path) = Node(root, path)
  <2>1. Len(path) \in Nat \ {0}
    BY <1>1
  <2> HIDE DEF path
  <2> QED
    BY <2>1, NodeSame
<1>3. next = NextElements(s, Elements(path, other), items)
  BY <1>2 DEF Elements
<1>4. CASE next = <<>> /\ Node(root, path) = Null /\ Rooted(root, front) /\ Whole(Node(root, front))
  <2>1. Node(root, front)[1] = "obj"
    BY <1>4 DEF Whole, Obj
  <2>2. Node(root, front) # Null
    BY <2>1, NullIsNoObj
  <2>3. Rooted(other, front)
    <3> HIDE DEF front
    <3> QED
      BY <1>1, <1>4, <2>2, RootedSame
  <2>4. Whole(Node(other, front))
    <3>1. CASE Len(front) = 0
      <4>1. Node(other, front) = other
        <5> HIDE DEF front
        <5> QED
          BY <1>1, <3>1, NodeRuns
      <4>2. Whole(other)
        BY FieldsObj DEF IsObj, Whole
      <4> QED
        BY <4>1, <4>2
    <3>2. CASE Len(front) # 0
      <4>1. Node(other, front) = Node(root, front)
        <5> HIDE DEF front
        <5> QED
          BY <1>1, <3>2, NodeSame
      <4> QED
        BY <1>4, <4>1
    <3> QED
      BY <3>1, <3>2
  <2> HIDE DEF next
  <2>5. next = <<>> /\ Node(other, path) = Null
    BY <1>2, <1>4
  <2> QED
    BY <1>3, <2>3, <2>4, <2>5 DEF ListSettled
<1>5. CASE Rooted(root, path) /\ Node(root, path) = List(next)
  <2>1. List(next) # Null
    BY Tags
  <2>2. Rooted(other, path)
    <3> HIDE DEF path, next
    <3> QED
      BY <1>1, <1>5, <2>1, RootedSame
  <2> HIDE DEF next
  <2> QED
    BY <1>2, <1>3, <1>5, <2>2 DEF ListSettled
<1>6. \/ next = <<>> /\ Node(root, path) = Null /\ Rooted(root, front) /\ Whole(Node(root, front))
      \/ Rooted(root, path) /\ Node(root, path) = List(next)
  BY DEF ListSettled
<1> QED
  BY <1>4, <1>5, <1>6

LEMMA PortOverObj == ASSUME NEW o, NEW sp PROVE IsObj(PortOver(o, sp))
<1>1. \A p, k, v : IsObj(PruneEmpty(With(p, k, v), k))
  BY WithIsObj, OmitIsObj DEF PruneEmpty
<1> QED
  BY <1>1 DEF PortOver

LEMMA PortsSettledSame ==
  ASSUME NEW device, NEW other, \A k : At(device, k) = At(other, k),
         IsObj(other) \/ other = Null,
         NEW items, Plugged(items), PortsSettled(device, items)
  PROVE  PortsSettled(other, items)
<1>1. PortsOf(other) = PortsOf(device)
  <2>1. Len(PortsPath) \in Nat \ {0}
    BY DEF PortsPath
  <2> QED
    BY <2>1, NodeSame DEF PortsOf
<1>2. ASSUME NEW j \in 1..Len(items) PROVE Rooted(other, PortPath(Key(items[j])))
  <2> DEFINE path == PortPath(Key(items[j]))
             port == At(PortsOf(device), Key(items[j]))
  <2>1. Rooted(device, path) /\ PortOver(port, items[j]) = port
    BY DEF PortsSettled
  <2>2. Len(path) = 3 /\ Len(path) \in Nat
    BY PortPathIs
  <2>3. Node(device, path) = port
    BY PortNode DEF PortsOf
  <2>4. port # Null
    <3>1. IsObj(PortOver(port, items[j]))
      BY PortOverObj
    <3> QED
      BY <2>1, <3>1, NullIsNoObj
  <2>5. IsObj(other)
    <3>1. 1 \in 1..Len(path) /\ 2 \in 1..Len(path) /\ 1 - 1 = 0 /\ 2 - 1 = 1
      BY <2>2
    <3>2. IsObj(Node(device, Prefix(path, 2 - 1)))
      BY <2>1, <3>1 DEF Rooted
    <3>3. Node(device, Prefix(path, 1)) = At(device, path[1])
      <4>1. Node(device, Prefix(path, 1)) = At(Node(device, Prefix(path, 1 - 1)), path[1])
        BY <2>2, <3>1, NodeNext
      <4> QED
        BY <2>2, <4>1, NodeAlong
    <3>4. At(other, path[1]) # Null
      BY <3>1, <3>2, <3>3, NullIsNoObj
    <3>5. Fields(other) # <<>>
      BY <3>4 DEF At
    <3>6. Fields(Null) = <<>>
      BY DEF Fields, Null
    <3> QED
      BY <3>5, <3>6
  <2> HIDE DEF path, port
  <2> QED
    BY <2>1, <2>2, <2>3, <2>4, <2>5, RootedSame DEF path
<1>3. \A j \in 1..Len(items) : PortOver(At(PortsOf(device), Key(items[j])), items[j]) = At(PortsOf(device), Key(items[j]))
  BY DEF PortsSettled
<1> QED
  BY <1>1, <1>2, <1>3 DEF PortsSettled

-----------------------------------------------------------------------------
(* What the portal posts of a client that was written to.                    *)

IPOver(v, ip) == IF ip = "" THEN Null ELSE IF AsString(v) = ip THEN v ELSE Str(ip)

LEMMA IPAgain == ASSUME NEW v, NEW ip PROVE IPOver(IPOver(v, ip), ip) = IPOver(v, ip)
<1>1. AsString(Str(ip)) = ip
  BY Tags DEF AsString
<1> QED
  BY <1>1 DEF IPOver

LEMMA EditOfEmpty == ASSUME NEW k \in EditKeys, k # "wired" PROVE ClientEdit(EmptyObj)[k] = Null
<1>1. Fields(EmptyObj) = <<>> /\ Fields(Null) = <<>>
  BY DEF EmptyObj, Obj, Fields, Null
<1>2. \A j : At(EmptyObj, j) = Null /\ At(Null, j) = Null
  BY <1>1 DEF At
<1> QED
  BY <1>2, EditIs DEF EditKeys

\* The edit of a client whose configuration is v.
LEMMA EditWith ==
  ASSUME NEW o, NEW v
  PROVE  LET edit == ClientEdit(With(o, "config", v)) IN
         /\ \A k \in ClientConfigFields : edit[k] = At(v, k)
         /\ \A k \in EditKeys \ ClientConfigFields : edit[k] = ClientEdit(o)[k]
<1> DEFINE p == With(o, "config", v)
<1>1. At(p, "config") = v /\ \A k : k # "config" => At(p, k) = At(o, k)
  BY AtWith
<1>2. "config" \notin ClientRecordFields /\ EditKeys \ ClientConfigFields \subseteq ClientRecordFields \cup {"wired"}
  BY DEF EditKeys, ClientRecordFields
<1> HIDE DEF p
<1>3. \A k \in ClientConfigFields : ClientEdit(p)[k] = At(v, k)
  BY <1>1, EditIs
<1>4. \A k \in ClientRecordFields : ClientEdit(p)[k] = ClientEdit(o)[k]
  <2> TAKE k \in ClientRecordFields
  <2>1. ClientEdit(p)[k] = At(p, k) /\ ClientEdit(o)[k] = At(o, k)
    BY EditIs
  <2> QED
    BY <1>1, <1>2, <2>1
<1>5. ClientEdit(p)["wired"] = ClientEdit(o)["wired"]
  BY <1>1, EditIs
<1> QED
  BY <1>2, <1>3, <1>4, <1>5 DEF p

LEMMA HeldEdit ==
  ASSUME NEW o, NEW ip
  PROVE  \A k \in EditKeys :
           ClientEdit(Held(o, ip))[k] = IF k = "ip" THEN IPOver(ClientEdit(o)["ip"], ip) ELSE ClientEdit(o)[k]
<1> DEFINE child == Child(o, "config")
           v == PutString(child, "ip", ip)
<1>1. \A k : At(child, k) = At(At(o, "config"), k)
  BY FieldsObj DEF Child, At
<1>2. At(v, "ip") = IPOver(At(child, "ip"), ip)
  <2> HIDE DEF child
  <2>1. CASE ip = ""
    BY <2>1, AtSame DEF PutString, IPOver
  <2>2. CASE ip # "" /\ AsString(At(child, "ip")) = ip
    BY <2>2 DEF PutString, IPOver
  <2>3. CASE ip # "" /\ AsString(At(child, "ip")) # ip
    <3>1. v = With(child, "ip", Str(ip))
      BY <2>3 DEF PutString
    <3>2. At(With(child, "ip", Str(ip)), "ip") = Str(ip)
      BY AtSame
    <3> QED
      BY <2>3, <3>1, <3>2 DEF IPOver
  <2> QED
    BY <2>1, <2>2, <2>3
<1>3. \A k : k # "ip" => At(v, k) = At(child, k)
  <2>1. Puts(child, "ip", v)
    BY PutsOne
  <2> HIDE DEF v, child
  <2> QED
    BY <2>1, PutsLeavesOthers DEF Agree
<1>4. Held(o, ip) = With(o, "config", v)
  BY DEF Held
<1> HIDE DEF v, child
<1>5. "ip" \in ClientConfigFields /\ ClientConfigFields \subseteq EditKeys
  BY DEF ClientConfigFields, EditKeys
<1>6. \A k \in ClientConfigFields : ClientEdit(o)[k] = At(child, k)
  BY <1>1, EditIs
<1>7. \A k \in ClientConfigFields : ClientEdit(Held(o, ip))[k] = At(v, k)
  BY <1>4, EditWith
<1>8. \A k \in EditKeys \ ClientConfigFields : ClientEdit(Held(o, ip))[k] = ClientEdit(o)[k]
  BY <1>4, EditWith
<1> QED
  BY <1>2, <1>3, <1>5, <1>6, <1>7, <1>8

LEMMA ReleasedEdit ==
  ASSUME NEW o
  PROVE  \A k \in EditKeys : ClientEdit(Released(o))[k] = IF k = "ip" THEN Null ELSE ClientEdit(o)[k]
<1> DEFINE config == At(o, "config")
           v == Omit(config, "ip")
<1>1. "ip" \in ClientConfigFields /\ ClientConfigFields \subseteq EditKeys
  BY DEF ClientConfigFields, EditKeys
<1>2. \A k \in ClientConfigFields : ClientEdit(o)[k] = At(config, k)
  BY EditIs
<1>3. CASE config[1] # "obj"
  <2>1. Released(o) = o
    BY <1>3 DEF Released
  <2>2. At(config, "ip") = Null
    BY <1>3 DEF At, Fields
  <2> HIDE DEF config
  <2> QED
    BY <1>1, <1>2, <2>1, <2>2
<1>4. CASE config[1] = "obj"
  <2>1. Released(o) = With(o, "config", v)
    BY <1>4 DEF Released
  <2>2. \A k : At(v, k) = IF k = "ip" THEN Null ELSE At(config, k)
    BY AtOmit
  <2> HIDE DEF v, config
  <2>3. \A k \in ClientConfigFields : ClientEdit(Released(o))[k] = At(v, k)
    BY <2>1, EditWith
  <2>4. \A k \in EditKeys \ ClientConfigFields : ClientEdit(Released(o))[k] = ClientEdit(o)[k]
    BY <2>1, EditWith
  <2> QED
    BY <1>1, <1>2, <2>2, <2>3, <2>4
<1> QED
  BY <1>3, <1>4

\* What the portal shows of a client among these.
Shown(clients, c) == ClientEdit(IF c \in DOMAIN clients THEN clients[c] ELSE EmptyObj)

LEMMA RecordEdit ==
  ASSUME NEW clients, NEW c
  PROVE  ClientEdit(RecordOf(clients, c)) = Shown(clients, c)
<1> DEFINE o == Obj([id |-> Str(c)])
<1>1. Fields(EmptyObj) = <<>> /\ Fields(o) = [id |-> Str(c)]
  BY DEF EmptyObj, Obj, Fields
<1>2. \A k : k # "id" => At(o, k) = Null /\ At(EmptyObj, k) = Null
  BY <1>1 DEF At
<1> HIDE DEF o
<1>3. \A k \in ClientRecordFields \cup {"config", "wired"} : At(o, k) = At(EmptyObj, k)
  BY <1>2 DEF ClientRecordFields
<1>4. ClientEdit(o) = ClientEdit(EmptyObj)
  <2>1. \A k \in ClientConfigFields : ClientEdit(o)[k] = ClientEdit(EmptyObj)[k]
    BY <1>3, EditIs
  <2>2. \A k \in ClientRecordFields : ClientEdit(o)[k] = ClientEdit(EmptyObj)[k]
    BY <1>3, EditIs
  <2>3. ClientEdit(o)["wired"] = ClientEdit(EmptyObj)["wired"]
    BY <1>3, EditIs
  <2>4. \A k \in EditKeys : ClientEdit(o)[k] = ClientEdit(EmptyObj)[k]
    BY <2>1, <2>2, <2>3 DEF EditKeys
  <2> QED
    BY <2>4, EditsSame
<1> QED
  BY <1>4 DEF RecordOf, Shown, o

\* Reservations that the cloud shows as they were written are not written again.
LEMMA ShownReservationsAreQuiet ==
  ASSUME NEW clients, NEW items, NEW posted,
         \A c : Shown(posted, c) = Shown(WriteReservations(clients, items), c)
  PROVE  \A c \in DOMAIN WriteReservations(posted, items) :
           Shown(WriteReservations(posted, items), c) = Shown(posted, c)
<1> DEFINE next == WriteReservations(clients, items)
           again == WriteReservations(posted, items)
           W == WantedClients(items)
<1>1. /\ DOMAIN next = DOMAIN clients \cup W
      /\ \A c \in DOMAIN next :
           next[c] = IF c \in W THEN Held(RecordOf(clients, c), IPWanted(items, c)) ELSE Released(RecordOf(clients, c))
  BY ReservationsWritten
<1>2. /\ DOMAIN again = DOMAIN posted \cup W
      /\ \A c \in DOMAIN again :
           again[c] = IF c \in W THEN Held(RecordOf(posted, c), IPWanted(items, c)) ELSE Released(RecordOf(posted, c))
  BY ReservationsWritten
<1> SUFFICES ASSUME NEW c \in DOMAIN again PROVE Shown(again, c) = Shown(posted, c)
  OBVIOUS
<1> HIDE DEF next, again, W
<1>0. "ip" \in EditKeys /\ "ip" # "wired"
  BY DEF EditKeys, ClientConfigFields
<1>3. Shown(posted, c) = Shown(next, c)
  BY DEF next
<1>4. CASE c \in W
  <2> DEFINE ip == IPWanted(items, c)
  <2>1. Shown(again, c) = ClientEdit(Held(RecordOf(posted, c), ip))
    BY <1>2, <1>4 DEF Shown
  <2>2. Shown(next, c) = ClientEdit(Held(RecordOf(clients, c), ip))
    BY <1>1, <1>4 DEF Shown
  <2> HIDE DEF ip
  <2>3. \A k \in EditKeys : Shown(again, c)[k] = IF k = "ip" THEN IPOver(Shown(posted, c)["ip"], ip) ELSE Shown(posted, c)[k]
    BY <2>1, HeldEdit, RecordEdit
  <2>4. Shown(posted, c)["ip"] = IPOver(Shown(clients, c)["ip"], ip)
    BY <1>0, <1>3, <2>2, HeldEdit, RecordEdit
  <2>5. \A k \in EditKeys : Shown(again, c)[k] = Shown(posted, c)[k]
    BY <2>3, <2>4, IPAgain
  <2> QED
    BY <2>5, EditsSame DEF Shown
<1>5. CASE c \notin W
  <2>1. Shown(again, c) = ClientEdit(Released(RecordOf(posted, c)))
    BY <1>2, <1>5 DEF Shown
  <2>2. Shown(next, c)["ip"] = Null
    <3>1. CASE c \in DOMAIN next
      <4>1. Shown(next, c) = ClientEdit(Released(RecordOf(clients, c)))
        BY <1>1, <1>5, <3>1 DEF Shown
      <4> QED
        BY <1>0, <4>1, ReleasedEdit
    <3>2. CASE c \notin DOMAIN next
      <4>1. Shown(next, c) = ClientEdit(EmptyObj)
        BY <3>2 DEF Shown
      <4> QED
        BY <1>0, <4>1, EditOfEmpty
    <3> QED
      BY <3>1, <3>2
  <2>3. \A k \in EditKeys : Shown(again, c)[k] = IF k = "ip" THEN Null ELSE Shown(posted, c)[k]
    BY <2>1, ReleasedEdit, RecordEdit
  <2>4. \A k \in EditKeys : Shown(again, c)[k] = Shown(posted, c)[k]
    BY <1>3, <2>2, <2>3
  <2> QED
    BY <2>4, EditsSame DEF Shown
<1> QED
  BY <1>4, <1>5

-----------------------------------------------------------------------------
(* A configuration that is applied twice.                                    *)

\* What the cloud holds after a plan is ready again, and says what the working copy says.
LEMMA PlanReadies ==
  ASSUME NEW c, Fits(c), NEW d, Ready(d), c["SwitchPorts"] # <<>> => d.device # Null
  PROVE  LET u == Post(d, Plan(c, d))  e == Apply(c, d) IN
         /\ Ready(u) /\ Read(u) = Read(e)
         /\ \A kind \in Kinds : \A key : Says(u, kind, key) = Says(e, kind, key)
<1> DEFINE e == Apply(c, d)
           u == Post(d, Plan(c, d))
<1>1. Ready(e) /\ Grows(d, e) /\ IsDocument(d) /\ IsDocument(e)
  BY AppliedSections DEF Ready
<1>2. u = Post(d, Writes(e, d))
  BY DEF Plan
<1> HIDE DEF e, u
<1>3. IsDocument(u) /\ Read(u) = Read(e) /\ \A kind \in Kinds : \A key : Says(u, kind, key) = Says(e, kind, key)
  BY <1>1, <1>2, PostKeeps, WritesSuffice
<1>4. Formed(u)
  <2>1. FiniteKeys(d) /\ Formed(d)
    BY DEF Ready, IsDocument, Formed
  <2>2. IsWrites(Writes(e, d))
    BY <1>1, WritesAreWrites DEF IsDocument
  <2> QED
    BY <1>2, <2>1, <2>2, PostIsFormed
<1>5. (\A k : At(e.site, k) = At(u.site, k)) /\ (\A k : At(e.device, k) = At(u.device, k))
  BY <1>3, SaysSame
<1>6. \A s \in DOMAIN Codec : HoldsElements(s, u.site)
  <2> TAKE s \in DOMAIN Codec
  <2>1. Len(Codec[s].path) \in Nat \ {0}
    BY Paths
  <2>2. Node(e.site, Codec[s].path) = Node(u.site, Codec[s].path)
    BY <1>5, <2>1, NodeSame
  <2> QED
    BY <1>1, <2>2 DEF Ready, HoldsElements
<1>7. IsDevice(u.device)
  <2>1. Len(PortsPath) \in Nat \ {0}
    BY DEF PortsPath
  <2>2. PortsOf(e.device) = PortsOf(u.device)
    BY <1>5, <2>1, NodeSame DEF PortsOf
  <2> QED
    BY <1>1, <2>2, DevicePorts DEF Ready
<1>8. Ready(u)
  BY <1>3, <1>4, <1>6, <1>7 DEF Ready, Formed
<1> QED
  BY <1>3, <1>8 DEF e, u

LEMMA NoErrorDevice ==
  ASSUME NEW c, NEW d, ~ConfigError(c, d)
  PROVE  c["SwitchPorts"] # <<>> => d.device # Null
<1>1. "SwitchPorts" \in ToSet(Sections)
  BY DEF Sections, ToSet
<1> QED
  BY <1>1 DEF ConfigError, SectionError, SwitchPortsError

\* A configuration that is not in error is what is read back after it was applied: in every
\* section it manages the cloud holds what it asked, and the sections it leaves out read as they
\* did ("A nil section is unmanaged: Apply leaves it untouched", config.go).
THEOREM AppliedReadsBack ==
  ASSUME NEW c, Fits(c), NEW d, Ready(d), ~ConfigError(c, d)
  PROVE  LET u == Post(d, Plan(c, d)) IN
         /\ Ready(u)
         /\ \A s \in ToSet(Sections) :
              IF c[s] = <<>> THEN ReadSection(s, u) = ReadSection(s, d)
              ELSE ReadsBack(s, c[s][1], ReadSection(s, d), ReadSection(s, u))
<1> DEFINE u == Post(d, Plan(c, d))
           e == Apply(c, d)
<1>1. c["SwitchPorts"] # <<>> => d.device # Null
  BY NoErrorDevice
<1>2. Ready(u) /\ Read(u) = Read(e)
  BY <1>1, PlanReadies
<1>3. \A s \in ToSet(Sections) :
        IF c[s] = <<>> THEN ReadSection(s, e) = ReadSection(s, d)
        ELSE ReadsBack(s, c[s][1], ReadSection(s, d), ReadSection(s, e))
  BY <1>1, ApplyReads
<1> HIDE DEF u, e
<1>4. \A s \in ToSet(Sections) : ReadSection(s, u) = ReadSection(s, e)
  BY <1>2 DEF Read
<1>5. \A s \in ToSet(Sections) :
        IF c[s] = <<>> THEN ReadSection(s, u) = ReadSection(s, d)
        ELSE ReadsBack(s, c[s][1], ReadSection(s, d), ReadSection(s, u))
  BY <1>3, <1>4
<1> QED
  BY <1>2, <1>5 DEF u

\* Applying the same configuration once more writes nothing ("an unchanged configuration
\* produces no writes", values.go).
THEOREM SecondApplyWritesNothing ==
  ASSUME NEW c, Fits(c), NEW d, Ready(d), ~ConfigError(c, d)
  PROVE  Plan(c, Post(d, Plan(c, d))) = {}
<1> DEFINE e == Apply(c, d)
           u == Post(d, Plan(c, d))
           reserved == c["DHCPReservations"][1]
<1>1. c["SwitchPorts"] # <<>> => d.device # Null
  BY NoErrorDevice
<1>2. Ready(u) /\ \A kind \in Kinds : \A key : Says(u, kind, key) = Says(e, kind, key)
  BY <1>1, PlanReadies
<1>3. Ready(e) /\ \A s \in ToSet(Sections) : c[s] # <<>> => WrittenOver(c, s, d, e)
  BY <1>1, AppliedSections
<1> HIDE DEF u, e
<1>4. /\ \A k : At(e.site, k) = At(u.site, k)
      /\ \A k : At(e.device, k) = At(u.device, k)
      /\ \A k : ClientEdit(Record(e, k)) = ClientEdit(Record(u, k))
  BY <1>2, SaysSame
<1>5. IsObj(u.site) /\ (u.device = Null \/ IsObj(u.device)) /\ u = [site |-> u.site, device |-> u.device, clients |-> u.clients]
  BY <1>2 DEF Ready, IsDocument, FiniteKeys
<1>6. ASSUME NEW s \in DOMAIN Codec, c[s] # <<>>
      PROVE  ListWrite(s, u.site, c[s][1]) = u.site
  <2> DEFINE items == c[s][1]
  <2>1. s \in ToSet(Sections) /\ s # "SwitchPorts" /\ s # "DHCPReservations"
    BY DEF Codec, Sections, ToSet
  <2>2. PICK x : Ready(x) /\ Aside(s, Overlay(c, x, s), e)
    BY <1>3, <1>6, <2>1 DEF WrittenOver
  <2>3. Overlay(c, x, s).site = ListWrite(s, x.site, items)
    BY <1>6, <2>1, <2>2 DEF Overlay, WriteSection, Ready, IsDocument, FiniteKeys
  <2>4. Listable(s, items)
    BY <1>6 DEF Fits
  <2> HIDE DEF items
  <2>5. ListSettled(s, ListWrite(s, x.site, items), items)
    BY <2>2, <2>4, WrittenSettles DEF Ready
  <2>6. ListSettled(s, e.site, items)
    BY <2>2, <2>3, <2>5, AsideOf DEF Aside
  <2>7. ListSettled(s, u.site, items)
    BY <1>4, <1>5, <2>6, ListSettledSame
  <2> QED
    BY <2>7, SettledIsQuiet DEF items
<1>7. ASSUME c["SwitchPorts"] # <<>>
      PROVE  WriteSwitchPorts(u.device, c["SwitchPorts"][1]) = u.device
  <2> DEFINE items == c["SwitchPorts"][1]
             s == "SwitchPorts"
  <2>1. s \in ToSet(Sections)
    BY DEF Sections, ToSet
  <2>2. PICK x : Ready(x) /\ Aside(s, Overlay(c, x, s), e)
    BY <1>3, <1>7, <2>1 DEF WrittenOver
  <2>3. Overlay(c, x, s).device = WriteSwitchPorts(x.device, items)
    BY <1>7, <2>2 DEF Overlay, WriteSection, Ready, IsDocument, FiniteKeys
  <2>4. Plugged(items) /\ Len(items) \in Nat
    BY <1>7 DEF Fits, Plugged, Listing
  <2>5. IsDevice(x.device)
    BY <2>2 DEF Ready
  <2>6. e.device = WriteSwitchPorts(x.device, items)
    BY <2>2, <2>3 DEF Aside
  <2> HIDE DEF items
  <2>7. PortsSettled(e.device, items)
    BY <2>4, <2>5, <2>6, WrittenPortsSettle, DevicePorts
  <2>8. PortsSettled(u.device, items)
    BY <1>4, <1>5, <2>4, <2>7, PortsSettledSame
  <2> QED
    BY <2>4, <2>8, SettledPortsAreQuiet DEF items
<1>8. ASSUME NEW s \in ToSet(Sections), s # "DHCPReservations" PROVE Overlay(c, u, s) = u
  <2>1. CASE c[s] = <<>>
    BY <2>1 DEF Overlay
  <2>2. CASE c[s] # <<>> /\ s = "SwitchPorts"
    <3>1. Overlay(c, u, s) = [site |-> u.site, device |-> WriteSwitchPorts(u.device, c[s][1]), clients |-> u.clients]
      BY <1>5, <2>2 DEF Overlay, WriteSection
    <3> QED
      BY <1>5, <1>7, <2>2, <3>1
  <2>3. CASE c[s] # <<>> /\ s # "SwitchPorts"
    <3>1. s \in DOMAIN Codec
      BY <1>8, <2>3 DEF Sections, Codec, ToSet
    <3>2. Overlay(c, u, s) = [site |-> ListWrite(s, u.site, c[s][1]), device |-> u.device, clients |-> u.clients]
      BY <1>5, <1>8, <2>3 DEF Overlay, WriteSection
    <3> QED
      BY <1>5, <1>6, <2>3, <3>1, <3>2
  <2> QED
    BY <2>1, <2>2, <2>3
<1>9. Apply(c, u) = Overlay(c, u, "DHCPReservations")
  <2>1. Len(Sections) \in Nat /\ Len(Sections) = 6
    BY SectionsAre
  <2>2. PICK f : /\ f[0] = u /\ Apply(c, u) = f[6]
                 /\ \A i \in 1..6 : f[i] = Overlay(c, f[i - 1], Sections[i])
    BY <2>1, ApplyRuns
  <2> DEFINE S == {i \in Nat : i <= 5 => f[i] = u}
  <2>3. 0 \in S
    BY <2>2
  <2>4. ASSUME NEW i \in Nat, i \in S PROVE i + 1 \in S
    <3>1. i + 1 <= 5 => i <= 5 /\ i + 1 \in 1..6 /\ i + 1 - 1 = i /\ i + 1 # 6
      OBVIOUS
    <3>2. i + 1 <= 5 => Sections[i + 1] \in ToSet(Sections) /\ Sections[i + 1] # "DHCPReservations"
      <4>1. Sections[6] = "DHCPReservations" /\ 6 \in 1..6
        BY DEF Sections
      <4> QED
        BY <3>1, <4>1, SectionsAre
    <3> QED
      BY <1>8, <2>2, <2>4, <3>1, <3>2
  <2>5. 5 \in S
    <3> HIDE DEF S
    <3> QED
      BY <2>3, <2>4, NatInduct
  <2>6. f[6] = Overlay(c, f[6 - 1], Sections[6]) /\ 6 - 1 = 5
    BY <2>2
  <2>7. Sections[6] = "DHCPReservations"
    BY DEF Sections
  <2> QED
    BY <2>2, <2>5, <2>6, <2>7
<1> DEFINE again == Apply(c, u)
<1>10. /\ again.site = u.site /\ again.device = u.device
       /\ \A k \in DOMAIN again.clients : ClientEdit(Record(again, k)) = ClientEdit(Record(u, k))
  <2>1. CASE c["DHCPReservations"] = <<>>
    BY <1>9, <2>1 DEF Overlay
  <2>2. CASE c["DHCPReservations"] # <<>>
    <3> DEFINE s == "DHCPReservations"
    <3>1. s \in ToSet(Sections)
      BY DEF Sections, ToSet
    <3>2. again = [site |-> u.site, device |-> u.device, clients |-> WriteReservations(u.clients, reserved)]
      BY <1>5, <1>9, <2>2 DEF Overlay, WriteSection
    <3>3. PICK x : Ready(x) /\ Aside(s, Overlay(c, x, s), e)
      BY <1>3, <2>2, <3>1 DEF WrittenOver
    <3>4. Overlay(c, x, s).clients = WriteReservations(x.clients, reserved)
      BY <2>2, <3>3 DEF Overlay, WriteSection, Ready, IsDocument, FiniteKeys
    <3>5. e.clients = WriteReservations(x.clients, reserved)
      BY <3>3, <3>4 DEF Aside
    <3>6. \A y, k : ClientEdit(Record(y, k)) = Shown(y.clients, k)
      BY DEF Record, Shown
    <3> HIDE DEF reserved, again
    <3>7. \A k : Shown(u.clients, k) = Shown(WriteReservations(x.clients, reserved), k)
      BY <1>4, <3>5, <3>6
    <3>8. \A k \in DOMAIN WriteReservations(u.clients, reserved) :
            Shown(WriteReservations(u.clients, reserved), k) = Shown(u.clients, k)
      BY <3>7, ShownReservationsAreQuiet
    <3> QED
      BY <3>2, <3>6, <3>8
  <2> QED
    BY <2>1, <2>2
<1> HIDE DEF again
<1>11. Changed(u.site, again.site) = {} /\ Changed(u.device, again.device) = {}
  BY <1>10 DEF Changed
<1>12. Writes(again, u) = {}
  BY <1>10, <1>11 DEF Writes
<1> QED
  BY <1>12 DEF Plan, again, u

-----------------------------------------------------------------------------
(* What the handlers write.                                                  *)

LEMMA PortItemsListed ==
  ASSUME NEW d, IsDocument(d), NEW item
  PROVE  Len(PutItem("SwitchPorts", ReadSwitchPorts(d.device), item)) \in Nat
<1> DEFINE ports == Node(d.device, PortsPath)
           texts == DOMAIN Fields(ports) \cap DOMAIN Decimal
           S == {Decimal[k] : k \in texts}
           n == Cardinality(S)
           items == ReadSwitchPorts(d.device)
<1>1. n \in Nat
  <2> DEFINE f == [k \in texts |-> Decimal[k]]
  <2>1. IsFiniteSet(texts)
    BY FS_Subset DEF IsDocument
  <2>2. DOMAIN f = texts /\ S = {f[k] : k \in texts}
    OBVIOUS
  <2> HIDE DEF f, texts, S
  <2>3. IsFiniteSet(S)
    BY <2>1, <2>2, FiniteImage
  <2> QED
    BY <2>3, FS_CardinalityType
<1>2. DOMAIN items = 1..n /\ items = [i \in DOMAIN items |-> items[i]]
  BY DEF ReadSwitchPorts, Sorted
<1> HIDE DEF items, n, S
<1>3. Len(items) = n
  BY <1>1, <1>2, LenOf
<1>4. Len(Append(items, item)) = n + 1
  <2> DEFINE R == {items[i] : i \in 1..n} \cup {item}
  <2>1. items \in [1..n -> R]
    BY <1>2
  <2> HIDE DEF R
  <2>2. items \in Seq(R)
    BY <1>1, <2>1
  <2>3. item \in R
    BY DEF R
  <2> QED
    BY <1>3, <2>2, <2>3
<1>5. \A i : Len([items EXCEPT ![i] = item]) = n
  <2> TAKE i
  <2> DEFINE f == [items EXCEPT ![i] = item]
  <2>1. DOMAIN f = 1..n /\ f = [j \in DOMAIN f |-> f[j]]
    BY <1>2
  <2> HIDE DEF f
  <2>2. Len(f) = n
    BY <1>1, <2>1, LenOf
  <2> QED
    BY <2>2 DEF f
<1>6. \/ PutItem("SwitchPorts", items, item) = Append(items, item)
      \/ \E i : PutItem("SwitchPorts", items, item) = [items EXCEPT ![i] = item]
  BY DEF PutItem
<1> QED
  BY <1>1, <1>4, <1>5, <1>6 DEF items

LEMMA ConfListed ==
  ASSUME focus \in ToSet(Sections), NEW m \in ConfWanted[focus]
  PROVE  Listed(ToConfig(m))
<1> DEFINE s == "SwitchPorts"
           keys == DOMAIN m[s][1]
           n == Cardinality(keys)
           items == ConvertMap(s, m[s][1])
<1>1. s \in ToSet(Sections)
  BY DEF Sections, ToSet
<1>2. CASE m[s] = <<>>
  BY <1>1, <1>2 DEF Listed, ToConfig
<1>3. CASE m[s] # <<>>
  <2>1. n \in Nat
    BY <1>1, <1>3, ConfWantedAssumption, FS_CardinalityType DEF Askable
  <2>2. DOMAIN items = 1..n /\ items = [i \in DOMAIN items |-> items[i]]
    BY DEF ConvertMap, Sorted
  <2>3. ToConfig(m)[s] = <<items>>
    BY <1>1, <1>3 DEF ToConfig
  <2> HIDE DEF items, n
  <2>4. Len(items) \in Nat
    BY <2>1, <2>2, LenOf
  <2> QED
    BY <2>3, <2>4 DEF Listed
<1> QED
  BY <1>2, <1>3

LEMMA ItemsListed ==
  ASSUME NEW s, NEW items, s # "SwitchPorts"
  PROVE  Listed(Desired(s, items))
<1>1. "SwitchPorts" \in ToSet(Sections)
  BY DEF Sections, ToSet
<1> QED
  BY <1>1 DEF Listed, Desired, Unmanaged

LEMMA PutListed ==
  ASSUME NEW s, NEW item, NEW d, IsDocument(d)
  PROVE  Listed(Desired(s, PutItem(s, ReadSection(s, d), item)))
<1>1. CASE s = "SwitchPorts"
  <2> DEFINE items == PutItem(s, ReadSection(s, d), item)
  <2>1. Len(items) \in Nat
    BY <1>1, PortItemsListed DEF ReadSection
  <2>2. "SwitchPorts" \in ToSet(Sections)
    BY DEF Sections, ToSet
  <2> HIDE DEF items
  <2>3. Desired(s, items)["SwitchPorts"] = <<items>>
    BY <1>1, <2>2 DEF Desired, Unmanaged
  <2>4. Listed(Desired(s, items))
    BY <2>1, <2>3 DEF Listed
  <2> QED
    BY <2>4 DEF items
<1>2. CASE s # "SwitchPorts"
  BY <1>2, ItemsListed
<1> QED
  BY <1>1, <1>2

LEMMA PlanKeeps ==
  ASSUME NEW c, Listed(c), NEW d, IsDocument(d), ~ConfigError(c, d)
  PROVE  /\ IsDocument(Post(d, Plan(c, d)))
         /\ IsDocument(Post(Post(d, Plan(c, d)), PreImages(d, Plan(c, d))))
         /\ Read(Post(Post(d, Plan(c, d)), PreImages(d, Plan(c, d)))) = Read(d)
<1> DEFINE e == Apply(c, d)
<1>1. IsDocument(e)
  BY NoErrorNamed, ApplyKeeps
<1>2. Plan(c, d) = Writes(e, d)
  BY DEF Plan
<1> HIDE DEF e
<1> QED
  BY <1>1, <1>2, PostKeeps, UndoneReadsTheSame

-----------------------------------------------------------------------------
(* The steps.                                                                *)

Documented ==
  /\ IsDocument(cloud)
  /\ focus \in ToSet(Sections) /\ DOMAIN tf = Slots /\ edits \in Nat
Undone ==
  UNCHANGED <<tf, conf, held, fresh, edits>> /\ asked' = <<>> /\ cloud' # cloud => Read(cloud') = Read(cloud)

LEMMA RollbackUndone ==
  ASSUME Documented, NEW c, Listed(c), ~ConfigError(c, cloud), RolledBack(Plan(c, cloud))
  PROVE  Documented' /\ Undone
<1>1. /\ cloud' = Post(Post(cloud, Plan(c, cloud)), PreImages(cloud, Plan(c, cloud)))
      /\ UNCHANGED <<focus, tf, edits>>
  BY DEF RolledBack
<1>2. IsDocument(cloud') /\ Read(cloud') = Read(cloud)
  BY <1>1, PlanKeeps DEF Documented
<1> QED
  BY <1>1, <1>2 DEF Documented, Undone

LEMMA ElementUndone ==
  ASSUME Documented, NEW s, NEW items, NEW r \in Slots, NEW state,
         Listed(Desired(s, items)), state # tf[r], ElementApply(s, items, r, state)
  PROVE  Documented' /\ Undone
<1> DEFINE c == Desired(s, items)
<1>1. ~ConfigError(c, cloud)
  BY DEF ElementApply, Transact
<1>2. CASE RolledBack(Plan(c, cloud))
  <2> HIDE DEF c
  <2> QED
    BY <1>1, <1>2, RollbackUndone DEF c
<1>3. CASE ~RolledBack(Plan(c, cloud))
  <2>1. /\ cloud' = Post(cloud, Plan(c, cloud)) /\ tf' = [tf EXCEPT ![r] = state]
        /\ UNCHANGED <<focus, edits>>
    BY <1>3 DEF ElementApply, Transact, Applied
  <2>2. IsDocument(cloud')
    <3> HIDE DEF c
    <3> QED
      BY <1>1, <2>1, PlanKeeps DEF Documented, c
  <2>3. DOMAIN tf' = Slots /\ tf' # tf
    BY <2>1 DEF Documented
  <2> QED
    BY <2>1, <2>2, <2>3 DEF Documented, Undone
<1> QED
  BY <1>2, <1>3

LEMMA PutUndone ==
  ASSUME Documented, NEW s, NEW r \in Slots, NEW id, NEW m, Put(s, r, id, m),
         tf[r] = <<>> \/ tf[r][1].m # m
  PROVE  Documented' /\ Undone
<1> DEFINE item == DomainItem(s, id, m)
           items == PutItem(s, ReadSection(s, cloud), item)
           state == <<[StateOf(s, id, item) EXCEPT !.m = m]>>
<1>1. ElementApply(s, items, r, state)
  BY DEF Put
<1>2. Listed(Desired(s, items))
  BY PutListed DEF Documented
<1>3. state # <<>> /\ state[1].m = m
  BY DEF StateOf
<1> HIDE DEF items, state
<1> QED
  BY <1>1, <1>2, <1>3, ElementUndone

LEMMA DropUndone ==
  ASSUME Documented, NEW s, s # "SwitchPorts", NEW r \in Slots, tf[r] # <<>>, Drop(s, r)
  PROVE  Documented' /\ Undone
BY ItemsListed, ElementUndone DEF Drop

\* A step that leaves the cloud and the edits alone is never a rollback.
LEMMA QuietUndone ==
  ASSUME Documented, UNCHANGED <<focus, cloud, edits>>, DOMAIN tf' = DOMAIN tf
  PROVE  Documented' /\ Undone
BY DEF Documented, Undone

LEMMA ReadUndone ==
  ASSUME Documented, NEW s, NEW r \in Slots, ReadState(s, r) \/ ImportItem(s, r)
  PROVE  Documented' /\ Undone
<1>1. UNCHANGED <<focus, cloud, edits>> /\ DOMAIN tf' = DOMAIN tf
  BY DEF ReadState, ImportItem
<1> QED
  BY <1>1, QuietUndone

LEMMA ConfApplyUndone ==
  ASSUME Documented, NEW prior, NEW m \in ConfWanted[focus], ConfApply(prior, m)
  PROVE  Documented' /\ Undone
<1> DEFINE c == ToConfig(m)
<1>1. ~ConfigError(c, cloud) /\ Listed(c)
  BY ConfListed DEF ConfApply, Documented
<1>2. CASE RolledBack(Plan(c, cloud))
  <2> HIDE DEF c
  <2> QED
    BY <1>1, <1>2, RollbackUndone
<1>3. CASE ~RolledBack(Plan(c, cloud))
  <2>1. cloud' = Post(cloud, Plan(c, cloud)) /\ asked' # <<>> /\ UNCHANGED <<focus, tf, edits>>
    BY <1>3 DEF ConfApply, Applied
  <2>2. IsDocument(cloud')
    <3> HIDE DEF c
    <3> QED
      BY <1>1, <2>1, PlanKeeps DEF Documented
  <2> QED
    BY <2>1, <2>2 DEF Documented, Undone
<1> QED
  BY <1>2, <1>3

LEMMA PortalUndone ==
  ASSUME Documented, PortalEdit
  PROVE  Documented' /\ Undone
<1>1. edits' = edits + 1 /\ cloud' \in Edited(focus, cloud) /\ UNCHANGED <<focus, tf>>
  BY DEF PortalEdit
<1>2. CASE focus = "SwitchPorts"
  <2>1. PICK p, v : cloud' = [cloud EXCEPT !.device = PutAt(@, Append(PortsPath, p), v)]
    BY <1>1, <1>2 DEF Edited
  <2>2. cloud' = [site |-> cloud.site, device |-> PutAt(cloud.device, Append(PortsPath, p), v), clients |-> cloud.clients]
    BY <2>1 DEF Documented, IsDocument, FiniteKeys
  <2>3. FinitePorts(PutAt(cloud.device, Append(PortsPath, p), v))
    BY PutAtPort DEF Documented, IsDocument, FiniteKeys, FinitePorts
  <2>4. IsDocument(cloud')
    BY <2>2, <2>3 DEF Documented, IsDocument, FiniteKeys, FinitePorts
  <2> QED
    BY <1>1, <2>4 DEF Documented, Undone
<1>3. CASE focus = "DHCPReservations"
  <2>1. PICK c, v : c \in DOMAIN cloud.clients /\ cloud' = [cloud EXCEPT !.clients[c] = v]
    BY <1>1, <1>3 DEF Edited
  <2>2. /\ cloud' = [site |-> cloud.site, device |-> cloud.device, clients |-> cloud'.clients]
        /\ DOMAIN cloud'.clients = DOMAIN cloud.clients
    BY <2>1 DEF Documented, IsDocument, FiniteKeys
  <2>3. IsDocument(cloud')
    BY <2>2 DEF Documented, IsDocument, FiniteKeys
  <2> QED
    BY <1>1, <2>3 DEF Documented, Undone
<1>4. CASE focus \notin {"SwitchPorts", "DHCPReservations"}
  <2> DEFINE path == Codec[focus].path
  <2>1. PICK v : cloud' = [cloud EXCEPT !.site = PutAt(@, path, v)]
    BY <1>1, <1>4 DEF Edited
  <2>2. cloud' = [site |-> PutAt(cloud.site, path, v), device |-> cloud.device, clients |-> cloud.clients]
    BY <2>1 DEF Documented, IsDocument, FiniteKeys
  <2>3. focus \in DOMAIN Codec
    BY <1>4 DEF Documented, Sections, Codec, ToSet
  <2>4. Len(path) \in Nat \ {0}
    BY <2>3 DEF Codec, ListCodec
  <2> HIDE DEF path
  <2>5. IsFiniteSet(DOMAIN Fields(PutAt(cloud.site, path, v)))
    BY <2>4, PutAtGains DEF Documented, IsDocument, FiniteKeys, Gains
  <2>6. IsDocument(cloud')
    BY <2>2, <2>5 DEF Documented, IsDocument, FiniteKeys
  <2> QED
    BY <1>1, <2>6 DEF Documented, Undone
<1> QED
  BY <1>2, <1>3, <1>4

LEMMA ElementStepUndone ==
  ASSUME Documented, NEW r \in Slots, Element(r)
  PROVE  Documented' /\ Undone
<1>1. ASSUME NEW s, NEW w \in PlannedCreate(s, r) \cup PlannedUpdate(s, r) PROVE tf[r] = <<>> \/ tf[r][1].m # w.m
  BY <1>1 DEF PlannedCreate, PlannedUpdate
<1>2. ASSUME NEW s, NEW w \in PlannedCreate(s, r) \cup PlannedUpdate(s, r), NEW id, Put(s, r, id, w.m)
      PROVE  Documented' /\ Undone
  BY <1>1, <1>2, PutUndone
<1>3. ASSUME NEW s, s # "SwitchPorts", PlannedDelete(s, r), Drop(s, r) PROVE Documented' /\ Undone
  BY <1>3, DropUndone DEF PlannedDelete
<1>4. CASE VLANCreate(r) \/ VLANUpdate(r) \/ VLANRead(r) \/ VLANDelete(r) \/ VLANImport(r)
  BY <1>2, <1>3, <1>4, ReadUndone DEF VLANCreate, VLANUpdate, VLANRead, VLANDelete, VLANImport
<1>5. CASE StaticRouteCreate(r) \/ StaticRouteUpdate(r) \/ StaticRouteRead(r) \/ StaticRouteDelete(r) \/ StaticRouteImport(r)
  BY <1>2, <1>3, <1>5, ReadUndone
     DEF StaticRouteCreate, StaticRouteUpdate, StaticRouteRead, StaticRouteDelete, StaticRouteImport, RouteWrite
<1>6. CASE PortForwardCreate(r) \/ PortForwardUpdate(r) \/ PortForwardRead(r) \/ PortForwardDelete(r) \/ PortForwardImport(r)
  BY <1>2, <1>3, <1>6, ReadUndone
     DEF PortForwardCreate, PortForwardUpdate, PortForwardRead, PortForwardDelete, PortForwardImport
<1>7. CASE FirewallRuleCreate(r) \/ FirewallRuleUpdate(r) \/ FirewallRuleRead(r) \/ FirewallRuleDelete(r) \/ FirewallRuleImport(r)
  BY <1>2, <1>3, <1>7, ReadUndone
     DEF FirewallRuleCreate, FirewallRuleUpdate, FirewallRuleRead, FirewallRuleDelete, FirewallRuleImport
<1>8. CASE SwitchPortCreate(r) \/ SwitchPortUpdate(r) \/ SwitchPortRead(r) \/ SwitchPortDelete(r) \/ SwitchPortImport(r)
  <2>1. CASE SwitchPortDelete(r)
    <3>1. UNCHANGED <<focus, cloud, edits>> /\ DOMAIN tf' = DOMAIN tf
      BY <2>1 DEF SwitchPortDelete
    <3> QED
      BY <3>1, QuietUndone
  <2> QED
    BY <1>2, <1>8, <2>1, ReadUndone DEF SwitchPortCreate, SwitchPortUpdate, SwitchPortRead, SwitchPortImport
<1>9. CASE ReservationCreate(r) \/ ReservationUpdate(r) \/ ReservationRead(r) \/ ReservationDelete(r) \/ ReservationImport(r)
  BY <1>2, <1>3, <1>9, ReadUndone
     DEF ReservationCreate, ReservationUpdate, ReservationRead, ReservationDelete, ReservationImport
<1> QED
  BY <1>4, <1>5, <1>6, <1>7, <1>8, <1>9 DEF Element

LEMMA ConfigurationUndone ==
  ASSUME Documented, Configuration
  PROVE  Documented' /\ Undone
<1>1. CASE ConfCreate \/ ConfUpdate
  <2>1. PICK prior, m : m \in ConfWanted[focus] /\ ConfApply(prior, m)
    BY <1>1 DEF ConfCreate, ConfUpdate
  <2> QED
    BY <2>1, ConfApplyUndone
<1>2. CASE ConfRead \/ ConfDelete \/ ConfImport
  <2>1. UNCHANGED <<focus, cloud, edits>> /\ DOMAIN tf' = DOMAIN tf
    BY <1>2 DEF ConfRead, ConfDelete, ConfImport
  <2> QED
    BY <2>1, QuietUndone
<1> QED
  BY <1>1, <1>2 DEF Configuration

LEMMA StepUndone ==
  ASSUME Documented, [Next]_vars
  PROVE  Documented' /\ Undone
<1>1. CASE UNCHANGED vars
  BY <1>1, QuietUndone DEF vars
<1>2. CASE Next
  BY <1>2, ElementStepUndone, ConfigurationUndone, PortalUndone DEF Next
<1> QED
  BY <1>1, <1>2

LEMMA InitDocumented == Init => Documented
<1> SUFFICES ASSUME Init PROVE Documented
  OBVIOUS
<1>1. IsDocument(cloud)
  BY CloudsAssumption DEF Init
<1> QED
  BY <1>1 DEF Init, Documented

\* What the cloud holds stays a document, whatever the resources post, a rollback takes back
\* and the portal edits (document.go, api.go).
LEMMA AlwaysDocumented == Spec => []Documented
<1>1. Documented /\ [Next]_vars => Documented'
  BY StepUndone
<1> QED
  BY InitDocumented, <1>1, PTL DEF Spec

\* A transaction that is rolled back leaves the configuration reading as it did, in every
\* section and for the records it created, for every document, configuration and portal
\* (engine.go's revert posts the pre-images that document.go took of its writes).
THEOREM RollbackReadsTheSame == Spec => RolledBackReadsTheSame
<1>1. Documented /\ [Next]_vars =>
        (UNCHANGED <<tf, conf, held, fresh, edits>> /\ asked' = <<>> /\ cloud' # cloud => Read(cloud') = Read(cloud))
  BY StepUndone DEF Undone
<1> QED
  BY AlwaysDocumented, <1>1, PTL DEF Spec, RolledBackReadsTheSame

\* A sequence without a repetition keeps none, and has as many members as it is long.
LEMMA KeptDistinct ==
  ASSUME NEW q, Listing(q), Distinct(q), NEW S
  PROVE  Distinct(Kept(q, S))
<1> DEFINE n == Len(q)
           T(m) == {q[i] : i \in 1..m}
<1>0. n \in Nat
  BY DEF Listing
<1>1. PICK f : /\ f[0] = <<>> /\ Kept(q, S) = f[n]
               /\ \A i \in 1..n : f[i] = IF q[i] \in S THEN Append(f[i - 1], q[i]) ELSE f[i - 1]
  BY <1>0, KeptRuns
<1> DEFINE Good(m) == f[m] \in Seq(T(m)) /\ Distinct(f[m])
           Z == {m \in Nat : m <= n => Good(m)}
<1>2. 0 \in Z
  <2>1. f[0] \in Seq(T(0)) /\ Len(f[0]) = 0
    BY <1>1, EmptySeq
  <2>2. Distinct(f[0])
    BY <2>1 DEF Distinct
  <2> QED
    BY <2>1, <2>2
<1>3. ASSUME NEW m \in Nat, m \in Z PROVE m + 1 \in Z
  <2>1. SUFFICES ASSUME m + 1 <= n PROVE Good(m + 1)
    OBVIOUS
  <2>2. m + 1 \in 1..n /\ (m + 1) - 1 = m /\ m <= n /\ (\A i \in 1..m : i \in 1..n /\ i # m + 1) /\ 1..m \subseteq 1..(m + 1)
    BY <1>0, <2>1
  <2>3. Good(m)
    BY <1>3, <2>2
  <2> DEFINE x == q[m + 1]
             r == f[m]
  <2>4. f[m + 1] = IF x \in S THEN Append(r, x) ELSE r
    BY <1>1, <2>2
  <2>5. T(m) \subseteq T(m + 1) /\ x \in T(m + 1)
    BY <2>2
  <2>6. x \notin T(m)
    BY <2>2 DEF Distinct
  <2>7. r \in Seq(T(m + 1)) /\ Len(r) \in Nat
    BY <2>3, <2>5, SeqSubset
  <2>8. \A j \in 1..Len(r) : r[j] # x
    BY <2>3, <2>6, SeqListing
  <2>9. Distinct(r)
    BY <2>3
  <2> HIDE DEF T, x, r
  <2>10. /\ Append(r, x) \in Seq(T(m + 1)) /\ Len(Append(r, x)) = Len(r) + 1
         /\ \A j \in 1..Len(r) : Append(r, x)[j] = r[j]
         /\ Append(r, x)[Len(r) + 1] = x
    BY <2>5, <2>7, AppendProperties
  <2>11. Distinct(Append(r, x))
    <3>1. SUFFICES ASSUME NEW i \in 1..(Len(r) + 1), NEW j \in 1..(Len(r) + 1), Append(r, x)[i] = Append(r, x)[j]
                   PROVE  i = j
      BY <2>10 DEF Distinct
    <3>2. (i \in 1..Len(r) \/ i = Len(r) + 1) /\ (j \in 1..Len(r) \/ j = Len(r) + 1)
      BY <2>7
    <3> QED
      BY <2>8, <2>9, <2>10, <3>1, <3>2 DEF Distinct
  <2> QED
    BY <2>4, <2>7, <2>9, <2>10, <2>11
<1>4. \A m \in Nat : m \in Z
  <2> HIDE DEF Z
  <2> QED
    BY <1>2, <1>3, NatInduct
<1>5. Good(n)
  BY <1>0, <1>4
<1> HIDE DEF T, n
<1> QED
  BY <1>1, <1>5

LEMMA MembersCount ==
  ASSUME NEW q, Listing(q), Distinct(q)
  PROVE  IsFiniteSet(Members(q)) /\ Cardinality(Members(q)) = Len(q)
<1> DEFINE n == Len(q)
           S == 1..n
<1>1. n \in Nat /\ q = [i \in S |-> q[i]]
  BY DEF Listing
<1>2. IsFiniteSet(S) /\ Cardinality(S) = n
  <2>1. 1 \in Int /\ n \in Int
    BY <1>1
  <2>2. IsFiniteSet(1..n) /\ Cardinality(1..n) = IF 1 > n THEN 0 ELSE n - 1 + 1
    BY <2>1, FS_Interval
  <2> QED
    BY <1>1, <2>2
<1> HIDE DEF S
<1>3. q \in [S -> Members(q)] /\ (\A a \in S, b \in S : q[a] = q[b] => a = b) /\ \A y \in Members(q) : \E i \in S : q[i] = y
  BY <1>1 DEF Members, Distinct, S
<1>4. q \in Bijection(S, Members(q))
  <2>1. q \in Injection(S, Members(q))
    BY <1>3 DEF Injection, IsInjective
  <2>2. q \in Surjection(S, Members(q))
    BY <1>3 DEF Surjection
  <2> QED
    BY <2>1, <2>2 DEF Bijection
<1>5. ExistsBijection(S, Members(q))
  BY <1>4 DEF ExistsBijection
<1>6. IsFiniteSet(Members(q)) /\ Cardinality(Members(q)) = Cardinality(S)
  BY <1>2, <1>5, FS_Bijection
<1> QED
  BY <1>2, <1>6

LEMMA SameMembersSameLength ==
  ASSUME NEW p, NEW q, Listing(p), Listing(q), Distinct(p), Distinct(q), Members(p) = Members(q)
  PROVE  Len(p) = Len(q)
BY MembersCount

LEMMA StableOrderDistinct ==
  ASSUME NEW current, NEW wanted, Listing(current), Listing(wanted), Distinct(current), Distinct(wanted)
  PROVE  Distinct(StableOrder(current, wanted))
<1> DEFINE W == Members(wanted)
           C == Members(current)
           a == Kept(current, W)
           b == Kept(wanted, W \ C)
<1>1. StableOrder(current, wanted) = a \o b
  <2>1. ToSet(wanted) = W /\ ToSet(current) = C
    BY ListingDomain DEF ToSet, Members
  <2> HIDE DEF W, C
  <2> QED
    BY <2>1 DEF StableOrder
<1>2. a \in Seq(C \cap W) /\ Distinct(a)
  <2> HIDE DEF W
  <2>1. IsKept(current, W, a)
    BY KeptIs
  <2> QED
    BY <2>1, KeptDistinct DEF IsKept
<1>3. b \in Seq(W \cap (W \ C)) /\ Distinct(b)
  <2> HIDE DEF C
  <2>1. IsKept(wanted, W \ C, b)
    BY KeptIs
  <2> QED
    BY <2>1, KeptDistinct DEF IsKept
<1> HIDE DEF W, C, a, b
<1>4. /\ \A i \in 1..Len(a) : a[i] \in C
      /\ \A i \in 1..Len(b) : b[i] \notin C
      /\ Len(a) \in Nat /\ Len(b) \in Nat
  BY <1>2, <1>3, SeqListing
<1>5. /\ Len(a \o b) = Len(a) + Len(b)
      /\ \A i \in 1..(Len(a) + Len(b)) : (a \o b)[i] = IF i <= Len(a) THEN a[i] ELSE b[i - Len(a)]
  <2>1. C \cap W \subseteq W /\ W \cap (W \ C) \subseteq W
    OBVIOUS
  <2>2. a \in Seq(W) /\ b \in Seq(W)
    BY <1>2, <1>3, <2>1, SeqSubset
  <2> QED
    BY <2>2, ConcatProperties
<1>6. ASSUME NEW i \in 1..(Len(a) + Len(b)), NEW j \in 1..(Len(a) + Len(b)), (a \o b)[i] = (a \o b)[j] PROVE i = j
  <2>1. CASE i <= Len(a) /\ j <= Len(a)
    <3>1. i \in 1..Len(a) /\ j \in 1..Len(a) /\ a[i] = a[j]
      BY <1>4, <1>5, <1>6, <2>1
    <3> QED
      BY <1>2, <3>1 DEF Distinct
  <2>2. CASE ~(i <= Len(a)) /\ ~(j <= Len(a))
    <3>1. i - Len(a) \in 1..Len(b) /\ j - Len(a) \in 1..Len(b) /\ b[i - Len(a)] = b[j - Len(a)]
      BY <1>4, <1>5, <1>6, <2>2
    <3>2. i - Len(a) = j - Len(a)
      BY <1>3, <3>1 DEF Distinct
    <3> QED
      BY <1>4, <3>2
  <2>3. CASE i <= Len(a) /\ ~(j <= Len(a))
    <3>1. i \in 1..Len(a) /\ j - Len(a) \in 1..Len(b) /\ a[i] = b[j - Len(a)]
      BY <1>4, <1>5, <1>6, <2>3
    <3> QED
      BY <1>4, <3>1
  <2>4. CASE ~(i <= Len(a)) /\ j <= Len(a)
    <3>1. i - Len(a) \in 1..Len(b) /\ j \in 1..Len(a) /\ b[i - Len(a)] = a[j]
      BY <1>4, <1>5, <1>6, <2>4
    <3> QED
      BY <1>4, <3>1
  <2> QED
    BY <2>1, <2>2, <2>3, <2>4
<1> QED
  BY <1>1, <1>5, <1>6 DEF Distinct

LEMMA Rearranged ==
  ASSUME NEW p, NEW q, Listing(p), Listing(q), Distinct(q), Members(p) = Members(q), Len(p) = Len(q)
  PROVE  Distinct(p)
<1> DEFINE S == 1..Len(p)
           T == Members(q)
<1>1. Len(p) \in Nat /\ p = [i \in S |-> p[i]]
  BY DEF Listing
<1>2. IsFiniteSet(S) /\ Cardinality(S) = Len(p)
  <2>1. 1 \in Int /\ Len(p) \in Int
    BY <1>1
  <2>2. IsFiniteSet(1..Len(p)) /\ Cardinality(1..Len(p)) = IF 1 > Len(p) THEN 0 ELSE Len(p) - 1 + 1
    BY <2>1, FS_Interval
  <2> QED
    BY <1>1, <2>2
<1>3. Cardinality(S) = Cardinality(T)
  BY <1>2, MembersCount
<1>4. T = {p[i] : i \in S}
  BY DEF Members
<1>6. Distinct(p) <=> \A a \in S, b \in S : p[a] = p[b] => a = b
  BY DEF Distinct
<1> HIDE DEF S, T
<1>5. p \in Surjection(S, T)
  BY <1>1, <1>4 DEF Surjection
<1>7. p \in Injection(S, T)
  BY <1>2, <1>3, <1>5, FS_SurjSameCardinalityImpliesInj
<1> QED
  BY <1>1, <1>6, <1>7 DEF Injection, IsInjective

LEMMA ItemsApart ==
  ASSUME NEW s, NEW items, Listable(s, items)
  PROVE  Listing(Identities(s, items)) /\ Distinct(Identities(s, items)) /\ Len(Identities(s, items)) = Len(items)
<1>1. Listing(items)
  BY DEF Listable
<1>2. /\ Len(items) \in Nat /\ Len(Identities(s, items)) = Len(items) /\ Listing(Identities(s, items))
      /\ \A i \in 1..Len(items) : Identities(s, items)[i] = Identity(s, items[i])
  BY <1>1, IdentitiesOf
<1> QED
  BY <1>2, DistinctItems DEF Distinct

\* A list section is written in an order that names each item once.
LEMMA WriteOrderDistinct ==
  ASSUME NEW s \in DOMAIN Codec, NEW current, Listing(current), Distinct(ElementIDs(current)),
         NEW items, Listable(s, items)
  PROVE  LET order == WriteOrder(s, current, items) IN
         Listing(order) /\ Distinct(order) /\ Len(order) = Len(items)
<1> DEFINE order == WriteOrder(s, current, items)
           ids == Identities(s, items)
<1>1. Listing(ids) /\ Distinct(ids) /\ Len(ids) = Len(items)
  BY ItemsApart
<1>2. Listing(order) /\ Members(order) = Members(ids)
  BY WriteOrderIs
<1>3. CASE s = "FirewallRules"
  <2>1. order = ids
    BY <1>3, WriteOrderIs
  <2> QED
    BY <1>1, <2>1
<1>4. CASE s = "StaticRoutes"
  <2> DEFINE sorted == SortedRoutes(items)
  <2>1. order = Identities(s, sorted)
    BY <1>4, OrderKinds DEF WriteOrder
  <2>2. PICK p : sorted = [i \in 1..Len(items) |-> items[p[i]]]
    BY <1>4, ListableRoutes, SortedRoutesAre
  <2>3. Len(items) \in Nat
    BY DEF Listable, Listing
  <2> HIDE DEF sorted
  <2>4. DOMAIN sorted = 1..Len(items) /\ sorted = [i \in DOMAIN sorted |-> sorted[i]]
    BY <2>2
  <2>5. Listing(sorted) /\ Len(sorted) = Len(items)
    BY <2>3, <2>4, ListingOf
  <2>6. Len(Identities(s, sorted)) = Len(items)
    BY <2>5, IdentitiesOf
  <2> HIDE DEF order, ids
  <2>7. Distinct(order) /\ Len(order) = Len(items)
    BY <1>1, <1>2, <2>1, <2>6, Rearranged
  <2> QED
    BY <1>2, <2>7 DEF order
<1>5. CASE s \notin {"FirewallRules", "StaticRoutes"}
  <2>1. Codec[s].order = "kept"
    BY <1>5, OrderKinds
  <2>2. order = StableOrder(ElementIDs(current), ids)
    BY <2>1 DEF WriteOrder
  <2>3. Listing(ElementIDs(current))
    BY IdsOf
  <2> HIDE DEF order, ids
  <2>4. Distinct(order)
    BY <1>1, <2>2, <2>3, StableOrderDistinct
  <2>5. Len(order) = Len(items)
    BY <1>1, <1>2, <2>4, SameMembersSameLength
  <2> QED
    BY <1>2, <2>4, <2>5 DEF order
<1> QED
  BY <1>3, <1>4, <1>5

LEMMA RowsRead ==
  ASSUME NEW s \in DOMAIN Codec, NEW x, NEW y,
         \A f \in DOMAIN Codec[s].row : ReadsAs(Codec[s].row[f][3], x[f], y[f])
  PROVE  /\ Identity(s, x) = Identity(s, y)
         /\ s = "StaticRoutes" => x.Network = y.Network /\ x.Metric = y.Metric
<1>1. PICK i \in DOMAIN Codec[s].fields :
        Codec[s].fields[i][1] = "ID" /\ Codec[s].fields[i][3] = IF s = "VLANs" THEN "number" ELSE "string"
  BY IdentityRow
<1>2. "ID" \in DOMAIN Codec[s].row /\ Codec[s].row["ID"][3] \in {"number", "string"}
  BY <1>1, EveryRow
<1>3. x["ID"] = y["ID"]
  BY <1>2 DEF ReadsAs, Stored
<1>4. Identity(s, x) = Identity(s, y)
  BY <1>3, IdentityRow
<1>5. ASSUME s = "StaticRoutes" PROVE x.Network = y.Network /\ x.Metric = y.Metric
  <2>1. \A f \in {"Metric", "Network"} : f \in DOMAIN Codec[s].row /\ Codec[s].row[f][3] \in {"int", "string"}
    BY <1>5, RouteRows
  <2> QED
    BY <2>1 DEF ReadsAs, Stored
<1> QED
  BY <1>4, <1>5

\* A list section whose elements have ids of their own reads back as many items as were
\* written, each with the identity and the fields of one of them, and no two with the same.
LEMMA ListReadsEach ==
  ASSUME NEW s \in DOMAIN Codec, NEW root, HoldsElements(s, root), Numbered(s, root), NEW items, Listable(s, items)
  PROVE  LET next == ListWrite(s, root, items)
             back == ListRead(s, next)
         IN /\ Numbered(s, next) /\ Listing(back) /\ Len(back) = Len(items)
            /\ Distinct(Identities(s, back)) /\ Members(Identities(s, back)) = Members(Identities(s, items))
<1> DEFINE path == Codec[s].path
           current == Elements(path, root)
           order == WriteOrder(s, current, items)
           q == NextElements(s, current, items)
           next == ListWrite(s, root, items)
           back == ListRead(s, next)
<1>1. ElementsOf(current)
  BY ElementsAre
<1>2. Listing(current) /\ Distinct(ElementIDs(current))
  BY <1>1 DEF ElementsOf, Numbered
<1>3. Listing(order) /\ Distinct(order) /\ Len(order) = Len(items) /\ Members(order) = Members(Identities(s, items))
  BY <1>2, WriteOrderDistinct, WriteOrderIs
<1>4. Elements(path, next) = q
  BY WrittenElements
<1>5. ElementIDs(q) = order /\ Listing(q) /\ Len(q) = Len(order)
  BY <1>1, NextIs
<1>6. Numbered(s, next)
  BY <1>3, <1>4, <1>5 DEF Numbered
<1>7. back = [i \in DOMAIN q |-> Decode(Codec[s].row, q[i])]
  BY <1>4 DEF ListRead
<1>8. DOMAIN q = 1..Len(q) /\ Len(q) \in Nat
  BY <1>5, ListingDomain DEF Listing
<1> HIDE DEF q, next
<1>9. DOMAIN back = 1..Len(q) /\ back = [i \in DOMAIN back |-> back[i]]
  BY <1>7, <1>8
<1>10. Listing(back) /\ Len(back) = Len(q)
  <2> HIDE DEF back
  <2> QED
    BY <1>8, <1>9, ListingOf
<1>11. ASSUME NEW i \in 1..Len(q) PROVE Identity(s, back[i]) = order[i]
  <2>1. PICK j \in 1..Len(items) :
          /\ order[i] = Identity(s, items[j])
          /\ q[i] = Encode(Codec[s].fields, items[j], Existing(current, order[i]))
    BY <1>1, <1>5, NextIs DEF q
  <2>2. PlainItem(s, items[j])
    BY DEF Listable
  <2>3. back[i] = Decode(Codec[s].row, Encode(Codec[s].fields, items[j], Existing(current, order[i])))
    BY <1>7, <1>8, <2>1
  <2>4. \A f \in DOMAIN Codec[s].row : ReadsAs(Codec[s].row[f][3], back[i][f], items[j][f])
    BY <2>2, <2>3, ElementReadsBack
  <2> HIDE DEF back
  <2> QED
    BY <2>1, <2>4, RowsRead
<1>12. Identities(s, back) = order
  <2> HIDE DEF back, order
  <2>1. /\ Identities(s, back) = [i \in 1..Len(q) |-> Identity(s, back[i])]
    BY <1>10, IdentitiesOf
  <2>2. order = [i \in 1..Len(q) |-> order[i]]
    BY <1>3, <1>5 DEF Listing
  <2> QED
    BY <1>11, <2>1, <2>2
<1> QED
  BY <1>3, <1>5, <1>6, <1>10, <1>12 DEF next

-----------------------------------------------------------------------------
(* A document whose sections name what they hold keeps that form.            *)

\* Only the clients that are written are added.
LEMMA PostedClientKeys ==
  ASSUME NEW d, FiniteKeys(d), NEW w, IsWrite(w)
  PROVE  DOMAIN Posted(d, w).clients \subseteq DOMAIN d.clients \cup (IF w.kind = "client" THEN {w.key} ELSE {})
<1>1. CASE w.kind = "client"
  <2>1. PICK record :
           Posted(d, w) = [site |-> d.site, device |-> d.device,
                           clients |-> Over([c \in {w.key} |-> Obj(Over(
                             [k \in ClientRecordFields \cup {"wired", "config"} |->
                                IF k = "config" THEN ClientConfig(w.value) ELSE w.value[k]], record))], d.clients)]
    BY <1>1, PostedClients
  <2>2. \A v : DOMAIN Over([c \in {w.key} |-> v], d.clients) = {w.key} \cup DOMAIN d.clients
    BY DEF Over
  <2> DEFINE v == Obj(Over([k \in ClientRecordFields \cup {"wired", "config"} |->
                             IF k = "config" THEN ClientConfig(w.value) ELSE w.value[k]], record))
  <2>3. Posted(d, w).clients = Over([c \in {w.key} |-> v], d.clients)
    BY <2>1
  <2> HIDE DEF v
  <2> QED
    BY <1>1, <2>2, <2>3
<1>2. CASE w.kind # "client"
  <2>1. w.kind = "site" \/ w.kind = "device"
    BY <1>2 DEF IsWrite, Kinds
  <2>2. Posted(d, w).clients = d.clients
    BY <2>1 DEF Posted, FiniteKeys
  <2> QED
    BY <2>2
<1> QED
  BY <1>1, <1>2

LEMMA PostClientKeys ==
  ASSUME NEW d, FiniteKeys(d), NEW W, IsWrites(W), NEW T, DOMAIN d.clients \subseteq T,
         \A w \in W : w.kind = "client" => w.key \in T
  PROVE  DOMAIN Post(d, W).clients \subseteq T
<1>0. PICK n, q, f : IsRun(d, W, n, q, f)
  BY PostRuns DEF IsWrites
<1>1. /\ n \in Nat /\ q \in [1..n -> W]
      /\ f[0] = d /\ f[n] = Post(d, W)
      /\ \A i \in 1..n : f[i] = Posted(f[i - 1], q[i])
  BY <1>0 DEF IsRun
<1> DEFINE S == {i \in Nat : i <= n => FiniteKeys(f[i]) /\ DOMAIN f[i].clients \subseteq T}
<1>2. 0 \in S
  BY <1>1
<1>3. ASSUME NEW i \in Nat, i \in S PROVE i + 1 \in S
  <2>1. SUFFICES ASSUME i + 1 <= n PROVE FiniteKeys(f[i + 1]) /\ DOMAIN f[i + 1].clients \subseteq T
    OBVIOUS
  <2>2. i <= n /\ i + 1 \in 1..n /\ i + 1 - 1 = i
    BY <1>1, <2>1
  <2>3. f[i + 1] = Posted(f[i], q[i + 1]) /\ q[i + 1] \in W
    BY <1>1, <2>2
  <2>4. IsWrite(q[i + 1])
    BY <2>3 DEF IsWrites
  <2>5. FiniteKeys(f[i]) /\ DOMAIN f[i].clients \subseteq T
    BY <1>3, <2>2
  <2>6. FiniteKeys(f[i + 1])
    BY <2>3, <2>4, <2>5, PostedTells
  <2>7. DOMAIN f[i + 1].clients \subseteq T
    BY <2>3, <2>4, <2>5, PostedClientKeys
  <2> QED
    BY <2>6, <2>7
<1>4. n \in S
  <2> HIDE DEF S
  <2> QED
    BY <1>1, <1>2, <1>3, NatInduct
<1> QED
  BY <1>1, <1>4

LEMMA SaysReady ==
  ASSUME NEW e, Ready(e), NEW u, IsDocument(u), Formed(u),
         \A kind \in Kinds : \A key : Says(u, kind, key) = Says(e, kind, key)
  PROVE  Ready(u)
<1>1. (\A k : At(e.site, k) = At(u.site, k)) /\ (\A k : At(e.device, k) = At(u.device, k))
  BY SaysSame
<1>2. \A s \in DOMAIN Codec : HoldsElements(s, u.site)
  <2> TAKE s \in DOMAIN Codec
  <2>1. Len(Codec[s].path) \in Nat \ {0}
    BY Paths
  <2>2. Node(e.site, Codec[s].path) = Node(u.site, Codec[s].path)
    BY <1>1, <2>1, NodeSame
  <2> QED
    BY <2>2 DEF Ready, HoldsElements
<1>3. IsDevice(u.device)
  <2>1. Len(PortsPath) \in Nat \ {0}
    BY DEF PortsPath
  <2>2. PortsOf(e.device) = PortsOf(u.device)
    BY <1>1, <2>1, NodeSame DEF PortsOf
  <2> QED
    BY <2>2, DevicePorts DEF Ready
<1> QED
  BY <1>2, <1>3 DEF Ready, Formed

LEMMA SaysRegular ==
  ASSUME NEW e, Regular(e), NEW u, Ready(u), DOMAIN u.clients \subseteq DOMAIN MACOf,
         \A kind \in Kinds : \A key : Says(u, kind, key) = Says(e, kind, key)
  PROVE  Regular(u)
<1>1. \A k : At(e.site, k) = At(u.site, k)
  BY SaysSame
<1>2. ASSUME NEW s \in DOMAIN Codec PROVE Elements(Codec[s].path, u.site) = Elements(Codec[s].path, e.site)
  <2>1. Len(Codec[s].path) \in Nat \ {0}
    BY Paths
  <2>2. Node(e.site, Codec[s].path) = Node(u.site, Codec[s].path)
    BY <1>1, <2>1, NodeSame
  <2> QED
    BY <2>2 DEF Elements
<1>3. \A s \in DOMAIN Codec : Numbered(s, u.site)
  BY <1>2 DEF Numbered, Regular
<1>4. ListRead("StaticRoutes", u.site) = ListRead("StaticRoutes", e.site)
  <2>1. "StaticRoutes" \in DOMAIN Codec
    BY DEF Codec
  <2> QED
    BY <1>1, <2>1, ListReadSame
<1> QED
  BY <1>3, <1>4 DEF Regular

\* What is applied to a document of this form is of this form, and each list it writes reads
\* back as many items as were asked for, each of an identity of its own.
EachAsAsked(s, items, back) ==
  /\ Listing(back) /\ Len(back) = Len(items)
  /\ Distinct(Identities(s, back)) /\ Members(Identities(s, back)) = Members(Identities(s, items))

LEMMA WrittenEach ==
  ASSUME NEW c, Fits(c), NEW d, Regular(d), NEW s \in DOMAIN Codec, c[s] # <<>>, NEW e, WrittenOver(c, s, d, e)
  PROVE  Numbered(s, e.site) /\ EachAsAsked(s, c[s][1], ListRead(s, e.site))
<1> DEFINE items == c[s][1]
<1>1. PICK x : Ready(x) /\ Aside(s, d, x) /\ Aside(s, Overlay(c, x, s), e)
  BY DEF WrittenOver
<1>2. s # "SwitchPorts" /\ s # "DHCPReservations"
  BY DEF Codec
<1>3. x = [site |-> x.site, device |-> x.device, clients |-> x.clients]
  BY <1>1 DEF Ready, IsDocument, FiniteKeys
<1>4. Overlay(c, x, s).site = ListWrite(s, x.site, items)
  BY <1>2, <1>3 DEF Overlay, WriteSection
<1>5. ListAside(s, d.site, x.site) /\ ListAside(s, ListWrite(s, x.site, items), e.site)
  BY <1>1, <1>4 DEF Aside
<1>6. Listable(s, items) /\ HoldsElements(s, x.site) /\ Numbered(s, d.site)
  BY <1>1 DEF Fits, Ready, Regular
<1> HIDE DEF items
<1>7. Numbered(s, x.site)
  BY <1>5, <1>6, AsideOf DEF Numbered
<1>8. /\ Numbered(s, ListWrite(s, x.site, items))
      /\ EachAsAsked(s, items, ListRead(s, ListWrite(s, x.site, items)))
  BY <1>6, <1>7, ListReadsEach DEF EachAsAsked
<1>9. /\ Elements(Codec[s].path, e.site) = Elements(Codec[s].path, ListWrite(s, x.site, items))
      /\ ListRead(s, e.site) = ListRead(s, ListWrite(s, x.site, items))
  BY <1>5, AsideOf
<1> QED
  BY <1>8, <1>9 DEF Numbered, items

LEMMA AppliedIsRegular ==
  ASSUME NEW c, Fits(c), NEW d, Regular(d), c["SwitchPorts"] # <<>> => d.device # Null
  PROVE  LET e == Apply(c, d) IN
         /\ Regular(e)
         /\ \A s \in DOMAIN Codec : c[s] # <<>> => EachAsAsked(s, c[s][1], ListRead(s, e.site))
<1> DEFINE e == Apply(c, d)
<1>0. Ready(d)
  BY DEF Regular
<1>1. /\ Ready(e)
      /\ \A s \in ToSet(Sections) : IF c[s] = <<>> THEN Aside(s, d, e) ELSE WrittenOver(c, s, d, e)
  BY <1>0, AppliedSections
<1>2. \A s \in ToSet(Sections) :
        IF c[s] = <<>> THEN ReadSection(s, e) = ReadSection(s, d)
        ELSE ReadsBack(s, c[s][1], ReadSection(s, d), ReadSection(s, e))
  BY <1>0, ApplyReads
<1> HIDE DEF e
<1>3. DOMAIN Codec \subseteq ToSet(Sections) /\ "StaticRoutes" \in DOMAIN Codec /\ "DHCPReservations" \in ToSet(Sections)
  BY DEF Codec, Sections, ToSet
<1>4. ASSUME NEW s \in DOMAIN Codec
      PROVE  Numbered(s, e.site) /\ (c[s] # <<>> => EachAsAsked(s, c[s][1], ListRead(s, e.site)))
  <2>1. CASE c[s] = <<>>
    <3>1. ListAside(s, d.site, e.site)
      BY <1>1, <1>3, <2>1 DEF Aside
    <3> QED
      BY <2>1, <3>1, AsideOf DEF Numbered, Regular
  <2>2. CASE c[s] # <<>>
    <3>1. WrittenOver(c, s, d, e)
      BY <1>1, <1>3, <2>2
    <3> QED
      BY <2>2, <3>1, WrittenEach
  <2> QED
    BY <2>1, <2>2
<1>5. Placed(ListRead("StaticRoutes", e.site))
  <2> DEFINE s == "StaticRoutes"
             back == ListRead(s, e.site)
  <2>1. \A x : ReadSection(s, x) = ListRead(s, x.site)
    BY DEF ReadSection
  <2>2. CASE c[s] = <<>>
    <3>1. back = ListRead(s, d.site)
      BY <1>2, <1>3, <2>1, <2>2
    <3> QED
      BY <3>1 DEF Regular
  <2>3. CASE c[s] # <<>>
    <3> DEFINE items == c[s][1]
    <3>1. Listable(s, items)
      BY <1>3, <2>3 DEF Fits
    <3>2. ListAsAsked(s, items, back)
      BY <1>2, <1>3, <2>1, <2>3 DEF ReadsBack
    <3> HIDE DEF items, back
    <3>3. ASSUME NEW i \in 1..Len(back) PROVE back[i].Network \in ToSet(Lexical)
      <4>1. PICK j \in 1..Len(items) :
              \A f \in DOMAIN Codec[s].row : ReadsAs(Codec[s].row[f][3], back[i][f], items[j][f])
        BY <3>2 DEF ListAsAsked
      <4>2. back[i].Network = items[j].Network
        BY <1>3, <4>1, RowsRead
      <4> QED
        BY <3>1, <4>2 DEF Listable
    <3> QED
      BY <3>3 DEF Placed, back
  <2> QED
    BY <2>2, <2>3
<1>6. DOMAIN e.clients \subseteq DOMAIN MACOf
  <2> DEFINE s == "DHCPReservations"
  <2>1. CASE c[s] = <<>>
    BY <1>1, <1>3, <2>1 DEF Aside, Regular
  <2>2. CASE c[s] # <<>>
    <3> DEFINE items == c[s][1]
    <3>1. PICK x : Ready(x) /\ Aside(s, d, x) /\ Aside(s, Overlay(c, x, s), e)
      BY <1>1, <1>3, <2>2 DEF WrittenOver
    <3>2. x = [site |-> x.site, device |-> x.device, clients |-> x.clients]
      BY <3>1 DEF Ready, IsDocument, FiniteKeys
    <3>3. Overlay(c, x, s).clients = WriteReservations(x.clients, items)
      BY <2>2, <3>2 DEF Overlay, WriteSection
    <3>4. x.clients = d.clients /\ e.clients = WriteReservations(x.clients, items)
      BY <3>1, <3>3 DEF Aside
    <3>5. \A r \in ToSet(items) : ClientOf[r.MAC] \in DOMAIN MACOf
      BY <2>2 DEF Fits, Reservable
    <3> HIDE DEF items
    <3>6. DOMAIN e.clients = DOMAIN d.clients \cup WantedClients(items)
      BY <3>4, ReservationsWritten
    <3> QED
      BY <3>5, <3>6 DEF WantedClients, Regular
  <2> QED
    BY <2>1, <2>2
<1> QED
  BY <1>1, <1>4, <1>5, <1>6 DEF Regular, e

\* The clients that the writes of a plan are about are the ones of the document written.
LEMMA PlanRegular ==
  ASSUME NEW c, Fits(c), NEW d, Regular(d), c["SwitchPorts"] # <<>> => d.device # Null
  PROVE  LET u == Post(d, Plan(c, d)) IN
         /\ Regular(u) /\ Read(u) = Read(Apply(c, d))
         /\ \A s \in DOMAIN Codec : c[s] # <<>> => EachAsAsked(s, c[s][1], ListRead(s, u.site))
<1> DEFINE u == Post(d, Plan(c, d))
           e == Apply(c, d)
<1>1. Ready(d) /\ FiniteKeys(d) /\ DOMAIN d.clients \subseteq DOMAIN MACOf
  BY DEF Regular, Ready, IsDocument
<1>2. /\ Ready(u) /\ Read(u) = Read(e)
      /\ \A kind \in Kinds : \A key : Says(u, kind, key) = Says(e, kind, key)
  BY <1>1, PlanReadies
<1>3. /\ Regular(e)
      /\ \A s \in DOMAIN Codec : c[s] # <<>> => EachAsAsked(s, c[s][1], ListRead(s, e.site))
  BY AppliedIsRegular
<1>4. IsWrites(Plan(c, d))
  BY <1>1, <1>3, WritesAreWrites DEF Plan, Regular, Ready, IsDocument
<1>5. \A w \in Plan(c, d) : w.kind = "client" => w.key \in DOMAIN MACOf
  BY <1>3 DEF Plan, Writes, Write, Regular
<1> HIDE DEF e
<1>6. DOMAIN u.clients \subseteq DOMAIN MACOf
  BY <1>1, <1>4, <1>5, PostClientKeys
<1> HIDE DEF u
<1>7. Regular(u)
  BY <1>2, <1>3, <1>6, SaysRegular
<1>8. \A s \in DOMAIN Codec : ListRead(s, u.site) = ListRead(s, e.site)
  BY <1>2, SaysSame, ListReadSame
<1> QED
  BY <1>2, <1>3, <1>7, <1>8 DEF u, e

\* A rollback writes to the clients that the plan wrote to.
LEMMA UndoneIsRegular ==
  ASSUME NEW c, Fits(c), NEW d, Regular(d), c["SwitchPorts"] # <<>> => d.device # Null
  PROVE  LET u == Post(Post(d, Plan(c, d)), PreImages(d, Plan(c, d))) IN
         /\ Regular(u)
         /\ \A kind \in Kinds : \A key : Says(u, kind, key) = Says(d, kind, key)
<1> DEFINE e == Apply(c, d)
           W == Plan(c, d)
           P == PreImages(d, W)
           v == Post(d, W)
           u == Post(v, P)
<1>1. Ready(d) /\ FiniteKeys(d) /\ IsDocument(d)
  BY DEF Regular, Ready, IsDocument
<1>2. Regular(e)
  BY AppliedIsRegular
<1>3. IsDocument(e)
  BY <1>2 DEF Regular, Ready
<1>4. W = Writes(e, d)
  BY DEF Plan
<1>5. IsWrites(W) /\ \A w \in W : w.kind = "client" => w.key \in DOMAIN MACOf
  BY <1>1, <1>2, <1>3, <1>4, WritesAreWrites DEF Writes, Write, Regular, IsDocument
<1>6. Regular(v)
  BY PlanRegular
<1>7. IsDocument(u)
  BY <1>1, <1>3, <1>4, UndoneReadsTheSame
<1> HIDE DEF e, W
<1>8. /\ IsWrites(P)
      /\ \A p \in P : \E w \in W : w.kind = p.kind /\ w.key = p.key
  BY <1>5, PreImagesTell
<1>9. \A kind \in Kinds : \A key : Says(u, kind, key) = Says(d, kind, key)
  BY <1>1, <1>5, PreImagesUndo
<1> HIDE DEF P, v
<1>10. FiniteKeys(v) /\ Formed(v) /\ DOMAIN v.clients \subseteq DOMAIN MACOf
  BY <1>6 DEF Regular, Ready, IsDocument, Formed
<1>11. Formed(u)
  BY <1>8, <1>10, PostIsFormed
<1>12. DOMAIN u.clients \subseteq DOMAIN MACOf
  BY <1>5, <1>8, <1>10, PostClientKeys
<1> HIDE DEF u
<1>13. Ready(u)
  BY <1>1, <1>7, <1>9, <1>11, SaysReady
<1>14. Regular(u)
  BY <1>9, <1>12, <1>13, SaysRegular
<1> QED
  BY <1>9, <1>14 DEF u, v, P, W

-----------------------------------------------------------------------------
(* What a section reads as, and what a list of items becomes.                *)

\* A decoded value has its row's type.
LEMMA DecodedIsPlain ==
  ASSUME NEW e, NEW k, Listing(Entries(At(e, k))), NEW kind \in FieldKinds
  PROVE  Plain(kind, DecodeField(e, k, kind))
<1>1. AsInt(At(e, k)) \in Numbers \cup {NoInt} /\ 0 \in Numbers /\ NoInt \notin Numbers
  BY ZeroIsANumber, DecimalAssumption DEF AsInt, Numbers, NoInt
<1>2. CASE kind = "string" \/ kind = "csv"
  BY <1>2 DEF Plain
<1>3. CASE kind = "int" \/ kind = "number"
  BY <1>1, <1>3 DEF Plain, DecodeField
<1>4. CASE kind = "flag" \/ kind = "noflag"
  BY <1>4 DEF Plain, DecodeField, AsFlag
<1>5. CASE kind = "tri"
  BY <1>5 DEF Plain, DecodeField
<1>6. CASE kind = "set"
  <2> DEFINE entries == Entries(At(e, k))
             q == [i \in DOMAIN entries |-> AsString(entries[i])]
  <2>1. DecodeField(e, k, kind) = q
    BY <1>6 DEF DecodeField, AsStrings
  <2>2. Len(entries) \in Nat /\ DOMAIN q = 1..Len(entries) /\ q = [i \in DOMAIN q |-> q[i]]
    BY ListingDomain DEF Listing
  <2> HIDE DEF q, entries
  <2>3. Listing(q)
    BY <2>2, ListingOf
  <2> QED
    BY <1>6, <2>1, <2>3 DEF Plain
<1>7. CASE kind = "endpoint"
  BY <1>7 DEF Plain, DecodeField, DecodeEndpoint
<1> QED
  BY <1>2, <1>3, <1>4, <1>5, <1>6, <1>7 DEF FieldKinds

LEMMA ElementEntries ==
  ASSUME NEW e, IsElement(e), NEW k
  PROVE  Listing(Entries(At(e, k)))
<1>1. Listing(Entries(Null))
  BY NothingAtNull DEF Listing
<1> QED
  BY <1>1 DEF IsElement, IsValue, At

LEMMA DecodedItem ==
  ASSUME NEW s \in DOMAIN Codec, NEW e, IsElement(e)
  PROVE  PlainItem(s, Decode(Codec[s].row, e))
<1> SUFFICES ASSUME NEW f \in DOMAIN Codec[s].row PROVE Plain(Codec[s].row[f][3], Decode(Codec[s].row, e)[f])
  BY DEF PlainItem
<1>1. Codec[s].row[f][3] \in FieldKinds
  <2>1. PICK i \in DOMAIN Codec[s].fields : Codec[s].row[f] = Codec[s].fields[i] /\ Codec[s].fields[i][3] # "destination"
    BY Codecs
  <2>2. Table(Codec[s].fields)
    BY Codecs
  <2> QED
    BY <2>1, <2>2 DEF Table
<1>2. Decode(Codec[s].row, e)[f] = DecodeField(e, Codec[s].row[f][2], Codec[s].row[f][3])
  BY DEF Decode
<1> QED
  BY <1>1, <1>2, DecodedIsPlain, ElementEntries

LEMMA PortIsPlain ==
  ASSUME NEW n \in Numbers, NEW o, IsPort(o)
  PROVE  PlainPort(PortAs(n, o))
<1> DEFINE v == At(At(o, "allowedVlans"), "list")
<1>1. AsInt(At(o, "vlan")) \in Numbers \cup {NoInt}
  BY DEF AsInt, Numbers
<1>2. IntList(AsInts(v))
  <2>1. \A x : AsInt(x) # NoInt => AsInt(x) \in Numbers
    BY DEF AsInt, Numbers
  <2>2. CASE AllInts(v)
    <3> DEFINE q == [i \in DOMAIN Entries(v) |-> AsInt(Entries(v)[i])]
    <3>1. AsInts(v) = q
      BY <2>2 DEF AsInts
    <3>2. \A i \in DOMAIN q : q[i] \in Numbers
      BY <2>1, <2>2 DEF AllInts
    <3>3. Listing(Entries(v))
      BY DEF IsPort
    <3>4. Len(Entries(v)) \in Nat /\ DOMAIN q = 1..Len(Entries(v)) /\ q = [i \in DOMAIN q |-> q[i]]
      BY <3>3, ListingDomain DEF Listing
    <3> HIDE DEF q, v
    <3>5. Listing(q)
      BY <3>4, ListingOf
    <3> QED
      BY <3>1, <3>2, <3>5 DEF IntList
  <2>3. CASE ~AllInts(v)
    BY <2>3 DEF IntList, AsInts, Listing
  <2> QED
    BY <2>2, <2>3
<1>3. AsFlag(At(At(o, "allowedVlans"), "all")) \in BOOLEAN
  BY DEF AsFlag
<1> HIDE DEF v
<1> QED
  BY <1>1, <1>2, <1>3 DEF PlainPort, PortAs, v

\* The reservations of a regular document are those of its clients that have an address.
LEMMA ReservationsOf ==
  ASSUME NEW d, Regular(d)
  PROVE  LET back == ReadReservations(d.clients) IN
         /\ Listing(back) /\ \A i \in 1..Len(back) : back[i] \in Reserved(d.clients)
         /\ \A x \in Reserved(d.clients) : \E i \in 1..Len(back) : back[i] = x
<1> DEFINE back == ReadReservations(d.clients)
<1>0. Ready(d) /\ IsDocument(d)
  BY DEF Regular, Ready
<1>1. \A c \in DOMAIN d.clients : c \in DOMAIN MACOf /\ MACOf[c] \in ToSet(Lexical)
  BY MACAssumption DEF Regular
<1>2. IsFiniteSet(Reserved(d.clients))
  <2> DEFINE K == {k \in DOMAIN d.clients : IPRead(d.clients[k]) # ""}
             f == [c \in K |-> [MAC |-> MACOf[c], IP |-> IPRead(d.clients[c])]]
  <2>1. IsFiniteSet(K)
    BY <1>0, FS_Subset DEF IsDocument, FiniteKeys
  <2>2. DOMAIN f = K /\ Reserved(d.clients) = {f[c] : c \in K}
    BY DEF Reserved
  <2> HIDE DEF f, K
  <2> QED
    BY <2>1, <2>2, FiniteImage
<1>3. PICK n \in Nat : /\ back \in [1..n -> Reserved(d.clients)]
                       /\ \A x \in Reserved(d.clients) : \E i \in 1..n : back[i] = x
  BY <1>1, <1>2, ReservationsRead
<1>4. Listing(back) /\ Len(back) = n
  <2>1. DOMAIN back = 1..n /\ back = [i \in DOMAIN back |-> back[i]]
    BY <1>3
  <2> HIDE DEF back
  <2> QED
    BY <2>1, ListingOf
<1> HIDE DEF back
<1> QED
  BY <1>3, <1>4 DEF back

\* What a section of a regular document reads as is what a section is written from.
LEMMA ReadIsSection ==
  ASSUME NEW d, Regular(d), NEW s \in ToSet(Sections)
  PROVE  IsSection(s, ReadSection(s, d))
<1>0. Ready(d) /\ IsDocument(d)
  BY DEF Regular, Ready
<1>1. CASE s \in DOMAIN Codec
  <2> DEFINE q == Elements(Codec[s].path, d.site)
             back == ListRead(s, d.site)
  <2>1. Listing(q) /\ DOMAIN q = 1..Len(q)
    BY <1>0, <1>1, ElementsAre, ListingDomain DEF Ready, ElementsOf
  <2>2. back = [i \in 1..Len(q) |-> Decode(Codec[s].row, q[i])]
    BY <2>1 DEF ListRead
  <2>3. Listing(back) /\ Len(back) = Len(q)
    <3> HIDE DEF q, back
    <3>1. Len(q) \in Nat
      BY <2>1 DEF Listing
    <3>2. DOMAIN back = 1..Len(q) /\ back = [i \in DOMAIN back |-> back[i]]
      BY <2>2
    <3> QED
      BY <3>1, <3>2, ListingOf
  <2>4. \A i \in 1..Len(back) : PlainItem(s, back[i])
    <3>1. \A i \in 1..Len(q) : IsElement(q[i])
      BY <1>0, <1>1, ElementsAre DEF Ready, ElementsOf
    <3> HIDE DEF q, back
    <3> QED
      BY <1>1, <2>2, <2>3, <3>1, DecodedItem
  <2>5. s = "StaticRoutes" => \A i \in 1..Len(back) : back[i].Network \in ToSet(Lexical)
    BY DEF Regular, Placed
  <2>6. s # "SwitchPorts" /\ s # "DHCPReservations"
    BY <1>1 DEF Codec
  <2>7. ReadSection(s, d) = back
    BY <2>6 DEF ReadSection
  <2> HIDE DEF back
  <2> QED
    BY <2>3, <2>4, <2>5, <2>6, <2>7 DEF IsSection, IsItem
<1>2. CASE s = "SwitchPorts"
  <2>1. IsFiniteSet(DOMAIN Fields(PortsOf(d.device)))
    BY <1>0 DEF IsDocument, PortsOf
  <2>2. PICK n \in Nat : \E p :
           /\ ReadSwitchPorts(d.device) = [i \in 1..n |-> PortAs(p[i], At(PortsOf(d.device), ToString(p[i])))]
           /\ p \in [1..n -> PortNumbers(d.device)]
    BY <2>1, PortsRead
  <2>7. PICK p :
           /\ ReadSwitchPorts(d.device) = [i \in 1..n |-> PortAs(p[i], At(PortsOf(d.device), ToString(p[i])))]
           /\ p \in [1..n -> PortNumbers(d.device)]
    BY <2>2
  <2> DEFINE back == ReadSwitchPorts(d.device)
  <2>3. Listing(back) /\ Len(back) = n
    <3>1. DOMAIN back = 1..n /\ back = [i \in DOMAIN back |-> back[i]]
      BY <2>2
    <3> HIDE DEF back
    <3> QED
      BY <3>1, ListingOf
  <2>4. PortNumbers(d.device) \subseteq Numbers
    BY DEF PortNumbers, Numbers
  <2>8. \A k : IsPort(At(PortsOf(d.device), k))
    BY <1>0, DevicePorts DEF Ready
  <2>5. \A i \in 1..n : PlainPort(back[i])
    BY <2>7, <2>8, <2>4, PortIsPlain
  <2>6. ReadSection(s, d) = back /\ s \notin DOMAIN Codec /\ s # "StaticRoutes"
    BY <1>2 DEF ReadSection, Codec
  <2> HIDE DEF back
  <2> QED
    BY <2>3, <2>5, <2>6 DEF IsSection, IsItem
<1>3. CASE s = "DHCPReservations"
  <2> DEFINE back == ReadReservations(d.clients)
  <2>2. Listing(back)
    BY ReservationsOf
  <2>3. ReadSection(s, d) = back /\ s \notin DOMAIN Codec
    BY <1>3 DEF ReadSection, Codec
  <2> QED
    BY <1>3, <2>2, <2>3 DEF IsSection, IsItem
<1> QED
  BY <1>1, <1>2, <1>3 DEF Sections, ToSet, Codec

-----------------------------------------------------------------------------
(* What the handlers ask is a configuration the sections are written from.   *)

ByText(S) == {w \in S \X S : Before(w[1], w[2])}

LEMMA TextsOrder ==
  ASSUME NEW S, S \subseteq ToSet(Lexical)
  PROVE  IsOrder(S, ByText(S))
<1> DEFINE R == ByText(S)
<1>1. \A x, y \in S : <<x, y>> \in R <=> Place(x) < Place(y)
  BY PlaceOf DEF ByText
<1>2. \A x \in S : Place(x) \in Nat
  BY PlaceOf
<1>3. \A x, y \in S : x # y => Place(x) # Place(y)
  BY PlacesApart
<1> HIDE DEF R
<1>4. ASSUME NEW x \in S PROVE <<x, x>> \notin R
  BY <1>1, <1>2
<1>5. ASSUME NEW x \in S, NEW y \in S, x # y PROVE <<x, y>> \in R \/ <<y, x>> \in R
  BY <1>1, <1>2, <1>3, <1>5
<1>6. ASSUME NEW x \in S, NEW y \in S, NEW z \in S, <<x, y>> \in R, <<y, z>> \in R PROVE <<x, z>> \in R
  BY <1>1, <1>2, <1>6
<1> QED
  BY <1>4, <1>5, <1>6 DEF IsOrder, R

LEMMA TextsSorted ==
  ASSUME NEW S, IsFiniteSet(S), S \subseteq ToSet(Lexical)
  PROVE  /\ Cardinality(S) \in Nat
         /\ Sorted(S, Before) \in [1..Cardinality(S) -> S]
         /\ \A x \in S : \E i \in 1..Cardinality(S) : Sorted(S, Before)[i] = x
         /\ \A i, j \in 1..Cardinality(S) : Sorted(S, Before)[i] = Sorted(S, Before)[j] => i = j
<1> DEFINE R == ByText(S)
           n == Cardinality(S)
           p == [i \in 1..n |-> CHOOSE x \in S : Cardinality({y \in S : Before(y, x)}) = i - 1]
<1>1. n \in Nat
  BY FS_CardinalityType
<1>2. IsOrder(S, R)
  BY TextsOrder
<1>3. ASSUME NEW x \in S PROVE Rank(S, R, x) = Cardinality({y \in S : Before(y, x)})
  <2>1. {y \in S : <<y, x>> \in R} = {y \in S : Before(y, x)}
    BY DEF ByText
  <2> QED
    BY <2>1 DEF Rank
<1>4. p = [i \in 1..n |-> p[i]]
  <2> DEFINE at(i) == CHOOSE x \in S : Cardinality({y \in S : Before(y, x)}) = i - 1
  <2>1. p = [i \in 1..n |-> at(i)]
    OBVIOUS
  <2> HIDE DEF at, p, n
  <2> QED
    BY <2>1
<1>5. ASSUME NEW i \in 1..n, \E x \in S : Rank(S, R, x) = i - 1
      PROVE  p[i] \in S /\ Rank(S, R, p[i]) = i - 1
  <2> DEFINE P(x) == Cardinality({y \in S : Before(y, x)}) = i - 1
  <2>1. p[i] = CHOOSE x \in S : P(x)
    OBVIOUS
  <2>2. \A x \in S : P(x) <=> Rank(S, R, x) = i - 1
    BY <1>3
  <2> HIDE DEF P, R, p
  <2>3. p[i] \in S /\ P(p[i])
    BY <1>5, <2>1, <2>2
  <2> QED
    BY <2>2, <2>3
<1>6. Sorted(S, Before) = p
  BY DEF Sorted
<1> HIDE DEF p
<1>7. Lists(S, R, p)
  BY <1>2, <1>4, <1>5, SortedLists
<1>8. \A i, j \in 1..n : p[i] = p[j] => i = j
  <2> SUFFICES ASSUME NEW i \in 1..n, NEW j \in 1..n, p[i] = p[j], i # j PROVE FALSE
    OBVIOUS
  <2>1. <<p[i], p[j]>> \in R \/ <<p[j], p[i]>> \in R
    BY <1>1, <1>7 DEF Lists
  <2>2. p[i] \in S
    BY <1>7 DEF Lists
  <2> QED
    BY <1>2, <2>1, <2>2 DEF IsOrder
<1> QED
  BY <1>1, <1>6, <1>7, <1>8 DEF Lists

\* The items of a section of alta_router_config, and the key of each.
LEMMA MapConverts ==
  ASSUME NEW s, NEW section, IsFiniteSet(DOMAIN section), DOMAIN section \subseteq ToSet(Lexical)
  PROVE  LET items == ConvertMap(s, section)
             entry(k) == Item(s, KeyOf(s, k), section[k])
         IN /\ Listing(items) /\ DOMAIN items = 1..Len(items)
            /\ \A i \in 1..Len(items) : \E k \in DOMAIN section : items[i] = entry(k)
            /\ \A k \in DOMAIN section : \E i \in 1..Len(items) : items[i] = entry(k)
<1> DEFINE S == DOMAIN section
           keys == Sorted(S, Before)
           n == Cardinality(S)
           items == ConvertMap(s, section)
<1>1. n \in Nat /\ keys \in [1..n -> S] /\ (\A x \in S : \E i \in 1..n : keys[i] = x)
  BY TextsSorted
<1>2. items = [i \in 1..n |-> Item(s, KeyOf(s, keys[i]), section[keys[i]])]
  BY <1>1 DEF ConvertMap
<1> HIDE DEF keys, items
<1>3. DOMAIN items = 1..n /\ items = [i \in DOMAIN items |-> items[i]]
  BY <1>2
<1>4. Listing(items) /\ Len(items) = n
  BY <1>1, <1>3, ListingOf
<1>5. \A i \in 1..n : items[i] = Item(s, KeyOf(s, keys[i]), section[keys[i]]) /\ keys[i] \in S
  BY <1>1, <1>2
<1>6. \A k \in S : \E i \in 1..n : items[i] = Item(s, KeyOf(s, k), section[k])
  BY <1>1, <1>5
<1> QED
  BY <1>3, <1>4, <1>5, <1>6 DEF items

\* What alta_router_config asks, unless a key of it is refused.
LEMMA AskedIsConfig ==
  ASSUME NEW m, Askable(m), ~ToConfigError(m)
  PROVE  IsConfig(ToConfig(m))
<1> SUFFICES ASSUME NEW s \in ToSet(Sections), ToConfig(m)[s] # <<>> PROVE IsSection(s, ToConfig(m)[s][1])
  BY DEF IsConfig
<1>1. m[s] # <<>>
  BY DEF ToConfig
<1>2. CASE s = "FirewallRules"
  <2> DEFINE rules == m[s][1]
             items == [i \in DOMAIN rules |-> Item(s, Value(rules[i].ID, ""), rules[i])]
  <2>1. Listing(rules) /\ \A i \in 1..Len(rules) : IsItem(s, Item(s, Value(rules[i].ID, ""), rules[i]))
    BY <1>1, <1>2 DEF Askable
  <2>2. ToConfig(m)[s] = <<items>>
    BY <1>1, <1>2 DEF ToConfig
  <2>3. DOMAIN rules = 1..Len(rules) /\ Len(rules) \in Nat
    BY <2>1, ListingDomain DEF Listing
  <2> HIDE DEF rules
  <2>4. DOMAIN items = 1..Len(rules) /\ items = [i \in DOMAIN items |-> items[i]]
    BY <2>3
  <2>5. \A i \in 1..Len(rules) : IsItem(s, items[i])
    BY <2>1, <2>3
  <2> HIDE DEF items
  <2>6. Listing(items) /\ Len(items) = Len(rules)
    BY <2>3, <2>4, ListingOf
  <2> QED
    BY <2>2, <2>5, <2>6 DEF IsSection
<1>3. CASE s # "FirewallRules"
  <2> DEFINE section == m[s][1]
  <2>1. ~SectionKeyError(s, DOMAIN section)
    BY <1>1, <1>3 DEF ToConfigError
  <2>2. /\ IsFiniteSet(DOMAIN section) /\ DOMAIN section \subseteq ToSet(Lexical)
        /\ \A k \in DOMAIN section : IsItem(s, Item(s, KeyOf(s, k), section[k]))
    BY <1>1, <1>3, <2>1 DEF Askable
  <2>3. ToConfig(m)[s] = <<ConvertMap(s, section)>>
    BY <1>1, <1>3 DEF ToConfig
  <2> HIDE DEF section
  <2>4. LET items == ConvertMap(s, section)
        IN Listing(items) /\ \A i \in 1..Len(items) : \E k \in DOMAIN section : items[i] = Item(s, KeyOf(s, k), section[k])
    BY <2>2, MapConverts
  <2> QED
    BY <2>2, <2>3, <2>4 DEF IsSection
<1> QED
  BY <1>2, <1>3

\* What an element resource makes of a section.
LEMMA PutItemIs ==
  ASSUME NEW s, NEW items, IsSection(s, items), NEW item, IsItem(s, item)
  PROVE  LET q == PutItem(s, items, item)  n == Len(items) IN
         /\ IsSection(s, q)
         /\ \/ /\ \A i \in 1..n : Identity(s, items[i]) # Identity(s, item)
               /\ Len(q) = n + 1 /\ q[n + 1] = item /\ \A i \in 1..n : q[i] = items[i]
            \/ /\ Len(q) = n
               /\ \E k \in 1..n : /\ Identity(s, items[k]) = Identity(s, item)
                                  /\ q[k] = item /\ \A i \in 1..n : i # k => q[i] = items[i]
<1> DEFINE n == Len(items)
           at == {i \in DOMAIN items : Identity(s, items[i]) = Identity(s, item)}
           q == PutItem(s, items, item)
<1>1. n \in Nat /\ DOMAIN items = 1..n /\ items = [i \in 1..n |-> items[i]] /\ \A i \in 1..n : IsItem(s, items[i])
  BY ListingDomain DEF IsSection, Listing
<1>2. CASE at = {}
  <2>1. q = Append(items, item)
    BY <1>2 DEF PutItem
  <2> DEFINE T == {items[i] : i \in 1..n} \cup {item}
  <2>2. items \in [1..n -> T] /\ item \in T
    BY <1>1
  <2> HIDE DEF T
  <2>3. items \in Seq(T)
    BY <1>1, <2>2
  <2>4. /\ q \in Seq(T) /\ Len(q) = n + 1
        /\ \A i \in 1..n : q[i] = items[i]
        /\ q[n + 1] = item
    BY <1>1, <2>1, <2>2, <2>3, AppendProperties
  <2> HIDE DEF q
  <2>5. Listing(q)
    BY <2>4, SeqListing
  <2>6. \A i \in 1..(n + 1) : IsItem(s, q[i])
    BY <1>1, <2>4
  <2> HIDE DEF n
  <2>7. \A i \in 1..n : Identity(s, items[i]) # Identity(s, item)
    BY <1>1, <1>2
  <2> QED
    BY <2>4, <2>5, <2>6, <2>7 DEF IsSection, q, n
<1>3. CASE at # {}
  <2> DEFINE k == CHOOSE i \in at : \A j \in at : i <= j
  <2>1. \E i \in at : \A j \in at : i <= j
    <3>1. at \in SUBSET Nat
      BY <1>1
    <3> HIDE DEF at
    <3> QED
      BY <1>3, <3>1, NatMin
  <2>2. k \in at
    BY <2>1
  <2>3. q = [items EXCEPT ![k] = item]
    BY <1>3 DEF PutItem
  <2>4. k \in 1..n /\ Identity(s, items[k]) = Identity(s, item)
    BY <1>1, <2>2
  <2> HIDE DEF k, q, at
  <2>5. DOMAIN q = 1..n /\ q = [i \in DOMAIN q |-> q[i]]
    BY <1>1, <2>3
  <2>6. q[k] = item /\ \A i \in 1..n : i # k => q[i] = items[i]
    BY <1>1, <2>3, <2>4
  <2>7. Listing(q) /\ Len(q) = n
    BY <1>1, <2>5, ListingOf
  <2>8. \A i \in 1..n : IsItem(s, q[i])
    BY <1>1, <2>6
  <2> QED
    BY <2>4, <2>6, <2>7, <2>8 DEF IsSection, q
<1> QED
  BY <1>2, <1>3

LEMMA DropItemIs ==
  ASSUME NEW s, NEW items, IsSection(s, items), NEW id
  PROVE  LET q == DropItem(s, items, id) IN
         /\ IsSection(s, q)
         /\ \A i \in 1..Len(q) : Identity(s, q[i]) # id /\ \E j \in 1..Len(items) : q[i] = items[j]
         /\ \A j \in 1..Len(items) : Identity(s, items[j]) # id => \E i \in 1..Len(q) : q[i] = items[j]
<1> DEFINE S == {x \in ToSet(items) : Identity(s, x) # id}
           q == DropItem(s, items, id)
<1>1. Listing(items) /\ DOMAIN items = 1..Len(items) /\ \A i \in 1..Len(items) : IsItem(s, items[i])
  BY ListingDomain DEF IsSection
<1>2. Members(items) \cap S = {x \in Members(items) : Identity(s, x) # id}
  BY <1>1 DEF ToSet, Members
<1>3. q = Kept(items, S)
  BY DEF DropItem
<1> HIDE DEF S, q
<1>4. q \in Seq(Members(items) \cap S) /\ \A x \in Members(items) \cap S : \E j \in 1..Len(q) : q[j] = x
  BY <1>1, <1>3, KeptIs DEF IsKept
<1>5. Listing(q) /\ \A i \in 1..Len(q) : q[i] \in Members(items) \cap S
  BY <1>4, SeqListing
<1>6. \A i \in 1..Len(q) : Identity(s, q[i]) # id /\ \E j \in 1..Len(items) : q[i] = items[j]
  BY <1>2, <1>5 DEF Members
<1>7. \A i \in 1..Len(q) : IsItem(s, q[i])
  BY <1>1, <1>6
<1>8. \A j \in 1..Len(items) : Identity(s, items[j]) # id => \E i \in 1..Len(q) : q[i] = items[j]
  BY <1>2, <1>4 DEF Members
<1> QED
  BY <1>5, <1>6, <1>7, <1>8 DEF IsSection, q

LEMMA DesiredIsConfig ==
  ASSUME NEW s \in ToSet(Sections), NEW items, IsSection(s, items)
  PROVE  /\ IsConfig(Desired(s, items)) /\ Desired(s, items)[s] = <<items>>
         /\ \A t \in ToSet(Sections) : t # s => Desired(s, items)[t] = <<>>
<1>1. Desired(s, items) = [t \in ToSet(Sections) |-> IF t = s THEN <<items>> ELSE <<>>]
  BY DEF Desired, Unmanaged
<1> QED
  BY <1>1 DEF IsConfig

\* A configuration that is not refused fits.
LEMMA ConfigFits ==
  ASSUME NEW c, IsConfig(c), NEW d, ~ConfigError(c, d)
  PROVE  Fits(c)
<1>1. \A s \in ToSet(Sections) : c[s] # <<>> => ~SectionError(s, c[s][1], d) /\ IsSection(s, c[s][1])
  BY DEF ConfigError, IsConfig
<1>2. ASSUME NEW s \in DOMAIN Codec, c[s] # <<>> PROVE Listable(s, c[s][1])
  <2> DEFINE items == c[s][1]
  <2>1. s \in ToSet(Sections) /\ s # "SwitchPorts" /\ s # "DHCPReservations"
    BY DEF Codec, Sections, ToSet
  <2>2. ~SectionError(s, items, d) /\ IsSection(s, items)
    BY <1>1, <1>2, <2>1
  <2> HIDE DEF items
  <2>3. ~ListError(s, items)
    BY <2>1, <2>2 DEF SectionError
  <2> QED
    BY <2>2, <2>3 DEF Listable, IsSection, IsItem, items
<1>3. ASSUME c["SwitchPorts"] # <<>> PROVE Plugged(c["SwitchPorts"][1])
  <2> DEFINE s == "SwitchPorts"
             items == c[s][1]
  <2>1. s \in ToSet(Sections)
    BY DEF Sections, ToSet
  <2>2. ~SwitchPortsError(d.device, items) /\ IsSection(s, items)
    BY <1>1, <1>3, <2>1 DEF SectionError
  <2> HIDE DEF items
  <2>3. DOMAIN items = 1..Len(items)
    BY <2>2, ListingDomain DEF IsSection
  <2>4. \A i, j \in 1..Len(items) : i # j => items[i].Port # items[j].Port
    BY <2>2, <2>3 DEF SwitchPortsError
  <2> QED
    BY <2>2, <2>4 DEF Plugged, IsSection, IsItem, items
<1>4. ASSUME c["DHCPReservations"] # <<>> PROVE Reservable(c["DHCPReservations"][1])
  <2> DEFINE s == "DHCPReservations"
             items == c[s][1]
  <2>1. s \in ToSet(Sections)
    BY DEF Sections, ToSet
  <2>2. ~ReservationsError(items)
    BY <1>1, <1>4, <2>1 DEF SectionError
  <2> HIDE DEF items
  <2>3. \A r \in ToSet(items) : r.MAC \in DOMAIN ClientOf
    BY <2>2 DEF ReservationsError, ToSet
  <2> QED
    BY <2>2, <2>3, MACAssumption DEF Reservable, items
<1> QED
  BY <1>2, <1>3, <1>4 DEF Fits

-----------------------------------------------------------------------------
(* What the portal writes keeps a document's form.                           *)

LEMMA RetouchedIs ==
  ASSUME NEW o, NEW kv
  PROVE  /\ IsObj(Retouched(o, kv))
         /\ \A k : At(Retouched(o, kv), k) = IF k = kv[1] THEN kv[2] ELSE At(o, k)
BY OmitIsObj, WithIsObj, AtOmit, AtWith DEF Retouched

LEMMA ElementValues ==
  ASSUME NEW o, IsElement(o), NEW k
  PROVE  IsValue(At(o, k))
<1>1. IsValue(Null)
  <2>1. Listing(Entries(Null))
    BY NothingAtNull DEF Listing
  <2> QED
    BY <2>1, EmptyObject DEF IsValue
<1> QED
  BY <1>1 DEF IsElement, At

LEMMA RetouchedElement ==
  ASSUME NEW o, IsElement(o), NEW kv, IsValue(kv[2])
  PROVE  IsElement(Retouched(o, kv))
<1> DEFINE p == Retouched(o, kv)
<1>1. IsObj(p) /\ \A k : At(p, k) = IF k = kv[1] THEN kv[2] ELSE At(o, k)
  BY RetouchedIs
<1> HIDE DEF p
<1>2. \A k : IsValue(At(p, k))
  BY <1>1, ElementValues
<1> QED
  BY <1>1, <1>2 DEF IsElement, p

\* A list the portal leaves: of what was there, or of what it adds.
LEMMA EditedList ==
  ASSUME NEW s \in DOMAIN Codec, NEW site, IsObj(site), NEW l, Listing(l),
         \A i \in 1..Len(l) : IsElement(l[i]),
         Distinct(ElementIDs(l))
  PROVE  LET root == PutAt(site, Codec[s].path, List(l)) IN
         /\ IsObj(root) /\ Elements(Codec[s].path, root) = l
         /\ HoldsElements(s, root) /\ Numbered(s, root)
         /\ \A t \in DOMAIN Codec : t # s => ListAside(t, site, root)
<1> DEFINE path == Codec[s].path
           root == PutAt(site, path, List(l))
<1>1. Len(path) \in Nat \ {0} /\ LeadsTo(s, path)
  BY Paths, PathsLead
<1>2. Node(root, path) = List(l)
  BY <1>1, PutIsThere
<1>3. Entries(Node(root, path)) = l
  BY <1>2, Tags DEF Entries
<1>4. IsObj(root)
  <2>1. PICK w : root = With(Obj(Fields(site)), path[1], w)
    BY <1>1, PutAtTop
  <2> QED
    BY <2>1, WithIsObj
<1>5. \A t \in DOMAIN Codec : t # s => ListAside(t, site, root)
  BY <1>1, PutIsAside
<1> HIDE DEF path, root
<1>6. Elements(path, root) = l
  <2>1. \A i \in 1..Len(l) : l[i] \in {e \in ToSet(l) : e[1] = "obj"}
    <3>1. DOMAIN l = 1..Len(l)
      BY ListingDomain
    <3>2. \A i \in 1..Len(l) : l[i][1] = "obj"
      BY ObjTag DEF IsElement
    <3> QED
      BY <3>1, <3>2 DEF ToSet
  <2>2. Kept(l, {e \in ToSet(l) : e[1] = "obj"}) = l
    BY <2>1, KeptIs DEF IsKept
  <2> QED
    BY <1>3, <2>2 DEF Elements
<1> QED
  BY <1>3, <1>4, <1>5, <1>6 DEF HoldsElements, Numbered, path, root

LEMMA RemovedAt ==
  ASSUME NEW q, Listing(q), NEW i \in 1..Len(q)
  PROVE  LET l == RemoveAt(q, i) IN
         /\ Listing(l) /\ Len(l) = Len(q) - 1
         /\ \A j \in 1..Len(l) : l[j] = q[IF j < i THEN j ELSE j + 1]
<1> DEFINE n == Len(q)
           a == SubSeq(q, 1, i - 1)
           b == SubSeq(q, i + 1, n)
           T == Members(q)
           l == RemoveAt(q, i)
<1>1. n \in Nat /\ q \in Seq(T)
  <2>1. n \in Nat /\ DOMAIN q = 1..n /\ q = [j \in DOMAIN q |-> q[j]]
    BY ListingDomain DEF Listing
  <2> HIDE DEF n
  <2>2. q \in Seq({q[j] : j \in 1..n})
    BY <2>1, ListingOf
  <2> QED
    BY <2>1, <2>2 DEF Members, n
<1> HIDE DEF T
<1>2. a \in Seq(T) /\ Len(a) = i - 1 /\ \A j \in 1..(i - 1) : a[j] = q[j]
  BY <1>1, SubSeqProperties
<1>3. b \in Seq(T) /\ Len(b) = n - i /\ \A j \in 1..(n - i) : b[j] = q[i + j]
  BY <1>1, SubSeqProperties
<1>4. l = a \o b
  BY DEF RemoveAt
<1> HIDE DEF a, b, l
<1>5. l \in Seq(T) /\ Len(l) = Len(a) + Len(b)
      /\ \A j \in 1..(Len(a) + Len(b)) : l[j] = IF j <= Len(a) THEN a[j] ELSE b[j - Len(a)]
  BY <1>2, <1>3, <1>4, ConcatProperties
<1>6. Listing(l)
  BY <1>5, SeqListing
<1>7. \A j \in 1..Len(l) : l[j] = q[IF j < i THEN j ELSE j + 1]
  <2> TAKE j \in 1..Len(l)
  <2>1. CASE j < i
    BY <1>1, <1>2, <1>3, <1>5, <2>1
  <2>2. CASE ~(j < i)
    <3>1. j - (i - 1) \in 1..(n - i) /\ ~(j <= Len(a)) /\ i + (j - (i - 1)) = j + 1
      BY <1>1, <1>2, <1>3, <1>5, <2>2
    <3> QED
      BY <1>2, <1>3, <1>5, <2>2, <3>1
  <2> QED
    BY <2>1, <2>2
<1> QED
  BY <1>1, <1>2, <1>3, <1>5, <1>6, <1>7 DEF l

\* The list the portal leaves of a section's elements.
PortalLists(s, q) ==
  {RemoveAt(q, i) : i \in DOMAIN q}
  \cup {Append(q, e) : e \in {e \in Appear[s] : AsString(At(e, "id")) \notin ToSet(ElementIDs(q))}}
  \cup {[q EXCEPT ![i] = Retouched(@, kv)] : i \in DOMAIN q, kv \in Retouch[s]}

Portable(s, q) ==
  /\ ElementsOf(q) /\ Distinct(ElementIDs(q))
  /\ s = "StaticRoutes" => \A i \in 1..Len(q) : AsString(At(q[i], "network")) \in ToSet(Lexical)

LEMMA PortalKeepsElements ==
  ASSUME NEW s \in DOMAIN Codec, NEW q, Portable(s, q), NEW l \in PortalLists(s, q)
  PROVE  /\ Portable(s, l)
         /\ \A i \in 1..Len(l) : LET id == AsString(At(l[i], "id")) IN
              id \in ToSet(Lexical) \/ \E j \in 1..Len(q) : id = AsString(At(q[j], "id"))
<1> DEFINE n == Len(q)
           ID(e) == AsString(At(e, "id"))
           Net(e) == AsString(At(e, "network"))
           Fine(e) == IsElement(e) /\ (s = "StaticRoutes" => Net(e) \in ToSet(Lexical))
<1>1. Listing(q) /\ n \in Nat /\ DOMAIN q = 1..n /\ q = [i \in 1..n |-> q[i]]
  BY ListingDomain DEF Portable, ElementsOf, Listing
<1>2. /\ \A i \in 1..n : Fine(q[i])
      /\ \A i, j \in 1..n : ID(q[i]) = ID(q[j]) => i = j
  BY <1>1, IdsOf DEF Portable, ElementsOf, Distinct
<1>3. s \in ToSet(Sections)
  BY DEF Codec, Sections, ToSet
<1> SUFFICES /\ Listing(l) /\ \A i \in 1..Len(l) : Fine(l[i])
             /\ \A i, j \in 1..Len(l) : ID(l[i]) = ID(l[j]) => i = j
             /\ \A i \in 1..Len(l) : ID(l[i]) \in ToSet(Lexical) \/ \E j \in 1..n : ID(l[i]) = ID(q[j])
  BY IdsOf DEF Portable, ElementsOf, Distinct
<1>4. CASE \E i \in DOMAIN q : l = RemoveAt(q, i)
  <2>1. PICK i \in 1..n : l = RemoveAt(q, i)
    BY <1>1, <1>4
  <2> DEFINE g(j) == IF j < i THEN j ELSE j + 1
  <2>2. Listing(l) /\ Len(l) = n - 1 /\ \A j \in 1..Len(l) : l[j] = q[g(j)]
    BY <1>1, <2>1, RemovedAt
  <2>3. \A j \in 1..(n - 1) : g(j) \in 1..n
    BY <1>1
  <2>4. \A j, k \in 1..(n - 1) : g(j) = g(k) => j = k
    BY <1>1
  <2> HIDE DEF g, Fine, ID, Net
  <2> QED
    BY <1>2, <2>2, <2>3, <2>4
<1>5. CASE \E e \in Appear[s] : ID(e) \notin ToSet(ElementIDs(q)) /\ l = Append(q, e)
  <2>1. PICK e \in Appear[s] : ID(e) \notin ToSet(ElementIDs(q)) /\ l = Append(q, e)
    BY <1>5
  <2>2. Fine(e) /\ ID(e) \in ToSet(Lexical)
    BY <1>3, <2>1, PortalAssumption
  <2>3. \A i \in 1..n : ID(q[i]) # ID(e)
    <3>1. ElementIDs(q) = [i \in 1..n |-> ID(q[i])]
      BY <1>1, IdsOf
    <3>2. ToSet(ElementIDs(q)) = {ID(q[i]) : i \in 1..n}
      BY <3>1 DEF ToSet
    <3> QED
      BY <2>1, <3>2
  <2> DEFINE T == Members(q) \cup {e}
  <2>4. q \in Seq(T) /\ e \in T
    BY <1>1 DEF Members
  <2> HIDE DEF T
  <2>5. l \in Seq(T) /\ Len(l) = n + 1 /\ (\A i \in 1..n : l[i] = q[i]) /\ l[n + 1] = e
    BY <1>1, <2>1, <2>4, AppendProperties
  <2>6. Listing(l)
    BY <2>5, SeqListing
  <2>7. \A i \in 1..(n + 1) : i \in 1..n \/ i = n + 1
    BY <1>1
  <2> HIDE DEF Fine, ID, Net
  <2> QED
    BY <1>2, <2>2, <2>3, <2>5, <2>6, <2>7
<1>6. CASE \E i \in DOMAIN q : \E kv \in Retouch[s] : l = [q EXCEPT ![i] = Retouched(@, kv)]
  <2>1. PICK i \in 1..n, kv \in Retouch[s] : l = [q EXCEPT ![i] = Retouched(@, kv)]
    BY <1>1, <1>6
  <2>2. /\ kv[1] # "id" /\ IsValue(kv[2])
        /\ s = "StaticRoutes" /\ kv[1] = "network" => AsString(kv[2]) \in ToSet(Lexical)
    BY <1>3, PortalAssumption
  <2> DEFINE e == Retouched(q[i], kv)
  <2>3. \A k : At(e, k) = IF k = kv[1] THEN kv[2] ELSE At(q[i], k)
    BY RetouchedIs
  <2>4. IsElement(e)
    BY <1>2, <2>2, RetouchedElement
  <2>5. l[i] = e /\ (\A j \in 1..n : j # i => l[j] = q[j]) /\ DOMAIN l = 1..n /\ l = [j \in DOMAIN l |-> l[j]]
    BY <1>1, <2>1
  <2> HIDE DEF e
  <2>6. Listing(l) /\ Len(l) = n
    BY <1>1, <2>5, ListingOf
  <2>7. Fine(e) /\ ID(e) = ID(q[i])
    BY <1>2, <2>2, <2>3, <2>4
  <2> HIDE DEF Fine, ID, Net
  <2>8. \A j \in 1..n : ID(l[j]) = ID(q[j]) /\ Fine(l[j])
    BY <1>2, <2>5, <2>7
  <2> QED
    BY <1>2, <2>6, <2>8
<1> QED
  BY <1>4, <1>5, <1>6 DEF PortalLists

LEMMA RouteNetworks ==
  ASSUME NEW root, HoldsElements("StaticRoutes", root)
  PROVE  LET q == Elements(Codec["StaticRoutes"].path, root)
             back == ListRead("StaticRoutes", root)
         IN /\ Len(back) = Len(q)
            /\ \A i \in 1..Len(q) : back[i].Network = AsString(At(q[i], "network"))
<1> DEFINE s == "StaticRoutes"
           q == Elements(Codec[s].path, root)
           back == ListRead(s, root)
           row == Codec[s].row
<1>1. s \in DOMAIN Codec
  BY DEF Codec
<1>2. Listing(q) /\ DOMAIN q = 1..Len(q) /\ Len(q) \in Nat
  BY <1>1, ElementsAre, ListingDomain DEF ElementsOf, Listing
<1>3. back = [i \in 1..Len(q) |-> Decode(row, q[i])]
  BY <1>2 DEF ListRead
<1>4. "Network" \in DOMAIN row /\ row["Network"][2] = "network" /\ row["Network"][3] = "string"
  <2>1. "Network" \in DOMAIN row /\ row["Network"][3] = "string"
    BY RouteRows
  <2>2. PICK i \in DOMAIN Codec[s].fields : row["Network"] = Codec[s].fields[i] /\ Codec[s].fields[i][1] = "Network"
    BY <1>1, <2>1, Codecs
  <2>3. Codec[s].fields = StaticRouteFields
    BY DEF Codec, ListCodec
  <2>4. row["Network"][2] = "network"
    BY <2>2, <2>3 DEF StaticRouteFields
  <2> QED
    BY <2>1, <2>4
<1> HIDE DEF row, q
<1>5. \A e : Decode(row, e)["Network"] = AsString(At(e, "network"))
  BY <1>4 DEF Decode, DecodeField
<1>6. Len(back) = Len(q)
  <2>1. DOMAIN back = 1..Len(q) /\ back = [i \in DOMAIN back |-> back[i]]
    BY <1>3
  <2> HIDE DEF back
  <2> QED
    BY <1>2, <2>1, ListingOf
<1> QED
  BY <1>3, <1>5, <1>6 DEF q

LEMMA TextIDs ==
  ASSUME NEW s \in Keyed, NEW root, HoldsElements(s, root)
  PROVE  LET q == Elements(Codec[s].path, root)
             back == ListRead(s, root)
         IN /\ Listing(back) /\ Len(back) = Len(q)
            /\ \A i \in 1..Len(q) : back[i].ID = AsString(At(q[i], "id"))
<1> DEFINE q == Elements(Codec[s].path, root)
           back == ListRead(s, root)
           row == Codec[s].row
<1>1. s \in DOMAIN Codec /\ s # "VLANs"
  BY DEF Codec, Keyed
<1>2. Listing(q) /\ DOMAIN q = 1..Len(q) /\ Len(q) \in Nat
  BY <1>1, ElementsAre, ListingDomain DEF ElementsOf, Listing
<1>3. back = [i \in 1..Len(q) |-> Decode(row, q[i])]
  BY <1>2 DEF ListRead
<1>4. "ID" \in DOMAIN row /\ row["ID"][2] = "id" /\ row["ID"][3] = "string"
  <2>1. PICK i \in DOMAIN Codec[s].fields :
          Codec[s].fields[i][1] = "ID" /\ Codec[s].fields[i][2] = "id" /\ Codec[s].fields[i][3] = "string"
    BY <1>1, IdentityRow
  <2> QED
    BY <1>1, <2>1, EveryRow
<1> HIDE DEF row, q
<1>5. \A e : Decode(row, e)["ID"] = AsString(At(e, "id"))
  BY <1>4 DEF Decode, DecodeField
<1>6. Listing(back) /\ Len(back) = Len(q)
  <2>1. DOMAIN back = 1..Len(q) /\ back = [i \in DOMAIN back |-> back[i]]
    BY <1>3
  <2> HIDE DEF back
  <2> QED
    BY <1>2, <2>1, ListingOf
<1> QED
  BY <1>3, <1>5, <1>6 DEF q

LEMMA PortalKeepsLists ==
  ASSUME NEW d, Regular(d), NEW s \in DOMAIN Codec, NEW e \in Edited(s, d)
  PROVE  Regular(e) /\ (Sortable(d) => Sortable(e))
<1> DEFINE path == Codec[s].path
           q == Elements(path, d.site)
<1>0. Ready(d) /\ IsDocument(d) /\ FiniteKeys(d) /\ IsObj(d.site)
  BY DEF Regular, Ready, IsDocument
<1>1. s # "SwitchPorts" /\ s # "DHCPReservations"
  BY DEF Codec
<1>2. PICK l \in PortalLists(s, q) : e = [d EXCEPT !.site = PutAt(@, path, List(l))]
  BY <1>1 DEF Edited, PortalLists
<1>3. Portable(s, q)
  <2>1. ElementsOf(q) /\ HoldsElements(s, d.site)
    BY <1>0, ElementsAre DEF Ready
  <2>2. Distinct(ElementIDs(q))
    BY DEF Regular, Numbered
  <2>3. s = "StaticRoutes" => \A i \in 1..Len(q) : AsString(At(q[i], "network")) \in ToSet(Lexical)
    BY <2>1, RouteNetworks DEF Regular, Placed
  <2> QED
    BY <2>1, <2>2, <2>3 DEF Portable
<1>4. /\ Portable(s, l)
      /\ \A i \in 1..Len(l) : LET id == AsString(At(l[i], "id")) IN
           id \in ToSet(Lexical) \/ \E j \in 1..Len(q) : id = AsString(At(q[j], "id"))
  BY <1>3, PortalKeepsElements
<1> DEFINE root == PutAt(d.site, path, List(l))
<1>5. e = [site |-> root, device |-> d.device, clients |-> d.clients]
  BY <1>0, <1>2 DEF FiniteKeys
<1>6. /\ IsObj(root) /\ Elements(path, root) = l
      /\ HoldsElements(s, root) /\ Numbered(s, root)
      /\ \A t \in DOMAIN Codec : t # s => ListAside(t, d.site, root)
  BY <1>0, <1>4, EditedList DEF Portable, ElementsOf
<1>7. IsFiniteSet(DOMAIN Fields(root))
  BY <1>0, Paths, PutAtGains DEF FiniteKeys, Gains
<1> HIDE DEF root, path, q
<1>8. \A t \in DOMAIN Codec : HoldsElements(t, root) /\ Numbered(t, root)
  <2> TAKE t \in DOMAIN Codec
  <2>1. CASE t = s
    BY <1>6, <2>1
  <2>2. CASE t # s
    <3>1. ListAside(t, d.site, root) /\ HoldsElements(t, d.site) /\ Numbered(t, d.site)
      BY <1>0, <1>6, <2>2 DEF Ready, Regular
    <3> QED
      BY <3>1, AsideOf DEF Numbered
  <2> QED
    BY <2>1, <2>2
<1>9. Placed(ListRead("StaticRoutes", root))
  <2>1. "StaticRoutes" \in DOMAIN Codec
    BY DEF Codec
  <2>2. CASE s = "StaticRoutes"
    BY <1>4, <1>6, <1>8, <2>1, <2>2, RouteNetworks DEF Portable, Placed, path
  <2>3. CASE s # "StaticRoutes"
    <3>1. ListRead("StaticRoutes", root) = ListRead("StaticRoutes", d.site)
      BY <1>6, <2>1, <2>3, AsideOf
    <3> QED
      BY <3>1 DEF Regular
  <2> QED
    BY <2>2, <2>3
<1>10. IsDocument(e)
  BY <1>0, <1>5, <1>7 DEF IsDocument, FiniteKeys
<1>11. ASSUME Sortable(d), NEW t \in Keyed, NEW x \in ToSet(ReadSection(t, e)) PROVE x.ID \in ToSet(Lexical)
  <2>1. t \in DOMAIN Codec /\ ReadSection(t, e) = ListRead(t, root) /\ ReadSection(t, d) = ListRead(t, d.site)
    BY <1>5, <1>11 DEF Keyed, Codec, ReadSection
  <2>2. CASE t # s
    <3>1. ListRead(t, root) = ListRead(t, d.site)
      BY <1>6, <2>1, <2>2, AsideOf
    <3> QED
      BY <1>11, <2>1, <3>1 DEF Sortable
  <2>3. CASE t = s
    <3> DEFINE was == ListRead(s, d.site)
               is == ListRead(s, root)
    <3>1. /\ Listing(was) /\ Len(was) = Len(q) /\ \A i \in 1..Len(q) : was[i].ID = AsString(At(q[i], "id"))
          /\ Listing(is) /\ Len(is) = Len(l) /\ \A i \in 1..Len(l) : is[i].ID = AsString(At(l[i], "id"))
      BY <1>0, <1>6, <1>11, <2>1, <2>3, TextIDs DEF Ready, q, path
    <3>2. \A j \in 1..Len(q) : AsString(At(q[j], "id")) \in ToSet(Lexical)
      <4>1. \A y \in ToSet(was) : y.ID \in ToSet(Lexical)
        BY <1>11, <2>1, <2>3 DEF Sortable
      <4>2. DOMAIN was = 1..Len(q)
        BY <3>1, ListingDomain
      <4> HIDE DEF was
      <4> QED
        BY <3>1, <4>1, <4>2 DEF ToSet
    <3>3. DOMAIN is = 1..Len(l)
      BY <3>1, ListingDomain
    <3>4. x \in ToSet(is)
      BY <1>11, <2>1, <2>3
    <3> HIDE DEF is, was
    <3> QED
      BY <1>4, <3>1, <3>2, <3>3, <3>4 DEF ToSet
  <2> QED
    BY <2>2, <2>3
<1>12. Sortable(d) => Sortable(e)
  BY <1>11 DEF Sortable
<1> QED
  BY <1>0, <1>5, <1>6, <1>8, <1>9, <1>10, <1>12 DEF Regular, Ready

LEMMA PortalKeepsPorts ==
  ASSUME NEW d, Regular(d), NEW e \in Edited("SwitchPorts", d)
  PROVE  Regular(e)
<1>0. Ready(d) /\ IsDocument(d) /\ FiniteKeys(d) /\ IsDevice(d.device)
  BY DEF Regular, Ready, IsDocument
<1>1. PICK p \in DOMAIN Fields(Node(d.device, PortsPath)), kv \in Retouch["SwitchPorts"] :
        e = [d EXCEPT !.device = PutAt(@, Append(PortsPath, p), Retouched(Node(@, Append(PortsPath, p)), kv))]
  BY DEF Edited
<1> DEFINE o == Node(d.device, PortPath(p))
           v == Retouched(o, kv)
           device == PutAt(d.device, PortPath(p), v)
<1>2. e = [site |-> d.site, device |-> device, clients |-> d.clients]
  BY <1>0, <1>1 DEF FiniteKeys, PortPath
<1>3. IsValue(kv[2]) /\ IsValue(At(kv[2], "list"))
  <2>1. "SwitchPorts" \in ToSet(Sections)
    BY DEF Sections, ToSet
  <2> QED
    BY <2>1, PortalAssumption
<1>4. IsPort(v)
  <2>1. IsPort(o)
    BY <1>0, PortNode, DevicePorts DEF PortsOf
  <2>2. IsObj(v) /\ At(v, "allowedVlans") = IF "allowedVlans" = kv[1] THEN kv[2] ELSE At(o, "allowedVlans")
    BY RetouchedIs
  <2> HIDE DEF v, o
  <2> DEFINE allowed == At(v, "allowedVlans")
  <2>3. IsObj(Obj(Fields(allowed))) /\ Listing(Entries(At(allowed, "list")))
    BY <1>3, <2>1, <2>2 DEF IsPort, IsValue
  <2>4. Obj(Fields(v)) = v
    BY <2>2, ObjTag DEF IsObj, Obj, Fields
  <2> QED
    BY <2>2, <2>3, <2>4 DEF IsPort
<1>5. PortsOf(device) = With(Obj(Fields(PortsOf(d.device))), p, v)
  BY PortPut DEF PortsOf
<1>6. IsObj(device)
  <2>1. PICK w : device = With(Obj(Fields(d.device)), PortPath(p)[1], w)
    BY PutAtTop, PortPathIs
  <2> QED
    BY <2>1, WithIsObj
<1>7. FinitePorts(device)
  BY <1>0, PutAtPort DEF IsDocument, FiniteKeys, FinitePorts, PortPath
<1> HIDE DEF device, v
<1>8. IsDevice(device)
  <2>1. \A k : At(PortsOf(device), k) = IF k = p THEN v ELSE At(PortsOf(d.device), k)
    <3>1. \A k : At(Obj(Fields(PortsOf(d.device))), k) = At(PortsOf(d.device), k)
      BY FieldsObj DEF At
    <3> QED
      BY <1>5, <3>1, AtWith
  <2> QED
    BY <1>0, <1>4, <2>1, DevicePorts
<1>9. IsDocument(e)
  BY <1>0, <1>2, <1>7 DEF IsDocument, FiniteKeys, FinitePorts
<1>10. Ready(e)
  BY <1>0, <1>2, <1>6, <1>8, <1>9 DEF Ready
<1> QED
  BY <1>2, <1>10 DEF Regular

LEMMA PortalKeepsClients ==
  ASSUME NEW d, Regular(d), NEW e \in Edited("DHCPReservations", d)
  PROVE  Regular(e)
<1>0. Ready(d) /\ IsDocument(d) /\ FiniteKeys(d)
  BY DEF Regular, Ready, IsDocument
<1>1. PICK c \in DOMAIN d.clients, kv \in Retouch["DHCPReservations"] :
        e = [d EXCEPT !.clients[c] = With(@, "config", Retouched(Child(@, "config"), kv))]
  BY DEF Edited
<1> DEFINE o == With(d.clients[c], "config", Retouched(Child(d.clients[c], "config"), kv))
           clients == [d.clients EXCEPT ![c] = o]
<1>2. e = [site |-> d.site, device |-> d.device, clients |-> clients]
  BY <1>0, <1>1 DEF FiniteKeys
<1>3. IsClient(o)
  <2> DEFINE x == Retouched(Child(d.clients[c], "config"), kv)
  <2>1. IsObj(x)
    BY RetouchedIs
  <2>2. At(o, "config") = x
    BY AtSame
  <2> HIDE DEF x, o
  <2>3. Obj(Fields(x)) = x
    BY <2>1, ObjTag DEF IsObj, Obj, Fields
  <2> QED
    BY <2>1, <2>2, <2>3 DEF IsClient, Child
<1> HIDE DEF o
<1>4. DOMAIN clients = DOMAIN d.clients /\ \A k \in DOMAIN clients : clients[k] = IF k = c THEN o ELSE d.clients[k]
  OBVIOUS
<1> HIDE DEF clients
<1>5. \A k \in DOMAIN clients : IsClient(clients[k])
  BY <1>0, <1>3, <1>4 DEF Ready
<1>6. IsDocument(e)
  BY <1>0, <1>2, <1>4 DEF IsDocument, FiniteKeys
<1>7. Ready(e)
  BY <1>0, <1>2, <1>5, <1>6 DEF Ready
<1> QED
  BY <1>2, <1>4, <1>7 DEF Regular

LEMMA PortalKeepsRegular ==
  ASSUME NEW d, Regular(d), Sortable(d), NEW s \in ToSet(Sections), NEW e \in Edited(s, d)
  PROVE  Regular(e) /\ Sortable(e)
<1>1. s \in DOMAIN Codec \/ s = "SwitchPorts" \/ s = "DHCPReservations"
  BY DEF Sections, ToSet, Codec
<1>2. \A t \in Keyed : t # "SwitchPorts" /\ t # "DHCPReservations"
  BY DEF Keyed
<1>3. e.site = d.site => Sortable(e)
  BY <1>2 DEF Sortable, ReadSection
<1>4. s = "SwitchPorts" \/ s = "DHCPReservations" => e.site = d.site
  <2>0. d = [site |-> d.site, device |-> d.device, clients |-> d.clients]
    BY DEF Regular, Ready, IsDocument, FiniteKeys
  <2>1. s = "SwitchPorts" => \E v : e = [d EXCEPT !.device = v]
    BY DEF Edited
  <2>2. s = "DHCPReservations" => \E v : e = [d EXCEPT !.clients = v]
    BY <2>0 DEF Edited
  <2> QED
    BY <2>0, <2>1, <2>2
<1> QED
  BY <1>1, <1>3, <1>4, PortalKeepsLists, PortalKeepsPorts, PortalKeepsClients

-----------------------------------------------------------------------------
(* The items of the element resources.                                       *)

LEMMA ItemFields ==
  ASSUME NEW s, NEW id, NEW m
  PROVE  \A f \in DOMAIN ModelOf(s) : f # IdentityField(s) => Item(s, id, m)[f] = DomainValue(ModelOf(s)[f], m[f])
<1>1. Item(s, id, m) = [x \in {IdentityField(s)} \cup DOMAIN ModelOf(s) |->
                          IF x \in {IdentityField(s)} THEN id ELSE DomainValue(ModelOf(s)[x], m[x])]
  BY DEF Item, Over
<1> QED
  BY <1>1

LEMMA ItemIdentity ==
  ASSUME NEW s, NEW id, NEW m
  PROVE  Item(s, id, m)[IdentityField(s)] = id
BY DEF Item, Over

-----------------------------------------------------------------------------
(* The rows of a section and the attributes of its model.                    *)

\* The kind of a row's value and the kind of the attribute that holds it.
Attributes ==
  { <<"string", "string">>, <<"int", "int">>, <<"csv", "somelist">>, <<"noflag", "bool">>, <<"flag", "bool">>,
    <<"tri", "bool">>, <<"set", "set">>, <<"set", "someset">>, <<"endpoint", "endpoint">> }
Matches(fields, k) ==
  /\ \A i \in DOMAIN fields : fields[i][3] # "destination" =>
       fields[i][1] = "ID" \/ (fields[i][1] \in DOMAIN k /\ <<fields[i][3], k[fields[i][1]]>> \in Attributes)
  /\ \A f \in DOMAIN k : \E i \in DOMAIN fields : fields[i][1] = f /\ fields[i][3] # "destination"

LEMMA TablesMatch ==
  /\ Matches(VLANFields, VLANModel) /\ Matches(StaticRouteFields, StaticRouteModel)
  /\ Matches(PortForwardFields, PortForwardModel) /\ Matches(FirewallRuleFields, FirewallRuleModel)
<1>1. Matches(VLANFields, VLANModel)
  BY SMTT(60) DEF Matches, Attributes, VLANFields, VLANModel
<1>2. Matches(StaticRouteFields, StaticRouteModel)
  BY SMTT(60) DEF Matches, Attributes, StaticRouteFields, StaticRouteModel
<1>3. Matches(PortForwardFields, PortForwardModel)
  BY SMTT(60) DEF Matches, Attributes, PortForwardFields, PortForwardModel
<1>4. Matches(FirewallRuleFields, FirewallRuleModel)
  BY SMTT(60) DEF Matches, Attributes, FirewallRuleFields, FirewallRuleModel
<1> QED
  BY <1>1, <1>2, <1>3, <1>4

LEMMA RowKinds ==
  ASSUME NEW s \in DOMAIN Codec
  PROVE  LET row == Codec[s].row  k == ModelOf(s) IN
         /\ \A f \in DOMAIN row : f = "ID" \/ (f \in DOMAIN k /\ <<row[f][3], k[f]>> \in Attributes)
         /\ \A f \in DOMAIN k : f \in DOMAIN row /\ f # "ID"
         /\ "ID" \in DOMAIN row /\ row["ID"][2] = "id" /\ row["ID"][3] = IF s = "VLANs" THEN "number" ELSE "string"
         /\ IdentityField(s) = "ID"
<1> DEFINE row == Codec[s].row
           fields == Codec[s].fields
           k == ModelOf(s)
<1>1. s \in {"PortForwards", "FirewallRules", "VLANs", "StaticRoutes"}
  BY DEF Codec
<1>2. Matches(fields, k) /\ "ID" \notin DOMAIN k
  <2>1. CASE s = "PortForwards"
    <3>1. fields = PortForwardFields /\ k = PortForwardModel
      BY <2>1 DEF Codec, ListCodec, ModelOf
    <3> QED
      BY <3>1, TablesMatch DEF PortForwardModel
  <2>2. CASE s = "FirewallRules"
    <3>1. fields = FirewallRuleFields /\ k = FirewallRuleModel
      BY <2>2 DEF Codec, ListCodec, ModelOf
    <3> QED
      BY <3>1, TablesMatch DEF FirewallRuleModel
  <2>3. CASE s = "VLANs"
    <3>1. fields = VLANFields /\ k = VLANModel
      BY <2>3 DEF Codec, ListCodec, ModelOf
    <3> QED
      BY <3>1, TablesMatch DEF VLANModel
  <2>4. CASE s = "StaticRoutes"
    <3>1. fields = StaticRouteFields /\ k = StaticRouteModel
      BY <2>4 DEF Codec, ListCodec, ModelOf
    <3> QED
      BY <3>1, TablesMatch DEF StaticRouteModel
  <2> QED
    BY <1>1, <2>1, <2>2, <2>3, <2>4
<1>3. IdentityField(s) = "ID"
  BY <1>1 DEF IdentityField
<1>4. \A f \in DOMAIN row : \E i \in DOMAIN fields :
        row[f] = fields[i] /\ fields[i][1] = f /\ fields[i][3] # "destination"
  BY Codecs
<1>5. \A i \in DOMAIN fields : fields[i][3] # "destination" => fields[i][1] \in DOMAIN row /\ row[fields[i][1]] = fields[i]
  BY EveryRow
<1>6. PICK i \in DOMAIN fields :
        /\ fields[i][1] = "ID" /\ fields[i][2] = "id"
        /\ fields[i][3] = IF s = "VLANs" THEN "number" ELSE "string"
  BY IdentityRow
<1>7. "ID" \in DOMAIN row /\ row["ID"] = fields[i]
  BY <1>5, <1>6
<1> HIDE DEF row, fields, k
<1>9. \A f \in DOMAIN row : f = "ID" \/ (f \in DOMAIN k /\ <<row[f][3], k[f]>> \in Attributes)
  BY <1>2, <1>4 DEF Matches
<1>10. \A f \in DOMAIN k : f \in DOMAIN row /\ f # "ID"
  BY <1>2, <1>5 DEF Matches
<1> QED
  BY <1>3, <1>6, <1>7, <1>9, <1>10 DEF row, k

\* Where the id is generated, that an item has its types does not depend on it.
LEMMA ItemAnyID ==
  ASSUME NEW s \in {"PortForwards", "FirewallRules", "StaticRoutes"}, NEW x, NEW y, NEW m, IsItem(s, Item(s, x, m))
  PROVE  IsItem(s, Item(s, y, m))
<1> DEFINE a == Item(s, x, m)
           b == Item(s, y, m)
           row == Codec[s].row
           k == ModelOf(s)
<1>1. s \in DOMAIN Codec /\ s # "VLANs" /\ s # "SwitchPorts"
  BY DEF Codec
<1>2. /\ \A f \in DOMAIN row : f = "ID" \/ f \in DOMAIN k
      /\ \A f \in DOMAIN k : f \in DOMAIN row /\ f # "ID"
      /\ row["ID"][3] = "string" /\ IdentityField(s) = "ID"
  <2>1. s # "VLANs"
    OBVIOUS
  <2> QED
    BY <1>1, <2>1, RowKinds
<1>3. \A f \in DOMAIN k : a[f] = b[f]
  <2>0. IdentityField(s) = "ID"
    BY <1>2
  <2>1. \A f \in DOMAIN k : f # IdentityField(s) => a[f] = DomainValue(k[f], m[f])
    BY ItemFields
  <2>2. \A f \in DOMAIN k : f # IdentityField(s) => b[f] = DomainValue(k[f], m[f])
    BY ItemFields
  <2> HIDE DEF a, b, k, row
  <2> QED
    BY <1>2, <2>0, <2>1, <2>2
<1>4. \A f \in DOMAIN row : Plain(row[f][3], b[f])
  <2> TAKE f \in DOMAIN row
  <2>1. CASE f = "ID"
    BY <1>2, <2>1 DEF Plain
  <2>2. CASE f # "ID"
    <3>1. b[f] = a[f]
      <4> HIDE DEF a, b, k, row
      <4> QED
        BY <1>2, <1>3, <2>2
    <3>2. Plain(row[f][3], a[f])
      BY <1>1 DEF IsItem, PlainItem
    <3> QED
      BY <3>1, <3>2
  <2> QED
    BY <2>1, <2>2
<1>5. s = "StaticRoutes" => b.Network = a.Network
  BY <1>3 DEF ModelOf, StaticRouteModel
<1> QED
  BY <1>1, <1>4, <1>5 DEF IsItem, PlainItem

-----------------------------------------------------------------------------
(* What a step does.                                                         *)

\* The id an element resource writes its item under: the one asked or generated for a new
\* resource, and its own after that.
TakesID(r, id) ==
  \/ \E w \in Wanted[focus][r] : w.id = <<id>>
  \/ /\ id \in NewIDs /\ focus \in {"PortForwards", "FirewallRules", "StaticRoutes"}
     /\ tf[r] = <<>> /\ \A q \in Slots : tf[q] # <<>> => tf[q][1].id # id
  \/ tf[r] # <<>> /\ tf[r][1].id = id
PutStep(r, id, m) ==
  /\ Put(focus, r, id, m)
  /\ IsItem(focus, DomainItem(focus, id, m)) /\ FiniteSets(focus, m)
  /\ TakesID(r, id) /\ (tf[r] # <<>> => tf[r][1].id = id /\ tf[r][1].m # m)
  /\ focus = "StaticRoutes" => ~RouteError(DomainItem(focus, id, m))
ElementStep(r) ==
  \/ \E id, m : PutStep(r, id, m)
  \/ focus # "SwitchPorts" /\ tf[r] # <<>> /\ Drop(focus, r)
  \/ ReadState(focus, r) \/ ImportItem(focus, r)
  \/ SwitchPortDelete(r)

LEMMA CreateTakes ==
  ASSUME NEW s \in ToSet(Sections), NEW r \in Slots, NEW w \in PlannedCreate(s, r), NEW id,
         IF s \in {"VLANs", "SwitchPorts", "DHCPReservations"} THEN id = w.id[1] ELSE id \in GeneratedID(w.id),
         Put(s, r, id, w.m), s = "StaticRoutes" => ~RouteError(DomainItem(s, id, w.m))
  PROVE  PutStep(r, id, w.m)
<1>1. focus = s /\ tf[r] = <<>> /\ w \in Wanted[s][r]
  BY DEF PlannedCreate
<1>2. /\ s \in {"VLANs", "SwitchPorts", "DHCPReservations"} => w.id # <<>>
      /\ IsItem(s, Item(s, KeyOf(s, Value(w.id, "")), w.m)) /\ FiniteSets(s, w.m)
      /\ w.id # <<>> => Names(s, w.id[1])
  BY <1>1, WantedAssumption
<1>3. s \in {"VLANs", "SwitchPorts", "DHCPReservations", "PortForwards", "FirewallRules", "StaticRoutes"}
  BY DEF Sections, ToSet
<1>4. CASE w.id # <<>>
  <2>1. id = w.id[1] /\ Value(w.id, "") = id
    BY <1>4 DEF GeneratedID, Value
  <2>2. IsItem(s, DomainItem(s, id, w.m))
    BY <1>2, <2>1 DEF DomainItem
  <2>3. w.id = <<id>>
    BY <1>1, <1>4, <2>1, WantedAssumption
  <2>4. TakesID(r, id)
    BY <1>1, <2>3 DEF TakesID
  <2> QED
    BY <1>1, <1>2, <2>2, <2>4 DEF PutStep
<1>5. CASE w.id = <<>>
  <2>1. s \in {"PortForwards", "FirewallRules", "StaticRoutes"}
    BY <1>2, <1>3, <1>5
  <2>2. id \in NewIDs \ {tf[q][1].id : q \in {q \in Slots : tf[q] # <<>>}}
    BY <1>5, <2>1 DEF GeneratedID
  <2>3. IsItem(s, Item(s, id, w.m))
    BY <1>2, <2>1, ItemAnyID
  <2>4. IsItem(s, DomainItem(s, id, w.m))
    BY <2>1, <2>3 DEF DomainItem, KeyOf
  <2>5. TakesID(r, id)
    BY <1>1, <2>1, <2>2 DEF TakesID
  <2> QED
    BY <1>1, <1>2, <2>4, <2>5 DEF PutStep
<1> QED
  BY <1>4, <1>5

LEMMA UpdateTakes ==
  ASSUME NEW s \in ToSet(Sections), NEW r \in Slots, NEW w \in PlannedUpdate(s, r), NEW id,
         id = IF s \in {"VLANs", "SwitchPorts", "DHCPReservations"} THEN w.id[1] ELSE tf[r][1].id,
         Put(s, r, id, w.m), s = "StaticRoutes" => ~RouteError(DomainItem(s, id, w.m))
  PROVE  PutStep(r, id, w.m)
<1>1. focus = s /\ tf[r] # <<>> /\ w \in Wanted[s][r] /\ w.id \in {<<>>, <<tf[r][1].id>>} /\ tf[r][1].m # w.m
  BY DEF PlannedUpdate
<1>2. /\ s \in {"VLANs", "SwitchPorts", "DHCPReservations"} => w.id # <<>>
      /\ IsItem(s, Item(s, KeyOf(s, Value(w.id, "")), w.m)) /\ FiniteSets(s, w.m)
  BY <1>1, WantedAssumption
<1>3. s \in {"VLANs", "SwitchPorts", "DHCPReservations", "PortForwards", "FirewallRules", "StaticRoutes"}
  BY DEF Sections, ToSet
<1>4. id = tf[r][1].id
  <2>1. CASE w.id = <<>>
    BY <1>2, <2>1
  <2>2. CASE w.id = <<tf[r][1].id>>
    BY <2>2
  <2> QED
    BY <1>1, <2>1, <2>2
<1>5. CASE s \in {"VLANs", "SwitchPorts", "DHCPReservations"}
  <2>1. w.id = <<id>>
    BY <1>1, <1>2, <1>4, <1>5
  <2>2. IsItem(s, DomainItem(s, id, w.m))
    BY <1>2, <2>1 DEF DomainItem, Value
  <2> QED
    BY <1>1, <1>2, <1>4, <1>5, <2>2 DEF PutStep, TakesID
<1>6. CASE s \in {"PortForwards", "FirewallRules", "StaticRoutes"}
  <2>1. IsItem(s, Item(s, id, w.m))
    BY <1>2, <1>6, ItemAnyID
  <2>2. IsItem(s, DomainItem(s, id, w.m))
    BY <1>6, <2>1 DEF DomainItem, KeyOf
  <2> QED
    BY <1>1, <1>2, <1>4, <2>2 DEF PutStep, TakesID
<1> QED
  BY <1>3, <1>5, <1>6

LEMMA StepKinds ==
  ASSUME Documented, Next
  PROVE  \/ \E r \in Slots : ElementStep(r)
         \/ \E m \in ConfWanted[focus] : ConfApply(conf, m)
         \/ ConfRead \/ ConfDelete \/ ConfImport
         \/ PortalEdit
<1>1. ASSUME NEW r \in Slots, Element(r) PROVE ElementStep(r)
  <2>0. \A s \in {"VLANs", "SwitchPorts", "DHCPReservations", "PortForwards", "FirewallRules", "StaticRoutes"} : s \in ToSet(Sections)
    BY DEF Sections, ToSet
  <2>1. ASSUME NEW s, ReadState(s, r) \/ ImportItem(s, r) PROVE ElementStep(r)
    BY <2>1 DEF ElementStep, ReadState, ImportItem
  <2>2. ASSUME NEW s, s # "SwitchPorts", PlannedDelete(s, r), Drop(s, r) PROVE ElementStep(r)
    BY <2>2 DEF ElementStep, PlannedDelete
  <2>3. ASSUME NEW id, NEW m, PutStep(r, id, m) PROVE ElementStep(r)
    BY <2>3 DEF ElementStep
  <2>4. CASE VLANCreate(r) \/ VLANUpdate(r) \/ VLANRead(r) \/ VLANDelete(r) \/ VLANImport(r)
    <3>1. CASE VLANCreate(r)
      BY <2>0, <2>3, <3>1, CreateTakes DEF VLANCreate
    <3>2. CASE VLANUpdate(r)
      BY <2>0, <2>3, <3>2, UpdateTakes DEF VLANUpdate
    <3> QED
      BY <2>1, <2>2, <2>4, <3>1, <3>2 DEF VLANRead, VLANDelete, VLANImport
  <2>5. CASE StaticRouteCreate(r) \/ StaticRouteUpdate(r) \/ StaticRouteRead(r) \/ StaticRouteDelete(r) \/ StaticRouteImport(r)
    <3>1. CASE StaticRouteCreate(r)
      BY <2>0, <2>3, <3>1, CreateTakes DEF StaticRouteCreate, RouteWrite
    <3>2. CASE StaticRouteUpdate(r)
      BY <2>0, <2>3, <3>2, UpdateTakes DEF StaticRouteUpdate, RouteWrite
    <3> QED
      BY <2>1, <2>2, <2>5, <3>1, <3>2 DEF StaticRouteRead, StaticRouteDelete, StaticRouteImport
  <2>6. CASE PortForwardCreate(r) \/ PortForwardUpdate(r) \/ PortForwardRead(r) \/ PortForwardDelete(r) \/ PortForwardImport(r)
    <3>1. CASE PortForwardCreate(r)
      BY <2>0, <2>3, <3>1, CreateTakes DEF PortForwardCreate
    <3>2. CASE PortForwardUpdate(r)
      BY <2>0, <2>3, <3>2, UpdateTakes DEF PortForwardUpdate
    <3> QED
      BY <2>1, <2>2, <2>6, <3>1, <3>2 DEF PortForwardRead, PortForwardDelete, PortForwardImport
  <2>7. CASE FirewallRuleCreate(r) \/ FirewallRuleUpdate(r) \/ FirewallRuleRead(r) \/ FirewallRuleDelete(r) \/ FirewallRuleImport(r)
    <3>1. CASE FirewallRuleCreate(r)
      BY <2>0, <2>3, <3>1, CreateTakes DEF FirewallRuleCreate
    <3>2. CASE FirewallRuleUpdate(r)
      BY <2>0, <2>3, <3>2, UpdateTakes DEF FirewallRuleUpdate
    <3> QED
      BY <2>1, <2>2, <2>7, <3>1, <3>2 DEF FirewallRuleRead, FirewallRuleDelete, FirewallRuleImport
  <2>8. CASE SwitchPortCreate(r) \/ SwitchPortUpdate(r) \/ SwitchPortRead(r) \/ SwitchPortDelete(r) \/ SwitchPortImport(r)
    <3>1. CASE SwitchPortCreate(r)
      BY <2>0, <2>3, <3>1, CreateTakes DEF SwitchPortCreate
    <3>2. CASE SwitchPortUpdate(r)
      BY <2>0, <2>3, <3>2, UpdateTakes DEF SwitchPortUpdate
    <3> QED
      BY <2>1, <2>8, <3>1, <3>2 DEF SwitchPortRead, SwitchPortImport, ElementStep
  <2>9. CASE ReservationCreate(r) \/ ReservationUpdate(r) \/ ReservationRead(r) \/ ReservationDelete(r) \/ ReservationImport(r)
    <3>1. CASE ReservationCreate(r)
      BY <2>0, <2>3, <3>1, CreateTakes DEF ReservationCreate
    <3>2. CASE ReservationUpdate(r)
      BY <2>0, <2>3, <3>2, UpdateTakes DEF ReservationUpdate
    <3> QED
      BY <2>1, <2>2, <2>9, <3>1, <3>2 DEF ReservationRead, ReservationDelete, ReservationImport
  <2> QED
    BY <1>1, <2>4, <2>5, <2>6, <2>7, <2>8, <2>9 DEF Element
<1>2. ASSUME Configuration
      PROVE  (\E m \in ConfWanted[focus] : ConfApply(conf, m)) \/ ConfRead \/ ConfDelete \/ ConfImport
  BY <1>2 DEF Configuration, ConfCreate, ConfUpdate
<1> QED
  BY <1>1, <1>2 DEF Next

-----------------------------------------------------------------------------
(* The cloud stays regular.                                                  *)

\* Where an element resource's identity comes from.
Owned(r, id) == id \in NewIDs \/ \E w \in Wanted[focus][r] : w.id = <<id>>
\* The state of each element resource names one item, and no two name the same.
IsState(x) == x = [id |-> x.id, m |-> x.m, derived |-> x.derived]
Stated ==
  \A r \in Slots : tf[r] # <<>> =>
    /\ tf[r] = <<tf[r][1]>> /\ IsState(tf[r][1])
    /\ Names(focus, tf[r][1].id) /\ Owned(r, tf[r][1].id)
    /\ \A q \in Slots \ {r} : tf[q] # <<>> => tf[q][1].id # tf[r][1].id
Orderly == Documented /\ Regular(cloud) /\ Sortable(cloud) /\ Stated

LEMMA TakenIsOwned ==
  ASSUME Documented, Stated, NEW r \in Slots, NEW id, TakesID(r, id)
  PROVE  /\ Owned(r, id) /\ Names(focus, id)
         /\ \A q \in Slots \ {r} : tf[q] # <<>> => tf[q][1].id # id
<1>0. focus \in ToSet(Sections)
  BY DEF Documented
<1>1. CASE \E w \in Wanted[focus][r] : w.id = <<id>>
  <2>1. PICK w \in Wanted[focus][r] : w.id = <<id>>
    BY <1>1
  <2>2. Names(focus, id) /\ id \notin NewIDs /\ \A q \in Slots \ {r} : \A v \in Wanted[focus][q] : v.id # w.id
    <3>1. w.id # <<>> /\ w.id[1] = id
      BY <2>1
    <3> QED
      BY <1>0, <3>1, WantedAssumption
  <2>3. \A q \in Slots \ {r} : tf[q] # <<>> => tf[q][1].id # id
    BY <2>1, <2>2 DEF Stated, Owned
  <2> QED
    BY <2>1, <2>2, <2>3 DEF Owned
<1>2. CASE /\ id \in NewIDs /\ focus \in {"PortForwards", "FirewallRules", "StaticRoutes"}
           /\ tf[r] = <<>> /\ \A q \in Slots : tf[q] # <<>> => tf[q][1].id # id
  BY <1>2 DEF Owned, Names
<1>3. CASE tf[r] # <<>> /\ tf[r][1].id = id
  BY <1>3 DEF Stated
<1> QED
  BY <1>1, <1>2, <1>3 DEF TakesID

LEMMA OwnedIsOrdered ==
  ASSUME Documented, NEW r \in Slots, NEW id, Owned(r, id)
  PROVE  id \in ToSet(Lexical)
<1>1. focus \in ToSet(Sections)
  BY DEF Documented
<1>2. CASE id \in NewIDs
  BY <1>2, NewIDsAssumption
<1>3. CASE \E w \in Wanted[focus][r] : w.id = <<id>>
  <2>1. PICK w \in Wanted[focus][r] : w.id = <<id>>
    BY <1>3
  <2>2. w.id # <<>> /\ w.id[1] = id
    BY <2>1
  <2> QED
    BY <1>1, <2>1, <2>2, WantedAssumption
<1> QED
  BY <1>2, <1>3 DEF Owned

\* An item is known by the identity it was made of.
LEMMA ItemNamed ==
  ASSUME NEW s \in ToSet(Sections), NEW id, Names(s, id), NEW m
  PROVE  Identity(s, DomainItem(s, id, m)) = id
<1> DEFINE item == DomainItem(s, id, m)
<1>1. item[IdentityField(s)] = KeyOf(s, id)
  BY ItemIdentity DEF DomainItem
<1>2. CASE s = "VLANs"
  <2>1. item.ID = Decimal[id] /\ id \in DOMAIN Decimal /\ ToString(Decimal[id]) = id
    BY <1>1, <1>2 DEF IdentityField, KeyOf, Names
  <2> HIDE DEF item
  <2>2. item.ID \in Int
    BY <2>1, DecimalAssumption
  <2>3. Text(item.ID) = id
    BY <2>1, <2>2 DEF Text
  <2>4. Identity(s, item) = Text(item.ID)
    BY <1>2 DEF Identity
  <2> QED
    BY <2>3, <2>4 DEF item
<1>3. CASE s = "SwitchPorts"
  <2>1. item.Port = Decimal[id] /\ id \in DOMAIN Decimal /\ ToString(Decimal[id]) = id
    BY <1>1, <1>3 DEF IdentityField, KeyOf, Names
  <2> HIDE DEF item
  <2>2. item.Port \in Int
    BY <2>1, DecimalAssumption
  <2>3. Text(item.Port) = id
    BY <2>1, <2>2 DEF Text
  <2>4. Identity(s, item) = Text(item.Port)
    BY <1>3 DEF Identity
  <2> QED
    BY <2>3, <2>4 DEF item
<1>4. CASE s = "DHCPReservations"
  <2>1. item.MAC = id
    BY <1>1, <1>4 DEF IdentityField, KeyOf
  <2> HIDE DEF item
  <2>2. Identity(s, item) = id
    BY <1>4, <2>1 DEF Identity
  <2> QED
    BY <2>2 DEF item
<1>5. CASE s \notin {"VLANs", "SwitchPorts", "DHCPReservations"}
  <2>1. item.ID = id
    BY <1>1, <1>5 DEF IdentityField, KeyOf
  <2> HIDE DEF item
  <2>2. Identity(s, item) = id
    BY <1>5, <2>1 DEF Identity
  <2> QED
    BY <2>2 DEF item
<1> QED
  BY <1>2, <1>3, <1>4, <1>5

\* A configuration a transaction carries out: one that has its types and no error, and of the
\* keyed sections ids that can be ordered.
Spelled(c) == \A s \in Keyed : c[s] # <<>> => \A x \in ToSet(c[s][1]) : x.ID \in ToSet(Lexical)
Sound(c) == IsConfig(c) /\ ~ConfigError(c, cloud) /\ Spelled(c)

LEMMA KeyedIs ==
  ASSUME NEW s \in Keyed
  PROVE  /\ s \in DOMAIN Codec /\ s \in ToSet(Sections) /\ s # "FirewallRules" /\ s # "VLANs"
         /\ \A x : Identity(s, x) = x.ID
BY DEF Keyed, Codec, Sections, ToSet, Identity

LEMMA SoundFits ==
  ASSUME Orderly, NEW c, Sound(c)
  PROVE  /\ Fits(c) /\ (c["SwitchPorts"] # <<>> => cloud.device # Null)
         /\ Regular(Post(cloud, Plan(c, cloud)))
         /\ Regular(Post(Post(cloud, Plan(c, cloud)), PreImages(cloud, Plan(c, cloud))))
<1>1. Fits(c) /\ (c["SwitchPorts"] # <<>> => cloud.device # Null)
  BY ConfigFits, NoErrorDevice DEF Sound
<1>2. Regular(cloud)
  BY DEF Orderly
<1> QED
  BY <1>1, <1>2, PlanRegular, UndoneIsRegular

\* The configurations of the element resources and of alta_router_config.
PutConfig(id, m) == Desired(focus, PutItem(focus, ReadSection(focus, cloud), DomainItem(focus, id, m)))
DropConfig(id) == Desired(focus, DropItem(focus, ReadSection(focus, cloud), id))

LEMMA PutIsSound ==
  ASSUME Orderly, NEW r \in Slots, NEW id, NEW m, PutStep(r, id, m)
  PROVE  Sound(PutConfig(id, m))
<1> DEFINE items == PutItem(focus, ReadSection(focus, cloud), DomainItem(focus, id, m))
<1>1. focus \in ToSet(Sections) /\ IsSection(focus, ReadSection(focus, cloud))
  BY ReadIsSection DEF Orderly, Documented
<1>2. IsSection(focus, items)
  BY <1>1, PutItemIs DEF PutStep
<1>3. ~ConfigError(PutConfig(id, m), cloud)
  BY DEF PutStep, Put, ElementApply, Transact, PutConfig
<1>4. IsConfig(Desired(focus, items)) /\ Desired(focus, items)[focus] = <<items>>
      /\ \A t \in ToSet(Sections) : t # focus => Desired(focus, items)[t] = <<>>
  <2> HIDE DEF items
  <2> QED
    BY <1>1, <1>2, DesiredIsConfig
<1>5. ASSUME focus \in Keyed, NEW x \in ToSet(items) PROVE x.ID \in ToSet(Lexical)
  <2> DEFINE item == DomainItem(focus, id, m)
             was == ReadSection(focus, cloud)
  <2>1. item.ID \in ToSet(Lexical)
    <3>1. Owned(r, id) /\ Names(focus, id)
      BY TakenIsOwned DEF PutStep, Orderly
    <3>2. id \in ToSet(Lexical)
      BY <3>1, OwnedIsOrdered DEF Orderly
    <3>3. item.ID = id
      BY <1>1, <1>5, <3>1, ItemNamed, KeyedIs
    <3> QED
      BY <3>2, <3>3
  <2>2. \A y \in ToSet(was) : y.ID \in ToSet(Lexical)
    BY <1>5 DEF Orderly, Sortable
  <2>3. DOMAIN was = 1..Len(was) /\ DOMAIN items = 1..Len(items) /\ Len(was) \in Nat
    BY <1>1, <1>2, ListingDomain DEF IsSection, Listing
  <2>4. \A i \in 1..Len(items) : items[i] = item \/ \E j \in 1..Len(was) : items[i] = was[j]
    <3>1. IsItem(focus, item)
      BY DEF PutStep
    <3>0. IsSection(focus, was) /\ items = PutItem(focus, was, item)
      BY <1>1
    <3> HIDE DEF item, was, items
    <3>2. \/ Len(items) = Len(was) + 1 /\ items[Len(was) + 1] = item /\ \A i \in 1..Len(was) : items[i] = was[i]
          \/ Len(items) = Len(was) /\ \E k \in 1..Len(was) : items[k] = item /\ \A i \in 1..Len(was) : i # k => items[i] = was[i]
      BY <3>0, <3>1, PutItemIs
    <3>3. ASSUME NEW i \in 1..Len(items) PROVE items[i] = item \/ \E j \in 1..Len(was) : items[i] = was[j]
      <4>1. CASE Len(items) = Len(was) + 1 /\ items[Len(was) + 1] = item /\ \A j \in 1..Len(was) : items[j] = was[j]
        <5>1. i \in 1..Len(was) \/ i = Len(was) + 1
          BY <2>3, <4>1
        <5> QED
          BY <4>1, <5>1
      <4>2. CASE Len(items) = Len(was) /\ \E k \in 1..Len(was) : items[k] = item /\ \A j \in 1..Len(was) : j # k => items[j] = was[j]
        BY <4>2
      <4> QED
        BY <3>2, <4>1, <4>2
    <3> QED
      BY <3>3
  <2> HIDE DEF items, was, item
  <2> QED
    BY <1>5, <2>1, <2>2, <2>3, <2>4 DEF ToSet
<1> HIDE DEF items
<1>6. Spelled(Desired(focus, items))
  BY <1>4, <1>5, KeyedIs DEF Spelled
<1> QED
  BY <1>3, <1>4, <1>6 DEF Sound, PutConfig, items

LEMMA DropIsSound ==
  ASSUME Orderly, NEW r, Drop(focus, r)
  PROVE  Sound(DropConfig(tf[r][1].id))
<1> DEFINE id == tf[r][1].id
           items == DropItem(focus, ReadSection(focus, cloud), id)
<1>1. focus \in ToSet(Sections) /\ IsSection(focus, ReadSection(focus, cloud))
  BY ReadIsSection DEF Orderly, Documented
<1>2. IsSection(focus, items)
  BY <1>1, DropItemIs
<1>3. ~ConfigError(DropConfig(id), cloud)
  BY DEF Drop, ElementApply, Transact, DropConfig
<1>4. IsConfig(Desired(focus, items)) /\ Desired(focus, items)[focus] = <<items>>
      /\ \A t \in ToSet(Sections) : t # focus => Desired(focus, items)[t] = <<>>
  <2> HIDE DEF items
  <2> QED
    BY <1>1, <1>2, DesiredIsConfig
<1>5. ASSUME focus \in Keyed, NEW x \in ToSet(items) PROVE x.ID \in ToSet(Lexical)
  <2> DEFINE was == ReadSection(focus, cloud)
  <2>1. \A y \in ToSet(was) : y.ID \in ToSet(Lexical)
    BY <1>5 DEF Orderly, Sortable
  <2>2. DOMAIN was = 1..Len(was) /\ DOMAIN items = 1..Len(items)
    BY <1>1, <1>2, ListingDomain DEF IsSection
  <2>3. \A i \in 1..Len(items) : \E j \in 1..Len(was) : items[i] = was[j]
    BY <1>1, DropItemIs
  <2> HIDE DEF items, was
  <2> QED
    BY <1>5, <2>1, <2>2, <2>3 DEF ToSet
<1> HIDE DEF items
<1>6. Spelled(Desired(focus, items))
  BY <1>4, <1>5, KeyedIs DEF Spelled
<1> QED
  BY <1>3, <1>4, <1>6 DEF Sound, DropConfig, items

LEMMA ConfIsSound ==
  ASSUME NEW m, Askable(m), ~ToConfigError(m), ~ConfigError(ToConfig(m), cloud)
  PROVE  Sound(ToConfig(m))
<1>2. ASSUME NEW s \in Keyed, ToConfig(m)[s] # <<>>, NEW x \in ToSet(ToConfig(m)[s][1]) PROVE x.ID \in ToSet(Lexical)
  <2>1. s \in ToSet(Sections) /\ s # "FirewallRules" /\ s # "VLANs" /\ s # "SwitchPorts" /\ IdentityField(s) = "ID"
    BY <1>2, KeyedIs DEF Keyed, IdentityField
  <2>2. m[s] # <<>> /\ ToConfig(m)[s] = <<ConvertMap(s, m[s][1])>>
    BY <1>2, <2>1 DEF ToConfig
  <2> DEFINE section == m[s][1]
             items == ConvertMap(s, section)
  <2>3. IsFiniteSet(DOMAIN section) /\ DOMAIN section \subseteq ToSet(Lexical)
    BY <2>1, <2>2 DEF Askable
  <2>4. DOMAIN items = 1..Len(items) /\ \A i \in 1..Len(items) : \E k \in DOMAIN section : items[i] = Item(s, KeyOf(s, k), section[k])
    BY <2>3, MapConverts
  <2>5. PICK i \in 1..Len(items) : x = items[i]
    BY <1>2, <2>2, <2>4 DEF ToSet
  <2>6. PICK k \in DOMAIN section : x = Item(s, KeyOf(s, k), section[k])
    BY <2>4, <2>5
  <2>7. x.ID = k
    BY <2>1, <2>6, ItemIdentity DEF KeyOf
  <2> QED
    BY <2>3, <2>7
<1> QED
  BY <1>2, AskedIsConfig DEF Sound, Spelled

LEMMA AskedIsSound ==
  ASSUME Orderly, NEW prior, NEW m \in ConfWanted[focus], ConfApply(prior, m)
  PROVE  Sound(ToConfig(m))
<1>1. Askable(m) /\ ~ToConfigError(m) /\ ~ConfigError(ToConfig(m), cloud)
  BY ConfWantedAssumption DEF Orderly, Documented, ConfApply
<1> QED
  BY <1>1, ConfIsSound

\* What a step makes of the cloud: what its configuration plans, the cloud as it was, or an edit.
CloudSteps ==
  \/ cloud' = cloud
  \/ \E c : Sound(c) /\ (cloud' = Post(cloud, Plan(c, cloud)) \/ cloud' = Post(Post(cloud, Plan(c, cloud)), PreImages(cloud, Plan(c, cloud))))
  \/ cloud' \in Edited(focus, cloud)

LEMMA EveryCloudStep ==
  ASSUME Orderly, [Next]_vars
  PROVE  CloudSteps
<1>1. CASE UNCHANGED vars
  BY <1>1 DEF vars, CloudSteps
<1>2. CASE Next
  <2>1. ASSUME NEW r \in Slots, NEW id, NEW m, PutStep(r, id, m) PROVE CloudSteps
    <3>1. Sound(PutConfig(id, m))
      BY <2>1, PutIsSound
    <3>2. LET c == PutConfig(id, m) IN
          cloud' = Post(cloud, Plan(c, cloud)) \/ cloud' = Post(Post(cloud, Plan(c, cloud)), PreImages(cloud, Plan(c, cloud)))
      BY <2>1 DEF PutStep, Put, ElementApply, Transact, Applied, RolledBack, PutConfig
    <3> QED
      BY <3>1, <3>2 DEF CloudSteps
  <2>2. ASSUME NEW r \in Slots, Drop(focus, r) PROVE CloudSteps
    <3>1. Sound(DropConfig(tf[r][1].id))
      BY <2>2, DropIsSound
    <3>2. LET c == DropConfig(tf[r][1].id) IN
          cloud' = Post(cloud, Plan(c, cloud)) \/ cloud' = Post(Post(cloud, Plan(c, cloud)), PreImages(cloud, Plan(c, cloud)))
      BY <2>2 DEF Drop, ElementApply, Transact, Applied, RolledBack, DropConfig
    <3> QED
      BY <3>1, <3>2 DEF CloudSteps
  <2>3. ASSUME NEW m \in ConfWanted[focus], ConfApply(conf, m) PROVE CloudSteps
    <3>1. Sound(ToConfig(m))
      BY <2>3, AskedIsSound
    <3>2. LET c == ToConfig(m) IN
          cloud' = Post(cloud, Plan(c, cloud)) \/ cloud' = Post(Post(cloud, Plan(c, cloud)), PreImages(cloud, Plan(c, cloud)))
      BY <2>3 DEF ConfApply, Applied, RolledBack
    <3> QED
      BY <3>1, <3>2 DEF CloudSteps
  <2>4. ASSUME NEW r \in Slots, ReadState(focus, r) \/ ImportItem(focus, r) \/ SwitchPortDelete(r) PROVE CloudSteps
    BY <2>4 DEF ReadState, ImportItem, SwitchPortDelete, CloudSteps
  <2>5. CASE ConfRead \/ ConfDelete \/ ConfImport
    BY <2>5 DEF ConfRead, ConfDelete, ConfImport, CloudSteps
  <2>6. CASE PortalEdit
    BY <2>6 DEF PortalEdit, CloudSteps
  <2> QED
    BY <1>2, <2>1, <2>2, <2>3, <2>4, <2>5, <2>6, StepKinds DEF Orderly, ElementStep
<1> QED
  BY <1>1, <1>2

\* A resource that takes an identity has a state again that names one item.
LEMMA NewlyStated ==
  ASSUME Orderly, NEW r \in Slots, NEW x, IsState(x), TakesID(r, x.id),
         tf' = [tf EXCEPT ![r] = <<x>>], focus' = focus
  PROVE  Stated'
<1>1. /\ Owned(r, x.id) /\ Names(focus, x.id)
      /\ \A q \in Slots \ {r} : tf[q] # <<>> => tf[q][1].id # x.id
  BY TakenIsOwned DEF Orderly
<1>2. tf'[r] = <<x>> /\ tf'[r][1] = x /\ \A q \in Slots \ {r} : tf'[q] = tf[q]
  BY DEF Orderly, Documented
<1>3. \A q \in Slots : tf[q] # <<>> =>
        /\ tf[q] = <<tf[q][1]>> /\ IsState(tf[q][1]) /\ Names(focus, tf[q][1].id) /\ Owned(q, tf[q][1].id)
        /\ \A p \in Slots \ {q} : tf[p] # <<>> => tf[p][1].id # tf[q][1].id
  BY DEF Orderly, Stated
<1>4. \A q \in Slots : \A id : Owned(q, id)' <=> Owned(q, id)
  BY DEF Owned
<1> QED
  BY <1>1, <1>2, <1>3, <1>4 DEF Stated

LEMMA StillStated ==
  ASSUME Stated, focus' = focus, tf' = tf
  PROVE  Stated'
BY DEF Stated, Owned

LEMMA Unstated ==
  ASSUME Orderly, NEW r \in Slots, tf' = [tf EXCEPT ![r] = <<>>], focus' = focus
  PROVE  Stated'
<1>1. tf'[r] = <<>> /\ \A q \in Slots \ {r} : tf'[q] = tf[q]
  BY DEF Orderly, Documented
<1> QED
  BY <1>1 DEF Orderly, Stated, Owned

LEMMA StatedStep ==
  ASSUME Orderly, [Next]_vars
  PROVE  Stated'
<1>0. Stated
  BY DEF Orderly
<1>1. CASE UNCHANGED vars
  BY <1>0, <1>1, StillStated DEF vars
<1>2. ASSUME NEW s, NEW items, NEW r, NEW state, ElementApply(s, items, r, state)
      PROVE  focus' = focus /\ (tf' = tf \/ tf' = [tf EXCEPT ![r] = state])
  BY <1>2 DEF ElementApply, Transact, RolledBack
<1>3. ASSUME NEW r \in Slots, NEW id, NEW m, PutStep(r, id, m) PROVE Stated'
  <2> DEFINE x == [StateOf(focus, id, DomainItem(focus, id, m)) EXCEPT !.m = m]
  <2>1. focus' = focus /\ (tf' = tf \/ tf' = [tf EXCEPT ![r] = <<x>>])
    BY <1>2, <1>3 DEF PutStep, Put
  <2>2. IsState(x) /\ x.id = id
    BY DEF IsState, StateOf
  <2>3. TakesID(r, id)
    BY <1>3 DEF PutStep
  <2> HIDE DEF x
  <2> QED
    BY <1>0, <2>1, <2>2, <2>3, NewlyStated, StillStated
<1>4. ASSUME NEW r \in Slots, Drop(focus, r) PROVE Stated'
  <2>1. focus' = focus /\ (tf' = tf \/ tf' = [tf EXCEPT ![r] = <<>>])
    BY <1>2, <1>4 DEF Drop
  <2> QED
    BY <1>0, <2>1, Unstated, StillStated
<1>5. ASSUME NEW r \in Slots, ReadState(focus, r) PROVE Stated'
  <2>1. focus' = focus /\ tf[r] # <<>> /\ tf' = [tf EXCEPT ![r] = Refreshed(focus, tf[r][1])]
    BY <1>5 DEF ReadState
  <2>2. CASE Refreshed(focus, tf[r][1]) = <<>>
    BY <2>1, <2>2, Unstated
  <2>3. CASE Refreshed(focus, tf[r][1]) # <<>>
    <3>1. PICK item : Refreshed(focus, tf[r][1]) = <<StateOf(focus, tf[r][1].id, item)>>
      BY <2>3 DEF Refreshed
    <3> DEFINE x == StateOf(focus, tf[r][1].id, item)
    <3>2. IsState(x) /\ x.id = tf[r][1].id
      BY DEF IsState, StateOf
    <3> HIDE DEF x
    <3>3. TakesID(r, x.id)
      BY <2>1, <3>2 DEF TakesID
    <3> QED
      BY <2>1, <3>1, <3>2, <3>3, NewlyStated DEF x
  <2> QED
    BY <2>2, <2>3
<1>6. ASSUME NEW r \in Slots, ImportItem(focus, r) PROVE Stated'
  <2>1. PICK w \in Wanted[focus][r] :
          /\ w.id # <<>>
          /\ tf' = [tf EXCEPT ![r] = <<StateOf(focus, w.id[1], Find(cloud, focus, w.id[1])[1])>>]
    BY <1>6 DEF ImportItem
  <2> DEFINE x == StateOf(focus, w.id[1], Find(cloud, focus, w.id[1])[1])
  <2>2. IsState(x) /\ x.id = w.id[1]
    BY DEF IsState, StateOf
  <2> HIDE DEF x
  <2>3. w.id = <<w.id[1]>>
    BY <2>1, WantedAssumption DEF Orderly, Documented
  <2>4. TakesID(r, x.id)
    BY <2>1, <2>2, <2>3 DEF TakesID
  <2>5. focus' = focus
    BY <1>6 DEF ImportItem
  <2> QED
    BY <2>1, <2>2, <2>4, <2>5, NewlyStated DEF x
<1>7. ASSUME NEW r \in Slots, SwitchPortDelete(r) PROVE Stated'
  BY <1>7, Unstated DEF SwitchPortDelete
<1>8. ASSUME ConfRead \/ ConfDelete \/ ConfImport \/ PortalEdit PROVE Stated'
  BY <1>0, <1>8, StillStated DEF ConfRead, ConfDelete, ConfImport, PortalEdit
<1>9. ASSUME NEW m, ConfApply(conf, m) PROVE Stated'
  <2>1. focus' = focus /\ tf' = tf
    BY <1>9 DEF ConfApply, RolledBack
  <2> QED
    BY <1>0, <2>1, StillStated
<1>10. CASE Next
  BY <1>3, <1>4, <1>5, <1>6, <1>7, <1>8, <1>9, <1>10, StepKinds DEF Orderly, ElementStep
<1> QED
  BY <1>1, <1>10

\* What a sound configuration leaves of ids that can be ordered is ids that can be ordered.
LEMMA AppliedIsSortable ==
  ASSUME Orderly, NEW c, Sound(c)
  PROVE  /\ Sortable(Post(cloud, Plan(c, cloud)))
         /\ Sortable(Post(Post(cloud, Plan(c, cloud)), PreImages(cloud, Plan(c, cloud))))
<1> DEFINE u == Post(cloud, Plan(c, cloud))
           v == Post(u, PreImages(cloud, Plan(c, cloud)))
<1>1. Fits(c) /\ (c["SwitchPorts"] # <<>> => cloud.device # Null) /\ Regular(cloud) /\ Ready(cloud)
  BY SoundFits DEF Orderly, Regular
<1>2. ASSUME NEW s \in Keyed, NEW x \in ToSet(ReadSection(s, u)) PROVE x.ID \in ToSet(Lexical)
  <2> DEFINE was == ReadSection(s, cloud)
             is == ReadSection(s, u)
             items == c[s][1]
  <2>1. IF c[s] = <<>> THEN is = was ELSE ReadsBack(s, items, was, is)
    BY <1>1, KeyedIs, AppliedReadsBack DEF Sound
  <2>2. CASE c[s] = <<>>
    BY <1>2, <2>1, <2>2 DEF Orderly, Sortable
  <2>3. CASE c[s] # <<>>
    <3>1. DOMAIN is = 1..Len(is) /\ ListAsAsked(s, items, is) /\ s \in DOMAIN Codec
      BY <2>1, <2>3, KeyedIs DEF ReadsBack
    <3>2. PICK i \in 1..Len(is) : x = is[i]
      BY <1>2, <3>1 DEF ToSet
    <3>3. PICK j \in 1..Len(items) : \A f \in DOMAIN Codec[s].row : ReadsAs(Codec[s].row[f][3], is[i][f], items[j][f])
      BY <3>1 DEF ListAsAsked
    <3>4. is[i].ID = items[j].ID
      BY <3>1, <3>3, RowsRead, KeyedIs
    <3>5. DOMAIN items = 1..Len(items)
      BY <2>3, <3>1, <1>1, ListingDomain DEF Fits, Listable
    <3>6. items[j] \in ToSet(items)
      BY <3>5 DEF ToSet
    <3> QED
      BY <2>3, <3>2, <3>4, <3>6 DEF Sound, Spelled
  <2> QED
    BY <2>2, <2>3
<1>3. Sortable(u)
  BY <1>2 DEF Sortable
<1>4. \A kind \in Kinds : \A key : Says(cloud, kind, key) = Says(v, kind, key)
  BY <1>1, UndoneIsRegular
<1>5. Read(v) = Read(cloud)
  <2> HIDE DEF v
  <2> QED
    BY <1>4, ReadSame
<1>6. ASSUME NEW s \in Keyed PROVE ReadSection(s, v) = ReadSection(s, cloud)
  <2> HIDE DEF v
  <2>1. Read(v)[s] = ReadSection(s, v) /\ Read(cloud)[s] = ReadSection(s, cloud)
    BY KeyedIs DEF Read
  <2> QED
    BY <1>5, <2>1
<1>7. Sortable(v)
  <2> HIDE DEF v
  <2> QED
    BY <1>6 DEF Sortable, Orderly
<1> QED
  BY <1>3, <1>7

LEMMA OrderlyStep ==
  ASSUME Orderly, [Next]_vars
  PROVE  Orderly'
<1>1. Documented'
  BY StepUndone DEF Orderly
<1>2. Regular(cloud') /\ Sortable(cloud')
  <2>1. Regular(cloud) /\ Sortable(cloud) /\ focus \in ToSet(Sections)
    BY DEF Orderly, Documented
  <2>2. ASSUME NEW c, Sound(c),
               cloud' = Post(cloud, Plan(c, cloud)) \/ cloud' = Post(Post(cloud, Plan(c, cloud)), PreImages(cloud, Plan(c, cloud)))
        PROVE  Regular(cloud') /\ Sortable(cloud')
    BY <2>2, SoundFits, AppliedIsSortable
  <2> QED
    BY <2>1, <2>2, EveryCloudStep, PortalKeepsRegular DEF CloudSteps
<1>3. Stated'
  BY StatedStep
<1> QED
  BY <1>1, <1>2, <1>3 DEF Orderly

LEMMA AlwaysOrderly == Spec => []Orderly
<1>1. Init => Orderly
  <2>1. Init => Stated
    BY DEF Init, Stated
  <2> QED
    BY <2>1, InitDocumented, RegularAssumption DEF Init, Orderly
<1>2. Orderly /\ [Next]_vars => Orderly'
  BY OrderlyStep
<1> QED
  BY <1>1, <1>2, PTL DEF Spec

\* Whatever the resources write, a rollback takes back and the portal edits, the cloud stays of
\* the form the codecs rely on: objects where they look for objects, elements that each have an
\* id of their own, networks that can be ordered, and records of clients that have a MAC address.
THEOREM CloudStaysRegular == Spec => []Regular(cloud)
<1>1. Orderly => Regular(cloud)
  BY DEF Orderly
<1> QED
  BY <1>1, AlwaysOrderly, PTL

\* No two element resources of one configuration ever name the same item, and each names one
\* that Terraform's configuration or the provider gave it (element.go: Create, Update, ImportState).
THEOREM NoItemIsShared == Spec => []Stated
<1>1. Orderly => Stated
  BY DEF Orderly
<1> QED
  BY <1>1, AlwaysOrderly, PTL

-----------------------------------------------------------------------------
(* What reads back means the same.                                           *)

\* Lists with the same members as often have the same members.
LEMMA SameSets ==
  ASSUME NEW a, NEW b, Listing(a), Listing(b), SameMembers(a, b)
  PROVE  ToSet(a) = ToSet(b) /\ (a = <<>> <=> b = <<>>)
<1> DEFINE at(q, x) == {i \in DOMAIN q : q[i] = x}
           n == Len(a)
<1>1. n \in Nat /\ Len(b) = n /\ DOMAIN a = 1..n /\ DOMAIN b = 1..n
  BY ListingDomain DEF Listing, SameMembers
<1>2. \A x \in ToSet(a) : Cardinality(at(a, x)) = Cardinality(at(b, x))
  BY DEF SameMembers
<1>3. \A x : IsFiniteSet(at(a, x)) /\ IsFiniteSet(at(b, x))
  <2> TAKE x
  <2>1. at(a, x) \subseteq 1..n /\ at(b, x) \subseteq 1..n
    BY <1>1
  <2>2. IsFiniteSet(1..n)
    BY <1>1, FS_Interval
  <2> HIDE DEF at
  <2> QED
    BY <2>1, <2>2, FS_Subset
<1> HIDE DEF at
<1>4. \A x \in ToSet(a) : \E g : g \in Bijection(at(a, x), at(b, x))
  BY <1>2, <1>3, FS_SameCardinalityBij DEF ExistsBijection
<1> DEFINE g(x) == CHOOSE g : g \in Bijection(at(a, x), at(b, x))
           h == [i \in 1..n |-> g(a[i])[i]]
<1>5. \A x \in ToSet(a) : g(x) \in Bijection(at(a, x), at(b, x))
  BY <1>4
<1>6. \A i \in 1..n : a[i] \in ToSet(a) /\ i \in at(a, a[i])
  BY <1>1 DEF ToSet, at
<1> HIDE DEF g
<1>7. \A i \in 1..n : h[i] \in 1..n /\ b[h[i]] = a[i]
  <2> TAKE i \in 1..n
  <2>1. g(a[i])[i] \in at(b, a[i])
    BY <1>5, <1>6 DEF Bijection, Injection
  <2> QED
    BY <1>1, <2>1 DEF at
<1>8. h \in Injection(1..n, 1..n)
  <2>1. h \in [1..n -> 1..n]
    BY <1>7
  <2>2. ASSUME NEW i \in 1..n, NEW j \in 1..n, h[i] = h[j] PROVE i = j
    <3>1. a[i] = a[j]
      BY <1>7, <2>2
    <3>2. g(a[i])[i] = g(a[i])[j] /\ i \in at(a, a[i]) /\ j \in at(a, a[i])
      BY <1>6, <2>2, <3>1
    <3>3. g(a[i]) \in Bijection(at(a, a[i]), at(b, a[i]))
      BY <1>5, <1>6
    <3> QED
      BY <3>2, <3>3 DEF Bijection, Injection, IsInjective
  <2> QED
    BY <2>1, <2>2 DEF Injection, IsInjective
<1> HIDE DEF h
<1>9. h \in Surjection(1..n, 1..n)
  BY <1>1, <1>8, FS_Injection, FS_Interval
<1>10. ASSUME NEW j \in 1..n PROVE b[j] \in ToSet(a)
  <2>1. PICK i \in 1..n : h[i] = j
    BY <1>9 DEF Surjection
  <2> QED
    BY <1>6, <1>7, <2>1
<1>11. \A i \in 1..n : a[i] \in ToSet(b)
  BY <1>1, <1>7 DEF ToSet
<1>12. ToSet(a) = ToSet(b)
  BY <1>1, <1>10, <1>11 DEF ToSet
<1>13. a = <<>> <=> b = <<>>
  <2>1. a = <<>> <=> n = 0
    BY <1>1 DEF Listing
  <2>2. b = <<>> <=> n = 0
    BY <1>1 DEF Listing
  <2> QED
    BY <2>1, <2>2
<1> QED
  BY <1>12, <1>13

LEMMA StoredOnce ==
  ASSUME NEW kind, NEW x, Plain(kind, x)
  PROVE  Stored(kind, Stored(kind, x)) = Stored(kind, x)
<1>1. \A p : Unpadded(Unpadded(p)) = Unpadded(p)
  BY DecimalAssumption DEF Unpadded
<1>2. \A q : NamesIn(NamesIn(q)) = NamesIn(q) /\ (q # <<"">> => NamesIn(q) # <<"">>) /\ NamesIn(<<>>) = <<>>
  BY RejoinedAssumption DEF NamesIn
<1>3. CASE kind = "endpoint"
  BY <1>1, <1>3 DEF Stored
<1>4. CASE kind = "csv"
  BY <1>2, <1>4 DEF Stored
<1>5. CASE kind \notin {"endpoint", "csv"}
  BY <1>5 DEF Stored
<1> QED
  BY <1>3, <1>4, <1>5

LEMMA AlikeValues ==
  ASSUME NEW kind, NEW mk, <<kind, mk>> \in Attributes, NEW x, NEW y, Plain(kind, x), Plain(kind, y), ReadsAs(kind, x, y)
  PROVE  ModelValue(mk, Stored(kind, x)) = ModelValue(mk, Stored(kind, y))
<1>1. CASE kind = "set"
  <2>1. Stored(kind, x) = x /\ Stored(kind, y) = y
    BY <1>1 DEF Stored
  <2>2. ToSet(x) = ToSet(y) /\ (x = <<>> <=> y = <<>>)
    BY <1>1, <2>1, SameSets DEF Plain, ReadsAs
  <2> QED
    BY <1>1, <2>1, <2>2 DEF Attributes, ModelValue
<1>2. CASE kind # "set"
  BY <1>2, StoredOnce DEF ReadsAs
<1> QED
  BY <1>1, <1>2

LEMMA AlikeItems ==
  ASSUME NEW s \in DOMAIN Codec, NEW x, NEW y, PlainItem(s, x), PlainItem(s, y),
         \A f \in DOMAIN Codec[s].row : ReadsAs(Codec[s].row[f][3], x[f], y[f])
  PROVE  Alike(s, x, y)
<1> DEFINE row == Codec[s].row
           k == ModelOf(s)
           a == AsStored(s, x)
           b == AsStored(s, y)
<1>1. s # "SwitchPorts" /\ s # "DHCPReservations"
  BY DEF Codec
<1>2. a = [f \in DOMAIN row |-> Stored(row[f][3], x[f])] /\ b = [f \in DOMAIN row |-> Stored(row[f][3], y[f])]
  BY <1>1 DEF AsStored
<1>3. /\ \A f \in DOMAIN row : f = "ID" \/ (f \in DOMAIN k /\ <<row[f][3], k[f]>> \in Attributes)
      /\ \A f \in DOMAIN k : f \in DOMAIN row /\ f # "ID"
      /\ "ID" \in DOMAIN row /\ row["ID"][3] = IF s = "VLANs" THEN "number" ELSE "string"
  BY RowKinds
<1> HIDE DEF a, b
<1>4. \A f \in DOMAIN k : ModelValue(k[f], a[f]) = ModelValue(k[f], b[f])
  <2> TAKE f \in DOMAIN k
  <2>1. f \in DOMAIN row /\ <<row[f][3], k[f]>> \in Attributes
    BY <1>3
  <2>2. Plain(row[f][3], x[f]) /\ Plain(row[f][3], y[f]) /\ ReadsAs(row[f][3], x[f], y[f])
    BY <2>1 DEF PlainItem
  <2>3. a[f] = Stored(row[f][3], x[f]) /\ b[f] = Stored(row[f][3], y[f])
    BY <1>2, <2>1
  <2> QED
    BY <2>1, <2>2, <2>3, AlikeValues
<1>5. Model(s, a) = Model(s, b)
  <2> HIDE DEF k
  <2>1. [f \in DOMAIN k |-> ModelValue(k[f], a[f])] = [f \in DOMAIN k |-> ModelValue(k[f], b[f])]
    BY <1>4
  <2> QED
    BY <2>1 DEF Model, k
<1>6. a["ID"] = b["ID"]
  <2>1. ReadsAs(row["ID"][3], x["ID"], y["ID"]) /\ a["ID"] = Stored(row["ID"][3], x["ID"]) /\ b["ID"] = Stored(row["ID"][3], y["ID"])
    BY <1>2, <1>3
  <2>2. row["ID"][3] \in {"number", "string"}
    BY <1>3
  <2>3. \A kind \in {"number", "string"} : \A u, v : ReadsAs(kind, u, v) => u = v
    BY DEF ReadsAs, Stored
  <2>4. x["ID"] = y["ID"]
    BY <2>1, <2>2, <2>3
  <2> HIDE DEF row
  <2> QED
    BY <2>1, <2>4
<1>7. Identity(s, a) = Identity(s, b)
  BY <1>6, IdentityRow
<1> QED
  BY <1>5, <1>7 DEF Alike, a, b

LEMMA AlikePorts ==
  ASSUME NEW x, NEW y, PlainPort(x), PlainPort(y), SamePort(x, y)
  PROVE  Alike("SwitchPorts", x, y)
<1>1. x.Port = y.Port /\ x.NativeVLAN = y.NativeVLAN /\ x.AllVLANs = y.AllVLANs
  BY DEF SamePort
<1>2. ToSet(x.TaggedVLANs) = ToSet(y.TaggedVLANs) /\ (x.TaggedVLANs = <<>> <=> y.TaggedVLANs = <<>>)
  BY SameSets DEF SamePort, PlainPort, IntList
<1>3. AsStored("SwitchPorts", x) = x /\ AsStored("SwitchPorts", y) = y
  BY DEF AsStored
<1>4. Model("SwitchPorts", x) = Model("SwitchPorts", y)
  <2> DEFINE k == ModelOf("SwitchPorts")
  <2>1. DOMAIN k = {"NativeVLAN", "AllVLANs", "TaggedVLANs"} /\ k["NativeVLAN"] = "int" /\ k["AllVLANs"] = "bool" /\ k["TaggedVLANs"] = "someset"
    <3>1. k = SwitchPortModel
      BY DEF ModelOf
    <3> QED
      BY <3>1 DEF SwitchPortModel
  <2> HIDE DEF k
  <2>2. ModelValue("someset", x.TaggedVLANs) = ModelValue("someset", y.TaggedVLANs)
    BY <1>2 DEF ModelValue
  <2>3. \A f \in DOMAIN k : ModelValue(k[f], x[f]) = ModelValue(k[f], y[f])
    BY <1>1, <2>1, <2>2
  <2>4. [f \in DOMAIN k |-> ModelValue(k[f], x[f])] = [f \in DOMAIN k |-> ModelValue(k[f], y[f])]
    BY <2>3
  <2> QED
    BY <2>4 DEF Model, k
<1>5. Identity("SwitchPorts", x) = Identity("SwitchPorts", y)
  BY <1>1 DEF Identity
<1> QED
  BY <1>3, <1>4, <1>5 DEF Alike

LEMMA AlikeReservations ==
  ASSUME NEW x, NEW y, x.IP = y.IP, ClientOf[x.MAC] = ClientOf[y.MAC]
  PROVE  Alike("DHCPReservations", x, y)
BY DEF Alike, AsStored

-----------------------------------------------------------------------------
(* alta_router_config is authoritative.                                      *)

LEMMA ListsAsAsked ==
  ASSUME NEW s \in DOMAIN Codec, NEW items, NEW was, NEW is, IsSection(s, items), IsSection(s, is),
         ListAsAsked(s, items, is), Len(is) = Len(items)
  PROVE  AsAsked(s, items, was, is)
<1>0. Listing(items) /\ Listing(is) /\ DOMAIN items = 1..Len(items) /\ DOMAIN is = 1..Len(is)
  BY ListingDomain DEF IsSection
<1>1. /\ \A i \in 1..Len(items) : PlainItem(s, items[i])
      /\ \A i \in 1..Len(is) : PlainItem(s, is[i])
  BY DEF IsSection, IsItem
<1>2. ASSUME NEW i \in 1..Len(is), NEW j \in 1..Len(items),
             \A f \in DOMAIN Codec[s].row : ReadsAs(Codec[s].row[f][3], is[i][f], items[j][f])
      PROVE  Alike(s, is[i], items[j])
  BY <1>1, <1>2, AlikeItems
<1>3. \A x, y : Alike(s, x, y) => Alike(s, y, x)
  BY DEF Alike
<1>4. CASE s = "FirewallRules"
  <2>1. \A i \in 1..Len(items) : Alike(s, is[i], items[i])
    BY <1>2, <1>4 DEF ListAsAsked
  <2> QED
    BY <1>0, <1>4, <2>1 DEF AsAsked
<1>5. CASE s # "FirewallRules"
  <2>1. \A j \in 1..Len(items) : \E i \in 1..Len(is) : Alike(s, items[j], is[i])
    BY <1>2, <1>3 DEF ListAsAsked
  <2>2. Covered(s, ToSet(items), ToSet(is))
    BY <1>0, <2>1 DEF Covered, ToSet
  <2>3. s # "SwitchPorts" /\ s # "DHCPReservations"
    BY DEF Codec
  <2> QED
    BY <1>5, <2>2, <2>3 DEF AsAsked
<1> QED
  BY <1>4, <1>5

LEMMA PortsAsAskedAre ==
  ASSUME NEW items, NEW was, NEW is, IsSection("SwitchPorts", items), IsSection("SwitchPorts", is),
         IsSection("SwitchPorts", was), PortsAsAsked(items, was, is)
  PROVE  AsAsked("SwitchPorts", items, was, is)
<1>0. DOMAIN items = 1..Len(items) /\ DOMAIN is = 1..Len(is) /\ DOMAIN was = 1..Len(was)
  BY ListingDomain DEF IsSection
<1>1. /\ \A i \in 1..Len(items) : PlainPort(items[i])
      /\ \A i \in 1..Len(is) : PlainPort(is[i])
  BY DEF IsSection, IsItem
<1>2. ASSUME NEW i \in 1..Len(is), NEW j \in 1..Len(items), SamePort(is[i], items[j])
      PROVE  Alike("SwitchPorts", is[i], items[j]) /\ Alike("SwitchPorts", items[j], is[i])
  <2>1. Alike("SwitchPorts", is[i], items[j])
    BY <1>1, <1>2, AlikePorts
  <2> QED
    BY <2>1 DEF Alike
<1>3. Covered("SwitchPorts", ToSet(items), ToSet(is))
  <2>1. \A j \in 1..Len(items) : \E i \in 1..Len(is) : Alike("SwitchPorts", items[j], is[i])
    BY <1>2 DEF PortsAsAsked
  <2> QED
    BY <1>0, <2>1 DEF Covered, ToSet
<1>4. \A y \in ToSet(is) : y \in ToSet(was) \/ Covered("SwitchPorts", {y}, ToSet(items))
  <2>1. ASSUME NEW i \in 1..Len(is) PROVE is[i] \in ToSet(was) \/ \E j \in 1..Len(items) : Alike("SwitchPorts", is[i], items[j])
    <3>1. (\E j \in 1..Len(items) : SamePort(is[i], items[j])) \/ \E j \in DOMAIN was : is[i] = was[j]
      BY DEF PortsAsAsked
    <3> QED
      BY <1>2, <3>1 DEF ToSet
  <2> QED
    BY <1>0, <2>1 DEF Covered, ToSet
<1> QED
  BY <1>3, <1>4 DEF AsAsked

LEMMA ReservationsAsAskedAre ==
  ASSUME NEW items, NEW was, NEW is, Listing(is), Reservable(items), ReservationsAsAsked(items, is)
  PROVE  AsAsked("DHCPReservations", items, was, is)
<1> DEFINE own(r) == [MAC |-> MACOf[ClientOf[r.MAC]], IP |-> r.IP]
           given == {x \in ToSet(items) : x.IP # ""}
<1>1. ToSet(is) = {own(r) : r \in given}
  <2>1. DOMAIN is = 1..Len(is)
    BY ListingDomain
  <2> QED
    BY <2>1 DEF ReservationsAsAsked, ToSet
<1>2. ASSUME NEW r \in given
      PROVE  Alike("DHCPReservations", r, own(r)) /\ Alike("DHCPReservations", own(r), r)
  <2>1. r.MAC \in DOMAIN ClientOf
    BY WantedIP DEF Reservable
  <2>2. ClientOf[own(r).MAC] = ClientOf[r.MAC] /\ own(r).IP = r.IP
    BY <2>1, MACAssumption
  <2> HIDE DEF own
  <2> QED
    BY <2>2, AlikeReservations
<1> HIDE DEF own
<1>3. Covered("DHCPReservations", given, ToSet(is)) /\ Covered("DHCPReservations", ToSet(is), given)
  <2> HIDE DEF given
  <2> QED
    BY <1>1, <1>2 DEF Covered
<1> QED
  BY <1>3 DEF AsAsked

LEMMA AppliedAsAsked ==
  ASSUME Orderly, NEW c, Sound(c), NEW s \in ToSet(Sections)
  PROVE  LET u == Post(cloud, Plan(c, cloud)) IN
         IF c[s] = <<>> THEN ReadSection(s, u) = ReadSection(s, cloud)
         ELSE AsAsked(s, c[s][1], ReadSection(s, cloud), ReadSection(s, u))
<1> DEFINE u == Post(cloud, Plan(c, cloud))
           items == c[s][1]
           was == ReadSection(s, cloud)
           is == ReadSection(s, u)
<1>1. Fits(c) /\ (c["SwitchPorts"] # <<>> => cloud.device # Null) /\ Regular(u) /\ Regular(cloud)
  BY SoundFits DEF Orderly
<1>2. IF c[s] = <<>> THEN is = was ELSE ReadsBack(s, items, was, is)
  BY <1>1, AppliedReadsBack DEF Regular, Sound
<1>3. SUFFICES ASSUME c[s] # <<>> PROVE AsAsked(s, items, was, is)
  BY <1>2
<1>4. IsSection(s, items) /\ IsSection(s, is) /\ IsSection(s, was)
  BY <1>1, <1>3, ReadIsSection DEF Sound, IsConfig
<1>5. s \in DOMAIN Codec \/ s = "SwitchPorts" \/ s = "DHCPReservations"
  BY DEF Sections, ToSet, Codec
<1>6. CASE s \in DOMAIN Codec
  <2>1. EachAsAsked(s, items, ListRead(s, u.site))
    BY <1>1, <1>3, <1>6, PlanRegular
  <2>2. is = ListRead(s, u.site)
    BY <1>6 DEF ReadSection, Codec
  <2>3. Len(is) = Len(items)
    BY <2>1, <2>2 DEF EachAsAsked
  <2> HIDE DEF items, is, was
  <2> QED
    BY <1>2, <1>3, <1>4, <1>6, <2>3, ListsAsAsked DEF ReadsBack
<1>7. CASE s = "SwitchPorts"
  <2> HIDE DEF items, is, was
  <2> QED
    BY <1>2, <1>3, <1>4, <1>7, PortsAsAskedAre DEF ReadsBack
<1>8. CASE s = "DHCPReservations"
  <2>1. Reservable(items)
    BY <1>1, <1>3, <1>8 DEF Fits
  <2> HIDE DEF items, is, was
  <2> QED
    BY <1>2, <1>3, <1>4, <1>8, <2>1, ReservationsAsAskedAre DEF ReadsBack, IsSection
<1> QED
  BY <1>5, <1>6, <1>7, <1>8

\* A step that leaves an alta_router_config just applied is its own.
LEMMA AskedByApply ==
  ASSUME Orderly, [Next]_vars, asked' # asked, asked' # <<>>
  PROVE  \E m \in ConfWanted[focus] :
           ConfApply(conf, m) /\ asked' = <<m>> /\ cloud' = Post(cloud, Plan(ToConfig(m), cloud))
           /\ conf' = <<WithConfig(m, Read(cloud'))>>
<1>1. Next
  BY DEF vars
<1>2. ASSUME NEW r, NEW s, NEW items, NEW state, ElementApply(s, items, r, state) PROVE FALSE
  BY <1>2 DEF ElementApply, Transact, RolledBack
<1>3. ASSUME NEW r \in Slots PROVE ~ElementStep(r)
  BY <1>2 DEF ElementStep, PutStep, Put, Drop, ReadState, ImportItem, SwitchPortDelete
<1>4. ~ConfRead /\ ~ConfDelete /\ ~ConfImport /\ ~PortalEdit
  BY DEF ConfRead, ConfDelete, ConfImport, PortalEdit
<1>5. PICK m \in ConfWanted[focus] : ConfApply(conf, m)
  BY <1>1, <1>3, <1>4, StepKinds DEF Orderly
<1>6. asked' = <<m>> /\ cloud' = Post(cloud, Plan(ToConfig(m), cloud)) /\ conf' = <<WithConfig(m, Read(cloud'))>>
  BY <1>5 DEF ConfApply, Applied, RolledBack
<1> QED
  BY <1>5, <1>6

\* What alta_router_config was applied with is what its sections hold, item for item, and what
\* it does not manage reads as before (resources/router_config.go: apply; routerconfig/config.go).
THEOREM RouterConfigIsAuthoritative == Spec => ConfigAuthoritative
<1>1. ASSUME Orderly, [Next]_vars, asked' # asked, asked' # <<>>, NEW s \in ToSet(Sections)
      PROVE  IF asked'[1][s] = <<>> THEN ReadSection(s, cloud') = ReadSection(s, cloud)
             ELSE AsAsked(s, ToConfig(asked'[1])[s][1], ReadSection(s, cloud), ReadSection(s, cloud'))
  <2>1. PICK m \in ConfWanted[focus] :
          ConfApply(conf, m) /\ asked' = <<m>> /\ cloud' = Post(cloud, Plan(ToConfig(m), cloud))
    BY <1>1, AskedByApply
  <2>2. Sound(ToConfig(m))
    BY <1>1, <2>1, AskedIsSound
  <2>3. asked'[1] = m
    BY <2>1
  <2>4. ToConfig(m)[s] = <<>> <=> m[s] = <<>>
    BY <1>1 DEF ToConfig
  <2> DEFINE c == ToConfig(m)
             u == cloud'
  <2>5. IF c[s] = <<>> THEN ReadSection(s, u) = ReadSection(s, cloud)
        ELSE AsAsked(s, c[s][1], ReadSection(s, cloud), ReadSection(s, u))
    BY <1>1, <2>1, <2>2, AppliedAsAsked
  <2> QED
    BY <2>3, <2>4, <2>5
<1>2. Orderly /\ [Next]_vars =>
        [asked' # asked /\ asked' # <<>> =>
           \A s \in ToSet(Sections) :
             IF asked'[1][s] = <<>> THEN ReadSection(s, cloud') = ReadSection(s, cloud)
             ELSE AsAsked(s, ToConfig(asked'[1])[s][1], ReadSection(s, cloud), ReadSection(s, cloud'))]_vars
  BY <1>1
<1> QED
  BY <1>2, AlwaysOrderly, PTL DEF Spec, ConfigAuthoritative

-----------------------------------------------------------------------------
(* What alta_router_config recorded is a configuration again.                *)

\* The members of a list, as a list.
LEMMA Relisted ==
  ASSUME NEW x, Listing(x)
  PROVE  LET q == SetToSeq(ToSet(x)) IN
         /\ Listing(q) /\ \A i \in 1..Len(q) : \E j \in 1..Len(x) : q[i] = x[j]
         /\ ToSet(q) = ToSet(x)
<1> DEFINE q == SetToSeq(ToSet(x))
           S == ToSet(x)
           n == Cardinality(S)
<1>1. DOMAIN x = 1..Len(x) /\ Len(x) \in Nat
  BY ListingDomain DEF Listing
<1>2. IsFiniteSet(S)
  <2>1. S = {x[i] : i \in 1..Len(x)}
    BY <1>1 DEF ToSet
  <2>2. IsFiniteSet(1..Len(x))
    BY <1>1, FS_Interval
  <2>3. DOMAIN x = 1..Len(x)
    BY <1>1
  <2> HIDE DEF S
  <2> QED
    BY <2>1, <2>2, <2>3, FiniteImage
<1>3. n \in Nat /\ q \in [1..n -> S] /\ \A y \in S : \E i \in 1..n : q[i] = y
  BY <1>2, SetToSeqLists
<1>4. Listing(q) /\ Len(q) = n
  <2>1. DOMAIN q = 1..n /\ q = [i \in DOMAIN q |-> q[i]]
    BY <1>3
  <2> HIDE DEF q, n
  <2> QED
    BY <1>3, <2>1, ListingOf
<1>5. \A i \in 1..n : q[i] \in S
  BY <1>3
<1>6. \A y \in S : \E j \in 1..Len(x) : y = x[j]
  BY <1>1 DEF ToSet
<1>7. ToSet(q) = S
  <2>1. DOMAIN q = 1..n
    BY <1>3
  <2> HIDE DEF q, S, n
  <2> QED
    BY <1>3, <1>5, <2>1 DEF ToSet
<1> HIDE DEF q, S, n
<1> QED
  BY <1>4, <1>5, <1>6, <1>7 DEF q, S

\* A value that becomes an attribute and a value again keeps its type.
LEMMA SetBack ==
  ASSUME NEW x, Listing(x), NEW mk \in {"set", "someset"}
  PROVE  LET q == DomainValue(mk, ModelValue(mk, x)) IN
         Listing(q) /\ (\A i \in 1..Len(q) : \E j \in 1..Len(x) : q[i] = x[j]) /\ ToSet(q) = ToSet(x)
<1>1. DomainValue(mk, ModelValue(mk, x)) = SetToSeq(ToSet(x))
  <2>1. CASE mk = "set"
    BY <2>1 DEF DomainValue, ModelValue
  <2>2. CASE mk = "someset" /\ x # <<>>
    BY <2>2 DEF DomainValue, ModelValue, Value
  <2>3. CASE mk = "someset" /\ x = <<>>
    <3>1. ToSet(x) = {}
      BY <2>3 DEF ToSet
    <3> QED
      BY <2>3, <3>1 DEF DomainValue, ModelValue, Value
  <2> QED
    BY <2>1, <2>2, <2>3
<1> QED
  BY <1>1, Relisted

LEMMA ValueBack ==
  ASSUME NEW kind, NEW mk, <<kind, mk>> \in Attributes, NEW x, Plain(kind, x)
  PROVE  Plain(kind, DomainValue(mk, ModelValue(mk, x)))
<1> DEFINE y == DomainValue(mk, ModelValue(mk, x))
<1>1. CASE kind \in {"string", "csv"}
  BY <1>1 DEF Plain
<1>2. CASE <<kind, mk>> = <<"int", "int">>
  <2>1. y = x
    BY <1>2 DEF DomainValue, ModelValue, Value
  <2> QED
    BY <2>1
<1>3. CASE kind \in {"noflag", "flag", "tri"}
  <2>0. mk = "bool"
    BY <1>3 DEF Attributes
  <2>1. y = x
    BY <2>0 DEF DomainValue, ModelValue
  <2> QED
    BY <2>1
<1>4. CASE kind = "set"
  <2>1. mk \in {"set", "someset"} /\ Listing(x)
    BY <1>4 DEF Attributes, Plain
  <2>2. Listing(y)
    BY <2>1, SetBack
  <2> HIDE DEF y
  <2> QED
    BY <1>4, <2>2 DEF Plain, y
<1>5. CASE <<kind, mk>> = <<"endpoint", "endpoint">>
  <2>1. y = [Address |-> y.Address, Port |-> y.Port]
    BY <1>5 DEF DomainValue, ModelValue, ToDomain, EndpointFrom, NoEndpoint
  <2> HIDE DEF y
  <2> QED
    BY <1>5, <2>1 DEF Plain, y
<1> QED
  BY <1>1, <1>2, <1>3, <1>4, <1>5 DEF Attributes

\* An item that becomes a model and an item again is one the section is written from.
LEMMA ItemBack ==
  ASSUME NEW s \in ToSet(Sections), NEW x, IsItem(s, x),
         NEW id, s \in {"VLANs", "SwitchPorts"} => id \in Numbers,
         NEW m, \A f \in DOMAIN ModelOf(s) : m[f] = ModelValue(ModelOf(s)[f], x[f])
  PROVE  IsItem(s, Item(s, id, m))
<1> DEFINE y == Item(s, id, m)
           k == ModelOf(s)
           row == Codec[s].row
<1>1. \A f \in DOMAIN k : f # IdentityField(s) => y[f] = DomainValue(k[f], ModelValue(k[f], x[f]))
  BY ItemFields
<1>2. y[IdentityField(s)] = id
  BY ItemIdentity
<1>3. ASSUME s \in DOMAIN Codec, NEW f \in DOMAIN row PROVE Plain(row[f][3], y[f])
  <2>1. CASE f = "ID"
    <3>1. y[f] = id /\ row[f][3] = IF s = "VLANs" THEN "number" ELSE "string"
      BY <1>2, <1>3, <2>1, RowKinds
    <3> HIDE DEF y, row
    <3> QED
      BY <3>1 DEF Plain
  <2>2. CASE f # "ID"
    <3>1. f \in DOMAIN k /\ <<row[f][3], k[f]>> \in Attributes /\ IdentityField(s) = "ID"
      BY <1>3, <2>2, RowKinds
    <3>2. Plain(row[f][3], x[f])
      BY <1>3 DEF IsItem, PlainItem
    <3>3. y[f] = DomainValue(k[f], ModelValue(k[f], x[f]))
      BY <1>1, <2>2, <3>1
    <3> HIDE DEF y, row, k
    <3> QED
      BY <3>1, <3>2, <3>3, ValueBack
  <2> QED
    BY <2>1, <2>2
<1>4. ASSUME s = "StaticRoutes" PROVE y.Network \in ToSet(Lexical)
  <2>1. "Network" \in DOMAIN k /\ k["Network"] = "string" /\ IdentityField(s) = "ID"
    BY <1>4 DEF ModelOf, StaticRouteModel, IdentityField
  <2>2. y.Network = DomainValue("string", ModelValue("string", x.Network))
    BY <1>1, <2>1
  <2>3. y.Network = x.Network
    BY <2>2 DEF DomainValue, ModelValue, Value, Optional
  <2> QED
    BY <1>4, <2>3 DEF IsItem
<1>5. ASSUME s = "SwitchPorts" PROVE PlainPort(y)
  <2>1. PlainPort(x)
    BY <1>5 DEF IsItem
  <2>2. k = SwitchPortModel /\ IdentityField(s) = "Port"
    BY <1>5 DEF ModelOf, IdentityField
  <2>3. /\ y.NativeVLAN = DomainValue("int", ModelValue("int", x.NativeVLAN))
        /\ y.AllVLANs = DomainValue("bool", ModelValue("bool", x.AllVLANs))
        /\ y.TaggedVLANs = DomainValue("someset", ModelValue("someset", x.TaggedVLANs))
    BY <1>1, <2>2 DEF SwitchPortModel
  <2>4. y.Port \in Numbers
    BY <1>2, <1>5, <2>2
  <2> HIDE DEF y, k
  <2>5. y.NativeVLAN = x.NativeVLAN /\ y.AllVLANs = x.AllVLANs
    BY <2>3 DEF DomainValue, ModelValue, Value
  <2>6. Listing(x.TaggedVLANs) /\ \A i \in 1..Len(x.TaggedVLANs) : x.TaggedVLANs[i] \in Numbers
    BY <2>1, ListingDomain DEF PlainPort, IntList
  <2>7. Listing(y.TaggedVLANs) /\ \A i \in 1..Len(y.TaggedVLANs) : y.TaggedVLANs[i] \in Numbers
    BY <2>3, <2>6, SetBack
  <2>8. IntList(y.TaggedVLANs)
    BY <2>7, ListingDomain DEF IntList
  <2> QED
    BY <2>1, <2>4, <2>5, <2>8 DEF PlainPort
<1> HIDE DEF y, row, k
<1> QED
  BY <1>3, <1>4, <1>5 DEF IsItem, PlainItem, y, row

\* The identities of a section are finitely many texts that have an order, and keys of it.
LEMMA IdentitiesOrdered ==
  ASSUME NEW d, Regular(d), Sortable(d), NEW s \in ToSet(Sections), s # "FirewallRules"
  PROVE  LET is == ReadSection(s, d) IN \A i \in 1..Len(is) : Identity(s, is[i]) \in ToSet(Lexical)
<1> DEFINE is == ReadSection(s, d)
<1> SUFFICES ASSUME NEW i \in 1..Len(is) PROVE Identity(s, is[i]) \in ToSet(Lexical)
  OBVIOUS
<1>1. IsSection(s, is)
  BY ReadIsSection
<1>2. DOMAIN is = 1..Len(is) /\ IsItem(s, is[i]) /\ is[i] \in ToSet(is)
  BY <1>1, ListingDomain DEF IsSection, ToSet
<1>3. \A x \in Numbers : Text(x) \in ToSet(Lexical)
  BY NumbersAreOrdered, DecimalAssumption DEF Numbers, Text
<1>4. CASE s \in Keyed
  BY <1>2, <1>4, KeyedIs DEF Sortable
<1>5. CASE s = "VLANs"
  <2>1. s \in DOMAIN Codec
    BY <1>5 DEF Codec
  <2>2. "ID" \in DOMAIN Codec[s].row /\ Codec[s].row["ID"][3] = "number"
    BY <1>5, <2>1, RowKinds
  <2>3. is[i]["ID"] \in Numbers
    BY <1>2, <2>1, <2>2 DEF IsItem, PlainItem, Plain
  <2> HIDE DEF is
  <2> QED
    BY <1>3, <1>5, <2>3 DEF Identity
<1>6. CASE s = "SwitchPorts"
  <2> HIDE DEF is
  <2> QED
    BY <1>2, <1>3, <1>6 DEF Identity, IsItem, PlainPort
<1>7. CASE s = "DHCPReservations"
  <2>1. is = ReadReservations(d.clients)
    BY <1>7 DEF ReadSection
  <2>2. is[i] \in Reserved(d.clients)
    BY <2>1, ReservationsOf
  <2> HIDE DEF is
  <2>3. PICK c \in DOMAIN d.clients : is[i] = [MAC |-> MACOf[c], IP |-> IPRead(d.clients[c])]
    BY <2>2 DEF Reserved
  <2>4. MACOf[c] \in ToSet(Lexical)
    BY MACAssumption DEF Regular
  <2>5. Identity(s, is[i]) = is[i].MAC
    BY <1>7 DEF Identity
  <2> QED
    BY <2>3, <2>4, <2>5
<1> QED
  BY <1>4, <1>5, <1>6, <1>7 DEF Sections, ToSet, Keyed

LEMMA LastOf ==
  ASSUME NEW n \in Nat, NEW S, S \subseteq 1..n, S # {}
  PROVE  \E i \in S : \A j \in S : j <= i
<1> DEFINE T == {n - i : i \in S}
<1>1. T \in SUBSET Nat /\ T # {}
  <2>1. \A i \in S : n - i \in Nat
    OBVIOUS
  <2> QED
    BY <2>1
<1> HIDE DEF T
<1>2. PICK t \in T : \A u \in T : t <= u
  BY <1>1, NatMin
<1>3. PICK i \in S : t = n - i
  BY DEF T
<1>4. ASSUME NEW j \in S PROVE j <= i
  <2>1. n - j \in T
    BY DEF T
  <2>2. n - i <= n - j
    BY <1>2, <1>3, <2>1
  <2> QED
    BY <2>2
<1> QED
  BY <1>4

\* Of a section kept by key, the keys are the identities and each has an item of its own.
LEMMA MapIs ==
  ASSUME NEW s, NEW items, Listing(items)
  PROVE  LET section == ToMap(s, items) IN
         /\ \A i \in 1..Len(items) : Identity(s, items[i]) \in DOMAIN section
         /\ IsFiniteSet(DOMAIN section)
         /\ \A k \in DOMAIN section : \E i \in 1..Len(items) : Identity(s, items[i]) = k /\ section[k] = Model(s, items[i])
<1> DEFINE section == ToMap(s, items)
           at(k) == {i \in 1..Len(items) : Identity(s, items[i]) = k}
           IsLast(k, i) == i \in DOMAIN items /\ Identity(s, items[i]) = k /\ \A j \in DOMAIN items : Identity(s, items[j]) = k => j <= i
           last(k) == CHOOSE i \in DOMAIN items : Identity(s, items[i]) = k /\ \A j \in DOMAIN items : Identity(s, items[j]) = k => j <= i
           keys == {Identity(s, items[i]) : i \in 1..Len(items)}
<1>1. DOMAIN items = 1..Len(items) /\ Len(items) \in Nat
  BY ListingDomain DEF Listing
<1>2. section = [k \in keys |-> Model(s, items[last(k)])]
  BY <1>1 DEF ToMap
<1>3. ASSUME NEW k \in keys PROVE IsLast(k, last(k))
  <2>1. at(k) # {} /\ at(k) \subseteq 1..Len(items)
    OBVIOUS
  <2>2. PICK i \in at(k) : \A j \in at(k) : j <= i
    <3> HIDE DEF at
    <3> QED
      BY <1>1, <2>1, LastOf
  <2>3. \E x \in DOMAIN items : Identity(s, items[x]) = k /\ \A j \in DOMAIN items : Identity(s, items[j]) = k => j <= x
    BY <1>1, <2>2
  <2> QED
    BY <2>3
<1>4. IsFiniteSet(keys)
  <2> DEFINE f == [i \in 1..Len(items) |-> Identity(s, items[i])]
  <2>1. DOMAIN f = 1..Len(items) /\ keys = {f[i] : i \in 1..Len(items)}
    OBVIOUS
  <2>2. IsFiniteSet(1..Len(items))
    BY <1>1, FS_Interval
  <2> HIDE DEF f, keys
  <2> QED
    BY <2>1, <2>2, FiniteImage
<1> HIDE DEF last, keys, section
<1>5. \A k \in keys : section[k] = Model(s, items[last(k)]) /\ last(k) \in 1..Len(items) /\ Identity(s, items[last(k)]) = k
  BY <1>1, <1>2, <1>3
<1>6. DOMAIN section = keys
  BY <1>2
<1>7. \A k \in DOMAIN section : \E i \in 1..Len(items) : Identity(s, items[i]) = k /\ section[k] = Model(s, items[i])
  BY <1>5, <1>6
<1>8. \A i \in 1..Len(items) : Identity(s, items[i]) \in DOMAIN section
  BY <1>6 DEF keys
<1> QED
  BY <1>4, <1>6, <1>7, <1>8 DEF section

LEMMA RecordedAskable ==
  ASSUME NEW m0, NEW d, Regular(d), Sortable(d)
  PROVE  Askable(WithConfig(m0, Read(d)))
<1> DEFINE m == WithConfig(m0, Read(d))
<1> SUFFICES ASSUME NEW t \in ToSet(Sections), m[t] # <<>>
             PROVE IF t = "FirewallRules"
                   THEN Listing(m[t][1]) /\ \A i \in 1..Len(m[t][1]) : IsItem(t, Item(t, Value(m[t][1][i].ID, ""), m[t][1][i]))
                   ELSE /\ IsFiniteSet(DOMAIN m[t][1]) /\ DOMAIN m[t][1] \subseteq ToSet(Lexical)
                        /\ ~SectionKeyError(t, DOMAIN m[t][1]) =>
                             \A k \in DOMAIN m[t][1] : IsItem(t, Item(t, KeyOf(t, k), m[t][1][k]))
  BY DEF Askable
<1> DEFINE is == ReadSection(t, d)
<1>1. Read(d)[t] = is
  BY DEF Read
<1>2. m0[t] # <<>>
  BY DEF WithConfig
<1>3. Listing(is) /\ DOMAIN is = 1..Len(is) /\ Len(is) \in Nat /\ \A i \in 1..Len(is) : IsItem(t, is[i])
  BY ReadIsSection, ListingDomain DEF IsSection, Listing
<1>4. CASE t = "FirewallRules"
  <2> DEFINE rules == [i \in DOMAIN is |-> Over([f \in {"ID"} |-> <<is[i].ID>>], Model(t, is[i]))]
  <2>1. m[t][1] = rules
    BY <1>1, <1>2, <1>4 DEF WithConfig
  <2> HIDE DEF is, m
  <2>2. Listing(rules) /\ Len(rules) = Len(is)
    <3>1. DOMAIN rules = 1..Len(is) /\ rules = [i \in DOMAIN rules |-> rules[i]]
      BY <1>3
    <3> HIDE DEF rules
    <3> QED
      BY <1>3, <3>1, ListingOf
  <2>3. ASSUME NEW i \in 1..Len(is) PROVE IsItem(t, Item(t, Value(rules[i].ID, ""), rules[i]))
    <3> DEFINE k == ModelOf(t)
               rule == rules[i]
    <3>1. rule = Over([f \in {"ID"} |-> <<is[i].ID>>], Model(t, is[i]))
      BY <1>3
    <3>2. "ID" \notin DOMAIN k
      BY <1>4 DEF ModelOf, FirewallRuleModel
    <3>3. \A f \in DOMAIN k : rule[f] = ModelValue(k[f], is[i][f])
      <4>1. Model(t, is[i]) = [f \in DOMAIN k |-> ModelValue(k[f], is[i][f])]
        BY DEF Model
      <4> HIDE DEF k, rule
      <4> QED
        BY <3>1, <3>2, <4>1 DEF Over
    <3> HIDE DEF rules, k
    <3>4. t \notin {"VLANs", "SwitchPorts"}
      BY <1>4
    <3>5. \A id : IsItem(t, Item(t, id, rule))
      <4> HIDE DEF rule
      <4> QED
        BY <1>3, <3>3, <3>4, ItemBack DEF k
    <3> QED
      BY <3>5
  <2> HIDE DEF rules
  <2> QED
    BY <1>4, <2>1, <2>2, <2>3
<1>5. CASE t # "FirewallRules"
  <2> DEFINE section == ToMap(t, is)
  <2>1. m[t][1] = section
    BY <1>1, <1>2, <1>5 DEF WithConfig
  <2>2. \A i \in 1..Len(is) : Identity(t, is[i]) \in ToSet(Lexical)
    BY <1>5, IdentitiesOrdered
  <2> HIDE DEF is, m
  <2>3. /\ IsFiniteSet(DOMAIN section)
        /\ \A k \in DOMAIN section : \E i \in 1..Len(is) : Identity(t, is[i]) = k /\ section[k] = Model(t, is[i])
    BY <1>3, MapIs
  <2> HIDE DEF section
  <2>4. DOMAIN section \subseteq ToSet(Lexical)
    BY <2>2, <2>3
  <2>5. ASSUME ~SectionKeyError(t, DOMAIN section), NEW k \in DOMAIN section
        PROVE  IsItem(t, Item(t, KeyOf(t, k), section[k]))
    <3>1. PICK i \in 1..Len(is) : section[k] = Model(t, is[i])
      BY <2>3
    <3>2. ASSUME t \in {"VLANs", "SwitchPorts"} PROVE KeyOf(t, k) \in Numbers
      <4>1. k \in DOMAIN Decimal
        BY <2>5, <3>2 DEF SectionKeyError
      <4> QED
        BY <3>2, <4>1 DEF KeyOf, Numbers
    <3>3. \A f \in DOMAIN ModelOf(t) : section[k][f] = ModelValue(ModelOf(t)[f], is[i][f])
      BY <3>1 DEF Model
    <3> QED
      BY <1>3, <3>2, <3>3, ItemBack
  <2> QED
    BY <1>5, <2>1, <2>3, <2>4, <2>5
<1> QED
  BY <1>4, <1>5

-----------------------------------------------------------------------------
(* alta_router_config never writes over what it has not seen.                *)

\* What alta_router_config has recorded is what some document said.
IsRecord(m) == \E m0, d : Regular(d) /\ Sortable(d) /\ m = WithConfig(m0, Read(d))
Recorded == conf # <<>> => conf = <<conf[1]>> /\ IsRecord(conf[1])

LEMMA RecordedInit == Init => Recorded
BY DEF Init, Recorded

LEMMA NewRecord ==
  ASSUME NEW m0, NEW d, Regular(d), Sortable(d), conf' = <<WithConfig(m0, Read(d))>>
  PROVE  Recorded'
<1>1. IsRecord(WithConfig(m0, Read(d)))
  BY DEF IsRecord
<1> QED
  BY <1>1 DEF Recorded, IsRecord

LEMMA SameRecord == ASSUME Recorded, conf' = conf \/ conf' = <<>> PROVE Recorded'
BY DEF Recorded, IsRecord

LEMMA RecordedStep ==
  ASSUME Orderly, Orderly', Recorded, [Next]_vars
  PROVE  Recorded'
<1>0. Regular(cloud) /\ Sortable(cloud) /\ Regular(cloud') /\ Sortable(cloud')
  BY DEF Orderly
<1>1. ASSUME NEW s, NEW items, NEW r, NEW state, ElementApply(s, items, r, state) PROVE conf' = conf
  BY <1>1 DEF ElementApply, Transact, RolledBack
<1>2. ASSUME NEW r \in Slots, ElementStep(r) PROVE conf' = conf
  BY <1>1, <1>2 DEF ElementStep, PutStep, Put, Drop, ReadState, ImportItem, SwitchPortDelete
<1>3. ASSUME NEW m, ConfApply(conf, m) PROVE Recorded'
  <2>1. conf' = conf \/ conf' = <<WithConfig(m, Read(cloud'))>>
    BY <1>3 DEF ConfApply, RolledBack
  <2> QED
    BY <1>0, <2>1, SameRecord, NewRecord
<1>4. CASE ConfRead
  <2>1. conf' = <<WithConfig(conf[1], Read(cloud))>>
    BY <1>4 DEF ConfRead
  <2> QED
    BY <1>0, <2>1, NewRecord
<1>5. CASE ConfImport
  <2>1. conf' = <<WithConfig(AllSections, Read(cloud))>>
    BY <1>5 DEF ConfImport
  <2> QED
    BY <1>0, <2>1, NewRecord
<1>6. CASE ConfDelete \/ PortalEdit \/ UNCHANGED vars
  <2>1. conf' = conf \/ conf' = <<>>
    BY <1>6 DEF ConfDelete, PortalEdit, vars
  <2> QED
    BY <2>1, SameRecord
<1>7. CASE Next
  <2>1. ASSUME NEW r \in Slots, ElementStep(r) PROVE Recorded'
    <3>1. conf' = conf
      BY <1>2, <2>1
    <3> QED
      BY <3>1, SameRecord
  <2> QED
    BY <1>3, <1>4, <1>5, <1>6, <1>7, <2>1, StepKinds DEF Orderly
<1> QED
  BY <1>6, <1>7

LEMMA AlwaysRecorded == Spec => [](Orderly /\ Recorded)
<1>1. Orderly /\ Orderly' /\ Recorded /\ [Next]_vars => Recorded'
  BY RecordedStep
<1> QED
  BY <1>1, RecordedInit, AlwaysOrderly, PTL DEF Spec

\* What passes the comparison with the last refresh reads as it was recorded.
LEMMA UnchangedIsAsRecorded ==
  ASSUME Orderly, Recorded, conf # <<>>, UnchangedSince(conf)
  PROVE  StillAsRecorded(conf[1])
<1> DEFINE m == conf[1]
           c == ToConfig(m)
<1>1. ~ToConfigError(m) /\ ~ConfigError(c, cloud) /\ Plan(c, cloud) = {}
  BY DEF UnchangedSince
<1>2. Askable(m)
  <2>1. PICK m0, d : Regular(d) /\ Sortable(d) /\ m = WithConfig(m0, Read(d))
    BY DEF Recorded, IsRecord
  <2> QED
    BY <2>1, RecordedAskable
<1>3. Sound(c)
  BY <1>1, <1>2, ConfIsSound
<1>4. Post(cloud, Plan(c, cloud)) = cloud
  BY <1>1, NothingPosted
<1>5. ASSUME NEW s \in ToSet(Sections), m[s] # <<>>
      PROVE  LET is == ReadSection(s, cloud) IN AsAsked(s, c[s][1], is, is)
  <2>1. c[s] # <<>>
    BY <1>5 DEF ToConfig
  <2> HIDE DEF c
  <2> QED
    BY <1>3, <1>4, <2>1, AppliedAsAsked
<1> QED
  BY <1>5 DEF StillAsRecorded

\* An update of alta_router_config that writes found its sections, item for item, as its state
\* recorded them (resources/router_config.go: unchangedSince).
THEOREM StaleUpdateIsRefused == Spec => StaleIsRefused
<1>1. ASSUME Orderly, Recorded, [Next]_vars, asked' # asked, asked' # <<>>, conf # <<>>
      PROVE  StillAsRecorded(conf[1])
  <2>1. PICK m \in ConfWanted[focus] : ConfApply(conf, m)
    BY <1>1, AskedByApply
  <2>2. UnchangedSince(conf)
    BY <2>1 DEF ConfApply
  <2> QED
    BY <1>1, <2>2, UnchangedIsAsRecorded
<1>2. Orderly /\ Recorded /\ [Next]_vars =>
        [asked' # asked /\ asked' # <<>> /\ conf # <<>> /\ cloud' # cloud => StillAsRecorded(conf[1])]_vars
  BY <1>1
<1> QED
  BY <1>2, AlwaysRecorded, PTL DEF Spec, StaleIsRefused

=============================================================================
