------------------------------ MODULE Document ------------------------------
(***************************************************************************)
(* internal/routerconfig/document.go and config.go, with internal/cloud's  *)
(* writes: a working copy of one site's objects, the writes between two    *)
(* copies, their pre-images, and what the cloud makes of a write.          *)
(* A document is a record: site and device (Null without a device id) are  *)
(* JSON objects, clients is a function from client ids to records.         *)
(***************************************************************************)
EXTENDS RouterConfig

\* A document's objects, and the ports of its device, have finitely many keys.
FiniteKeys(d) ==
  /\ d = [site |-> d.site, device |-> d.device, clients |-> d.clients]
  /\ IsFiniteSet(DOMAIN Fields(d.site)) /\ IsFiniteSet(DOMAIN Fields(d.device))
  /\ IsFiniteSet(DOMAIN d.clients)
IsDocument(d) == FiniteKeys(d) /\ IsFiniteSet(DOMAIN Fields(Node(d.device, PortsPath)))

Unmanaged == [s \in ToSet(Sections) |-> <<>>]

ReadSection(s, d) ==
  CASE s = "SwitchPorts" -> ReadSwitchPorts(d.device)
    [] s = "DHCPReservations" -> ReadReservations(d.clients)
    [] OTHER -> ListRead(s, d.site)
SectionError(s, items, d) ==
  CASE s = "SwitchPorts" -> SwitchPortsError(d.device, items)
    [] s = "DHCPReservations" -> ReservationsError(items)
    [] OTHER -> ListError(s, items)
WriteSection(s, items, d) ==
  CASE s = "SwitchPorts" -> [d EXCEPT !.device = WriteSwitchPorts(@, items)]
    [] s = "DHCPReservations" -> [d EXCEPT !.clients = WriteReservations(@, items)]
    [] OTHER -> [d EXCEPT !.site = ListWrite(s, @, items)]

Read(d) == [s \in ToSet(Sections) |-> ReadSection(s, d)]
ConfigError(c, d) == \E s \in ToSet(Sections) : c[s] # <<>> /\ SectionError(s, c[s][1], d)
Apply(c, d) ==
  Fold(LAMBDA next, s : IF c[s] = <<>> THEN next ELSE WriteSection(s, c[s][1], next), d, Sections)

Changed(base, next) == {k \in DOMAIN Fields(next) : At(base, k) # At(next, k)}
Record(d, c) == IF c \in DOMAIN d.clients THEN d.clients[c] ELSE EmptyObj
Write(kind, key, value) == [kind |-> kind, key |-> key, value |-> value]
\* The cloud writes that turn base into d.
Writes(d, base) ==
       {Write("site", k, At(d.site, k)) : k \in Changed(base.site, d.site)}
  \cup {Write("device", k, At(d.device, k)) : k \in Changed(base.device, d.device)}
  \cup {Write("client", c, ClientEdit(Record(d, c))) :
          c \in {c \in DOMAIN d.clients : ClientEdit(Record(base, c)) # ClientEdit(Record(d, c))}}
\* Mutant: a client's pre-image is what the write before it sent.
PreImagesOfSite(base, writes) ==
  {Write(w.kind, w.key, IF w.kind = "site" THEN At(base.site, w.key) ELSE w.value) : w \in writes}
PreImages(base, writes) ==
  {Write(w.kind, w.key,
     CASE w.kind = "site"   -> At(base.site, w.key)
       [] w.kind = "device" -> At(base.device, w.key)
       [] w.kind = "client" -> ClientEdit(Record(base, w.key))) : w \in writes}
Plan(c, base) == Writes(Apply(c, base), base)

\* What the cloud holds after a write: a key is replaced whole; of a client, the fields
\* under config are the ones sent and set, and a record that is not there is created.
ClientConfig(edit) == Obj([k \in {k \in ClientConfigFields : edit[k] # Null} |-> edit[k]])
Posted(d, w) ==
  CASE w.kind = "site" -> [d EXCEPT !.site = With(@, w.key, w.value)]
    [] w.kind = "device" -> [d EXCEPT !.device = With(@, w.key, w.value)]
    [] w.kind = "client" ->
         LET record == IF w.key \in DOMAIN d.clients THEN Fields(d.clients[w.key]) ELSE [id |-> Str(w.key)]
             sent == [k \in ClientRecordFields \cup {"wired", "config"} |->
                        IF k = "config" THEN ClientConfig(w.value) ELSE w.value[k]]
         IN [d EXCEPT !.clients = Over([c \in {w.key} |-> Obj(Over(sent, record))], @)]
\* The writes are of different keys, so their order does not matter.
Post(d, writes) == Fold(Posted, d, SetToSeq(writes))
=============================================================================
