----------------------------- MODULE Agreements -----------------------------
(***************************************************************************)
(* What must hold of versions, images, configurations and reloads whatever *)
(* is written in them.  An input is in `input`, and what it is in `area`.  *)
(***************************************************************************)
EXTENDS Configuration, Base64

VARIABLES area, input

-----------------------------------------------------------------------------
(* Versions.                                                               *)

(* Whatever range a manifest declares, a host that answers init sends a     *)
(* ready that accept_ready of the core takes: both sides work the protocol  *)
(* minor and the capabilities out for themselves.                           *)
ReadyIsAccepted(range) ==
  LET low == Terms!Low(range.low)  high == Terms!High(range.high)
      offered == Terms!Offered(range.view, high)
      minor == Terms!HostSelects(high)
  IN \/ Terms!RangeIsRefused(range.low, range.high)
     \/ Terms!HostRefuses(low, high)
     \/ Terms!ReadyFaults(low, high, offered, minor, Terms!HostTakes(offered, minor)) = {}

(* What a module may use at one maximum_minor it may use at the next one    *)
(* (handle_protocol_line): raising the version breaks nothing.              *)
HeldAt(record, high) ==
  LET minor == Terms!HostSelects(high)
  IN Terms!Held(record.used, record.activation_only, minor,
                Terms!HostTakes(Terms!Offered(TRUE, high), minor))
UpgradesKeep(record) ==
  \A high \in Terms!HostLeast..(Terms!CoreMinor - 1) : HeldAt(record, high) => HeldAt(record, high + 1)

(* Host and core agree on the version and on what may be used, for every    *)
(* range and every record (parse_config, initialize, accept_ready).         *)
VersionsAgree ==
  /\ area = "range" => ReadyIsAccepted(input)
  /\ area = "usage" => UpgradesKeep(input)

-----------------------------------------------------------------------------
(* Base64, as it is written.                                               *)

Bytes == 0..255
EncodedSize(b) == 4 * ((Len(b) + 2) \div 3)
Byte(b, i) == IF i <= Len(b) THEN b[i] ELSE 0
SymbolAt(b, i) ==
  LET at == 3 * ((i - 1) \div 4)
  IN CASE (i - 1) % 4 = 0 -> Byte(b, at + 1) \div 4
       [] (i - 1) % 4 = 1 -> ((Byte(b, at + 1) % 4) * 16) + (Byte(b, at + 2) \div 16)
       [] (i - 1) % 4 = 2 -> IF at + 2 > Len(b) THEN Pad
                             ELSE ((Byte(b, at + 2) % 16) * 4) + (Byte(b, at + 3) \div 64)
       [] (i - 1) % 4 = 3 -> IF at + 3 > Len(b) THEN Pad ELSE Byte(b, at + 3) % 64
Encode(b) == [i \in 1..EncodedSize(b) |-> SymbolAt(b, i)]

(* decode_base64 takes every encoding and gives its bytes back.             *)
DecodesBack(b) == DecodeFaults(Encode(b), Len(b)) = {} /\ Decode(Encode(b)) = b

(* And it takes nothing else: an accepted text is the only one for its      *)
(* bytes, of which there are as many as width and height ask for.           *)
TakesEncodings(s) ==
  \A size \in 0..Len(s) :
    DecodeFaults(s, size) = {} =>
      Len(Decode(s)) = size /\ Decode(s) \in Seq(Bytes) /\ Encode(Decode(s)) = s

(* An image is written in one way (decode_base64).                          *)
Base64IsCanonical ==
  /\ area = "bytes" => DecodesBack(input)
  /\ area = "symbols" => TakesEncodings(input)

-----------------------------------------------------------------------------
(* Configurations.                                                         *)

(* A module of a package: the first root that has a package of that name    *)
(* has it; and it is told the options it was given, over those of the       *)
(* package, each one as the schema wants it, and none that is required is   *)
(* left out.                                                                *)
PackagedIsSound(x, roots) ==
  LET id == x.v["module"].v  m == Module(x, roots)  told == m.process.options
      schema == Table(m.process.manifest.contents, "options_schema")
  IN /\ \E i \in 1..Len(roots) :
          /\ id \in DOMAIN roots[i] /\ roots[i][id].manifest = m.process.manifest.contents
          /\ \A j \in 1..(i - 1) : id \notin DOMAIN roots[j]
     /\ \A k \in DOMAIN Table(x, "options") : told[k] = Table(x, "options")[k]
     /\ \A k \in DOMAIN told : k \in DOMAIN schema /\ Matches(told[k], schema[k])
     /\ \A k \in DOMAIN schema : Or(schema[k], "required", Bool(FALSE)).v => k \in DOMAIN told

(* Any module: versions that the core speaks, backoffs in order, and a      *)
(* compact view where there is a view.                                      *)
ModuleIsSound(m) ==
  /\ 0 <= m.process.low /\ m.process.low <= m.process.high /\ m.process.high <= Terms!CoreMinor
  /\ m.process.timings.initial_backoff_ms <= m.process.timings.maximum_backoff_ms
  /\ \A f \in Timings : m.process.timings[f] \in 1..MaxDuration
  /\ DOMAIN m.view # {} => "compact" \in DOMAIN m.view

(* What parse_config accepts: modules that are sound and have names of      *)
(* their own, and for each slot one that runs.                              *)
LoadedIsSound(c, roots) ==
  LET config == Config(c, roots)  modules == config.modules
  IN /\ \A i \in 1..Len(modules) :
          /\ ModuleIsSound(modules[i])
          /\ Has(c.v["modules"].v[i], "module") => PackagedIsSound(c.v["modules"].v[i], roots)
          /\ Find(config, modules[i].id) = modules[i]
     /\ \A slot \in {config.compact, config.expanded} : Find(config, slot).enabled

(* What parse_config takes is what was written, over what the packages say. *)
LoadedConfigIsSound ==
  area = "config" /\ ConfigFaults(input.document, input.roots) = {} =>
    LoadedIsSound(input.document, input.roots)

-----------------------------------------------------------------------------
(* Reloads.                                                                *)

(* Two start requests but for the offer of data, and the files of a package *)
(* whose change asks for a new process.                                     *)
ButForOffer(request) == [request EXCEPT !.init.capabilities = @ \ {"data-snapshots"}]
FilesOf(m) == <<m.process.manifest, m.process.config, m.process.entry>>

(* What runs after a reload is what is enabled.  A process that stays would *)
(* be started with the same request by the candidate, from the same files;  *)
(* only data may be offered otherwise, when a view came or went.  And none  *)
(* is stopped for another like it: of a module that is started again, the   *)
(* request is a different one or a file of its package was replaced, unless *)
(* its options hold a NaN, which equals nothing.                            *)
ReloadIsExact(a, b) ==
  LET running == {id \in Ids(a) : Find(a, id).enabled}
      started == {id \in Ids(b) : Starts(id, a, b)}
      stopped == {id \in Ids(a) : Stops(id, a, b)}
  IN /\ (running \ stopped) \cup started = {id \in Ids(b) : Find(b, id).enabled}
     /\ \A id \in (running \ stopped) \ started :
          LET was == StartRequest(Find(a, id))  is == StartRequest(Find(b, id))
          IN /\ ButForOffer(is) = ButForOffer(was)
             /\ is # was => Kind(id, a, b) = "view_updated"
             /\ FilesOf(Find(a, id)) = FilesOf(Find(b, id))
     /\ \A id \in started \cap running :
          LET was == Find(a, id)  is == Find(b, id)  options == Obj(is.process.options)
          IN \/ ButForOffer(StartRequest(is)) # ButForOffer(StartRequest(was))
             \/ FilesOf(is) # FilesOf(was)
             \/ ~EqualOptions(options, options)

(* Of two configurations that load, the plan from one to the other is       *)
(* exact (plan_reload).                                                     *)
ReloadsAreExact == area = "reload" => ReloadIsExact(input.from, input.to)
=============================================================================
