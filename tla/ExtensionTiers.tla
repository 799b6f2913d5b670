---------------------------- MODULE ExtensionTiers ----------------------------
(***************************************************************************)
(* A request's extensions along the serial plugins of a pipeline           *)
(* (extensions/filter.rs, container.rs, executor.rs).  Each plugin gets a  *)
(* copy in which what its capabilities do not let it read is blank, may    *)
(* return it changed in any way, and the executor validates what came back *)
(* and merges it into the canonical extensions.  An Option is a set with   *)
(* at most one member.                                                     *)
(***************************************************************************)
EXTENDS Naturals, Sequences

CONSTANTS CapabilitySets, \* the capability sets plugins are configured with
          TierLabels, HeaderNames, Hops, TokenIds,
          MaxHops         \* bound: length of the delegation chain

ASSUME TierAssumption == MaxHops \in Nat

HeaderValues == {"none", "set", "redacted"}
Constraints == {"none", "pinned"}
WriteCapabilities ==
    {"append_labels", "write_headers", "append_delegation", "write_candidate_constraint"}

VARIABLES
    ext,   \* the canonical extensions
    born,  \* the canonical extensions as the pipeline began
    last   \* the write capabilities of the last plugin

tierVars == <<ext, born, last>>

\* headers is the request's and the response's header maps; markers the names
\* of the credentials the engine asserted itself; line the request line; agent
\* stands for the slots shared by pointer and immutable.
Security == [labels : SUBSET TierLabels, subject : {"none", "caller", "forged"}]
Http == [headers : [HeaderNames -> HeaderValues], markers : SUBSET HeaderNames,
         line : {"none", "real", "forged"}]
Chains == UNION {[1 .. n -> Hops] : n \in 0 .. MaxHops}
Delegation == [chain : Chains, origin : {"none", "root", "forged"}, depth : 0 .. MaxHops]
Raw == [inbound : SUBSET TokenIds, delegated : SUBSET TokenIds]

TierTypeOK ==
    /\ \A e \in {ext, born} :
          /\ e.agent = "host" /\ e.constraint \in Constraints
          /\ e.security \subseteq Security /\ e.http \subseteq Http
          /\ e.delegation \subseteq Delegation /\ e.raw \subseteq Raw
    /\ last \subseteq WriteCapabilities

NoHeaders == [n \in HeaderNames |-> "none"]
BlankSecurity == [labels |-> {}, subject |-> "none"]
BlankHttp == [headers |-> NoHeaders, markers |-> {}, line |-> "none"]
BlankDelegation == [chain |-> <<>>, origin |-> "none", depth |-> 0]

\* What a host and an identity hook leave to the pipeline.
AtStart(markers, delegation) ==
    [agent |-> "host", constraint |-> "none", custom |-> "none",
     security |-> {[labels |-> {}, subject |-> "caller"]},
     http |-> {[headers |-> [n \in HeaderNames |-> "set"], markers |-> markers,
                line |-> "real"]},
     delegation |-> delegation,
     raw |-> {[inbound |-> TokenIds, delegated |-> {}]}]

TierInit ==
    /\ \E m \in SUBSET HeaderNames, d \in {{}, {BlankDelegation}} : ext = AtStart(m, d)
    /\ born = ext
    /\ last = {}

-----------------------------------------------------------------------------
(* filter_extensions.                                                      *)

SubjectCaps == {"read_subject", "read_roles", "read_teams", "read_claims", "read_permissions"}

FilteredSecurity(caps) ==
    {[labels |-> IF "read_labels" \in caps THEN s.labels ELSE {},
      subject |-> IF caps \cap SubjectCaps # {} THEN s.subject ELSE "none"] : s \in ext.security}

Redacted(h) == [n \in HeaderNames |-> IF n \in h.markers /\ h.headers[n] # "none"
                                      THEN "redacted" ELSE h.headers[n]]

\* The headers and the query have a grant each; with only the query the rest
\* of the slot is blank.
FilteredHttp(caps) ==
    IF "read_headers" \in caps
    THEN {[h EXCEPT !.headers = Redacted(h)] : h \in ext.http}
    ELSE IF "read_query" \in caps THEN {BlankHttp : h \in ext.http} ELSE {}

\* The slot is there when either map may be read, the other one is empty.
FilteredRaw(caps) ==
    IF caps \cap {"read_inbound_credentials", "read_delegated_tokens"} = {} THEN {}
    ELSE {[inbound |-> IF "read_inbound_credentials" \in caps THEN r.inbound ELSE {},
           delegated |-> IF "read_delegated_tokens" \in caps THEN r.delegated ELSE {}] :
             r \in ext.raw}

View(caps) ==
    [agent |-> IF "read_agent" \in caps THEN ext.agent ELSE "none",
     constraint |-> ext.constraint, custom |-> ext.custom,
     security |-> FilteredSecurity(caps), http |-> FilteredHttp(caps),
     delegation |-> IF "read_delegation" \in caps THEN ext.delegation ELSE {},
     raw |-> FilteredRaw(caps)]

-----------------------------------------------------------------------------
(* The plugin: external code.                                              *)

\* It returns its copy with any one slot replaced by whatever it likes, or only
\* `custom`, which is anybody's.  Credentials are not written by plugins, but
\* the route handler adds the tokens its delegations minted.
Returned(v) ==
    {v, [v EXCEPT !.custom = "edited"]}
    \cup {[v EXCEPT !.security = s] : s \in {{}} \cup {{x} : x \in Security}}
    \cup {[v EXCEPT !.http = {[headers |-> f, markers |-> {}, line |-> "forged"]}] :
             f \in [HeaderNames -> HeaderValues]}
    \cup {[v EXCEPT !.delegation = {[chain |-> c, origin |-> "forged", depth |-> 0]}] :
             c \in Chains}
    \cup {[v EXCEPT !.constraint = c] : c \in Constraints}
    \cup {[v EXCEPT !.agent = "forged"]}
    \cup {[v EXCEPT !.raw = {[r EXCEPT !.delegated = @ \cup {t}] : r \in v.raw}] :
             t \in TokenIds}

-----------------------------------------------------------------------------
(* The executor's validation.                                              *)

\* validate_immutable: a slot that is missing was not seen.
ValidateImmutable(owned) == owned.agent \in {"none", ext.agent}

\* A plugin that was shown the labels may not return fewer.
LabelsOk(caps, owned) ==
    "read_labels" \in caps =>
        \A s \in ext.security, t \in owned.security : s.labels \subseteq t.labels

\* candidate_constraint_write_ok.
ConstraintWriteOk(caps, owned) ==
    "write_candidate_constraint" \in caps \/ owned.constraint = ext.constraint

-----------------------------------------------------------------------------
(* merge_owned, slot by slot, each under the token of its write capability. *)

SomeOr(option, default) == IF option = {} THEN default ELSE CHOOSE x \in option : TRUE

\* Mutant: the headers that came back are the headers.
MergeHttpWhole(caps, owned) ==
    IF owned.http = {} \/ "write_headers" \notin caps THEN ext.http
    ELSE {[SomeOr(ext.http, BlankHttp) EXCEPT !.headers = SomeOr(owned.http, BlankHttp).headers]}

\* Asserted credentials and the request line stay the canonical ones.
MergeHttp(caps, owned) ==
    IF owned.http = {} \/ "write_headers" \notin caps THEN ext.http
    ELSE LET h == SomeOr(ext.http, BlankHttp)
             new == SomeOr(owned.http, BlankHttp).headers
         IN  {[h EXCEPT !.headers = [n \in HeaderNames |->
                  IF n \in h.markers THEN h.headers[n] ELSE new[n]]]}

\* Labels are added, and nothing else is taken.
MergeSecurity(caps, owned) ==
    IF owned.security = {} \/ "append_labels" \notin caps THEN ext.security
    ELSE {[SomeOr(ext.security, BlankSecurity) EXCEPT
              !.labels = @ \cup SomeOr(owned.security, BlankSecurity).labels]}

\* Mutant: a chain as long as the canonical one will do.
ChainExtendsByLength(canonical, returned) == Len(returned) >= Len(canonical)

ChainExtends(canonical, returned) ==
    /\ Len(returned) >= Len(canonical)
    /\ \A i \in 1 .. Len(canonical) : returned[i] = canonical[i]

\* A chain that does not extend the canonical one is dropped; the depth is
\* counted again, and the root stays once it is known.
MergeDelegation(caps, owned) ==
    IF owned.delegation = {} \/ "append_delegation" \notin caps THEN ext.delegation
    ELSE LET d   == SomeOr(ext.delegation, BlankDelegation)
             new == SomeOr(owned.delegation, BlankDelegation)
         IN  IF ~ChainExtends(d.chain, new.chain) THEN ext.delegation
             ELSE {[chain |-> new.chain, depth |-> Len(new.chain),
                    origin |-> IF d.origin = "none" THEN new.origin ELSE d.origin]}

\* The credentials are taken whole whenever the copy has the slot.
MergeOwned(caps, owned) ==
    [agent |-> ext.agent, constraint |-> owned.constraint, custom |-> owned.custom,
     security |-> MergeSecurity(caps, owned), http |-> MergeHttp(caps, owned),
     delegation |-> MergeDelegation(caps, owned),
     raw |-> IF owned.raw # {} THEN owned.raw ELSE ext.raw]

\* One serial plugin, from the filtered copy to the merge.
RunsPlugin(caps) ==
    \E owned \in Returned(View(caps)) :
        /\ ext' = IF /\ ValidateImmutable(owned) /\ LabelsOk(caps, owned)
                     /\ ConstraintWriteOk(caps, owned)
                  THEN MergeOwned(caps, owned) ELSE ext
        /\ last' = caps \cap WriteCapabilities
        /\ UNCHANGED born

TierNext == \E caps \in CapabilitySets : RunsPlugin(caps)

TierSpec == TierInit /\ [][TierNext]_tierVars

-----------------------------------------------------------------------------
(* Properties.                                                             *)

\* Whatever plugins with whatever capabilities returned, the identity that was
\* authenticated, the request line, the immutable slots and the credentials the
\* engine asserted are those the pipeline began with.
IdentityKept ==
    /\ ext.agent = born.agent
    /\ {s.subject : s \in ext.security} = {s.subject : s \in born.security}
    /\ {<<h.line, h.markers>> : h \in ext.http} = {<<h.line, h.markers>> : h \in born.http}
    /\ \A h \in ext.http, b \in born.http :
          \A n \in b.markers : h.headers[n] = b.headers[n]

\* Labels and the delegation chain only grow, and the chain's depth is its own:
\* no sequence of plugins can launder a label, drop the hop that narrowed a
\* scope, or point the chain at another root.
LineageGrows ==
    /\ \A s \in ext.security, t \in ext'.security : s.labels \subseteq t.labels
    /\ \A d \in ext.delegation, e \in ext'.delegation :
          /\ SubSeq(e.chain, 1, Len(d.chain)) = d.chain
          /\ d.origin # "none" => e.origin = d.origin
          /\ e.depth = Len(e.chain)
    /\ ext.delegation # {} => ext'.delegation # {}

\* A slot with a write capability changes only under it, although a plugin
\* without it returns that slot blank or forged.
WritesNeedAGrant ==
    /\ ext'.constraint # ext.constraint => "write_candidate_constraint" \in last'
    /\ ext'.security # ext.security => "append_labels" \in last'
    /\ ext'.http # ext.http => "write_headers" \in last'
    /\ ext'.delegation # ext.delegation => "append_delegation" \in last'

\* Whatever a plugin returns, the merge adds to the lineage of the request and
\* changes only the slots the plugin was granted.
ChangesGranted == [][LineageGrows /\ WritesNeedAGrant]_tierVars
=============================================================================
