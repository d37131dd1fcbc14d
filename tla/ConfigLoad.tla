----------------------------- MODULE ConfigLoad -----------------------------
(***************************************************************************)
(* Loading a configuration: load/ expands the includes and the environment *)
(* placeholders of the files, the RON parser builds the model, validate    *)
(* and compile turn it into the snapshot the server runs, and the TLS      *)
(* acceptors of its listeners are built from it.                           *)
(*                                                                         *)
(* A file is a sequence of lines: text, or an include directive with the   *)
(* files its pattern resolves to, in the order they are read.  A line      *)
(* "resolves" if its environment placeholders or its pattern do.           *)
(***************************************************************************)
EXTENDS ConfigCompile, SequencesExt

CONSTANTS
  MainFile,      \* the file load_from_path is called with
  LoadScenarios  \* the files, the configuration their text denotes, what compile finds on disk

IsVec(s) == s \in Seq(Range(s))
AtMostOne(opt) == \A x, y \in opt : x = y

\* Finitely many files, the main one among them, of lines of text and include directives.
SourceShape(files) ==
  /\ IsFiniteSet(DOMAIN files) /\ MainFile \in DOMAIN files
  /\ \A f \in DOMAIN files :
       /\ IsVec(files[f])
       /\ \A l \in Range(files[f]) : l.kind = "text" \/ (l.kind = "include" /\ IsVec(l.paths))

\* What the types of the model/ structures guarantee of a parsed configuration.
ListenerShape(l) == {"listen", "tls", "limits", "serverHeader", "defaultCertificate"} \subseteq DOMAIN l

ConfigShape(c) ==
  /\ IsVec(c.vhosts) /\ \A v \in Range(c.vhosts) : IsVec(v.listen) /\ IsVec(v.names)
  /\ ListenerShape(c.server) /\ \A l \in Range(c.listeners) : ListenerShape(l)
  /\ \A l \in AllLocations(c) : \A cache \in l.cache : AtMostOne(cache.rangeRequests)

ASSUME LoadAssumption == \A s \in LoadScenarios : SourceShape(s.source) /\ ConfigShape(s.config)

VARIABLES
  loadPhase,     \* "off", "expanding", "parsed", "validated", "compiled", "ready", "rejected"
  source,        \* the contents of the configuration files
  calls,         \* the active calls of preprocess_source_inner: file, line, files still to include
  includeStack,  \* include_stack: the files being expanded
  expanded,      \* the text produced so far, as a sequence of <<file, line>>
  loadError,     \* why a configuration was rejected
  config,        \* the parsed configuration
  env,           \* what compile finds on disk
  snapshot       \* the compiled configuration, as an Option

loadVars == <<loadPhase, source, calls, includeStack, expanded, loadError, config, env, snapshot>>

LoadInit ==
  /\ loadPhase = "expanding"
  /\ \E s \in LoadScenarios : source = s.source /\ config = s.config /\ env = s.env
  /\ calls = <<[file |-> MainFile, line |-> 1, pending |-> <<>>]>>
  /\ includeStack = <<MainFile>>
  /\ expanded = <<>> /\ loadError = "none"
  /\ snapshot = {}

\* No configuration is being loaded.
LoadOff ==
  /\ loadPhase = "off" /\ source = <<>> /\ calls = <<>> /\ includeStack = <<>>
  /\ expanded = <<>> /\ loadError = "none"
  /\ config = <<>> /\ env = <<>> /\ snapshot = {}

Reject(reason) ==
  /\ loadPhase' = "rejected" /\ loadError' = reason
  /\ UNCHANGED <<source, calls, includeStack, expanded, config, env, snapshot>>

Frame == calls[Len(calls)]
Line == source[Frame.file][Frame.line]
AtLine(kind) ==
  /\ loadPhase = "expanding" /\ Frame.pending = <<>>
  /\ Frame.line <= Len(source[Frame.file]) /\ Line.kind = kind

KeepLoaded == UNCHANGED <<loadPhase, source, loadError, config, env, snapshot>>

\* A line of text, its placeholders replaced.
ExpandText ==
  /\ AtLine("text") /\ Line.resolves
  /\ expanded' = Append(expanded, <<Frame.file, Frame.line>>)
  /\ calls' = [calls EXCEPT ![Len(calls)].line = @ + 1]
  /\ UNCHANGED includeStack /\ KeepLoaded

\* An unset variable without a default, or a malformed placeholder.
ExpandTextFails ==
  /\ AtLine("text") /\ ~Line.resolves
  /\ Reject("environment")

\* Mutant of ReadInclude: only the first file of a directory pattern is read.
ReadIncludeFirst ==
  /\ AtLine("include") /\ Line.resolves
  /\ calls' = [calls EXCEPT
                 ![Len(calls)].pending = IF Line.paths = <<>> THEN <<>> ELSE <<Head(Line.paths)>>,
                 ![Len(calls)].line = @ + 1]
  /\ UNCHANGED <<includeStack, expanded>> /\ KeepLoaded

\* An include directive; a glob without matches includes nothing.
ReadInclude ==
  /\ AtLine("include") /\ Line.resolves
  /\ LET next == [Frame EXCEPT !.pending = Line.paths, !.line = @ + 1]
     IN  calls' = [calls EXCEPT ![Len(calls)] = next]
  /\ UNCHANGED <<includeStack, expanded>> /\ KeepLoaded

\* A malformed or empty directive, a glob that is no *.ron, or one whose parent
\* is no directory that can be read.
ReadIncludeFails ==
  /\ AtLine("include") /\ ~Line.resolves
  /\ Reject("include")

\* read_to_string of an included file, and the cycle test of the call it makes.
OpenInclude ==
  /\ loadPhase = "expanding" /\ Frame.pending # <<>>
  /\ LET path == Head(Frame.pending)
     IN  /\ path \in DOMAIN source /\ path \notin Range(includeStack)
         /\ calls' = Append([calls EXCEPT ![Len(calls)].pending = Tail(@)],
                            [file |-> path, line |-> 1, pending |-> <<>>])
         /\ includeStack' = Append(includeStack, path)
         /\ UNCHANGED expanded /\ KeepLoaded

OpenIncludeFails ==
  /\ loadPhase = "expanding" /\ Frame.pending # <<>>
  /\ LET path == Head(Frame.pending)
     IN  \/ path \notin DOMAIN source /\ Reject("missing include")
         \/ path \in DOMAIN source /\ path \in Range(includeStack) /\ Reject("cycle")

AtEnd == loadPhase = "expanding" /\ Frame.pending = <<>> /\ Frame.line > Len(source[Frame.file])

\* Mutant of CloseInclude: the file stays on the include stack when its expansion returns.
CloseIncludeKeepsStack ==
  /\ AtEnd /\ Len(calls) > 1
  /\ calls' = SubSeq(calls, 1, Len(calls) - 1)
  /\ UNCHANGED <<expanded, includeStack>> /\ KeepLoaded

CloseInclude ==
  /\ AtEnd /\ Len(calls) > 1
  /\ calls' = SubSeq(calls, 1, Len(calls) - 1)
  /\ includeStack' = SubSeq(includeStack, 1, Len(includeStack) - 1)
  /\ UNCHANGED expanded /\ KeepLoaded

\* The main file is expanded: the text is parsed.
ParseConfig ==
  /\ AtEnd /\ Len(calls) = 1
  /\ loadPhase' = "parsed" /\ calls' = <<>> /\ includeStack' = <<>>
  /\ UNCHANGED <<source, expanded, loadError, config, env, snapshot>>

\* The text is no RON, or not of the types of the model.
ParseConfigFails ==
  /\ AtEnd /\ Len(calls) = 1
  /\ Reject("parse")

ValidateConfig ==
  /\ loadPhase = "parsed"
  /\ \/ /\ Validate(config)
        /\ loadPhase' = "validated"
        /\ UNCHANGED <<source, calls, includeStack, expanded, loadError, config, env, snapshot>>
     \/ ~Validate(config) /\ Reject("validate")

CompileConfig ==
  /\ loadPhase = "validated"
  /\ \/ /\ Compiles(config, env)
        /\ loadPhase' = "compiled" /\ snapshot' = {Snapshot(config)}
        /\ UNCHANGED <<source, calls, includeStack, expanded, loadError, config, env>>
     \/ ~Compiles(config, env) /\ Reject("compile")

\* prepare_state: the TLS acceptors and QUIC configurations of the listeners.
BuildAcceptors ==
  /\ loadPhase = "compiled"
  /\ \/ /\ \A s \in snapshot : \A l \in s.listeners : BuildsAcceptor(l, config, env)
        /\ loadPhase' = "ready"
        /\ UNCHANGED <<source, calls, includeStack, expanded, loadError, config, env, snapshot>>
     \/ /\ \E s \in snapshot : \E l \in s.listeners : ~BuildsAcceptor(l, config, env)
        /\ Reject("acceptor")

LoadNext ==
  \/ ExpandText \/ ExpandTextFails \/ ReadInclude \/ ReadIncludeFails \/ OpenInclude \/ OpenIncludeFails
  \/ CloseInclude \/ ParseConfig \/ ParseConfigFails \/ ValidateConfig \/ CompileConfig \/ BuildAcceptors

LoadSpec == LoadInit /\ [][LoadNext]_loadVars

----------------------------------------------------------------------------
(***************************************************************************)
(* Properties                                                              *)
(***************************************************************************)

\* The reference: what a file expands to when every include is replaced by the
\* expansions of its files, d levels deep.  A missing file has none; it is refused.
Inlined(texts, paths) ==
  FlattenSeq([k \in DOMAIN paths |-> IF paths[k] \in DOMAIN texts THEN texts[paths[k]] ELSE <<>>])

Pieces(files, texts, f) ==
  [i \in DOMAIN files[f] |->
     IF files[f][i].kind = "text" THEN << <<f, i>> >> ELSE Inlined(texts, files[f][i].paths)]

Expansion(files) ==
  LET expansion[d \in 0 .. Cardinality(DOMAIN files)] ==
        [f \in DOMAIN files |->
           IF d = 0 THEN <<>> ELSE FlattenSeq(Pieces(files, expansion[d - 1], f))]
  IN  expansion[Cardinality(DOMAIN files)]

\* The expanded text is the main file with every include replaced, in order, by what
\* its files expand to, however the include calls nest and however often a file is
\* included (load/preprocess.rs).
IncludesInlinedInOrder ==
  loadPhase \notin {"off", "expanding"} /\ loadError \notin {"environment", "include", "missing include", "cycle"}
    => expanded = Expansion(source)[MainFile]

IncludedBy(files, f) == UNION {Range(l.paths) : l \in {x \in Range(files[f]) : x.kind = "include"}}
IncludeEdges == UNION {{<<f, p>> : p \in IncludedBy(source, f)} : f \in DOMAIN source}

\* A configuration is refused for an include cycle only when a file really includes
\* itself, directly or through others: a file that is included twice side by side is
\* not a cycle (the include stack is popped on return).
OnlyRealCyclesRefused ==
  loadError = "cycle" =>
    LET path == Head(Frame.pending)
        from == CHOOSE i \in DOMAIN includeStack : includeStack[i] = path
    IN  /\ <<includeStack[Len(includeStack)], path>> \in IncludeEdges
        /\ \A i \in from .. (Len(includeStack) - 1) : <<includeStack[i], includeStack[i + 1]>> \in IncludeEdges

\* No two compiled listeners share an identity, a TCP address or, among explicit
\* listeners, a UDP address (validate_listeners, compile_vhost_listeners): reload and
\* restart match listeners by id and inherited sockets by address.
ListenersDistinct ==
  \A s \in snapshot : \A a, b \in s.listeners : a # b =>
    /\ a.id # b.id /\ a.server.tcp # b.server.tcp
    /\ a.id[1] = "listener" =>
         {h.udp : h \in a.http3} \cap {h.udp : h \in b.http3} = {}

\* Every proxying route holds an upstream: its virtual host's own when that has one of
\* the name, else a global one, never another virtual host's.  The upstream is the one
\* the snapshot has under its name, by which clients and health entries are found, unless
\* it is a global one whose name was written like a virtual host's own ("servers[0]::u")
\* and that host has such an own one.  Every caching route names a zone (validate_handler,
\* compile_route_action, compile_virtual_host, scoped_upstream_name).
ReferencesResolve ==
  \A s \in snapshot : \A r \in s.routes :
    /\ r.action.kind = "proxy" => r.action.upstream # {}
    /\ \A u \in r.action.upstream :
         /\ u.scope \in {0, r.scope}
         /\ u.scope = 0 /\ r.scope # 0 =>
              ~\E w \in s.upstreams : w.scope = r.scope /\ w.name = ScopedName(r.scope, u.name)
         /\ \/ u \in s.upstreams
            \/ u.scope = 0 /\ \E w \in s.upstreams : w.name = u.name /\ w.scope # 0
    /\ \A c \in r.cache : \E z \in s.zones : z.name = c.zone

\* A server that is ready never offers HTTP/3 without TLS 1.3, early data where it keeps
\* no sessions to resume, and retry tokens or extra connection ids without the host key
\* that makes them survive a restart.  It offers early data on tickets, which can be
\* replayed, only where session_ticket_count alone turned them on: apply_session_policy
\* takes the count for a yes, validate_http3 looks at session_tickets only (and for the
\* vhosts that take http3 by default there are the checks of build_server_config_builder).
Http3IsSecured ==
  loadPhase = "ready" =>
    \A s \in snapshot : \A l \in s.listeners : \A h \in l.http3 :
      /\ l.tlsTermination
      /\ \A t \in l.server.tls : \A v \in t.versions : "tls13" \in Range(v)
      /\ h.earlyData => \A t \in l.server.tls :
           /\ KeepsSessions(t)
           /\ IssuesTickets(t) => ~TrueIn(t.tickets) /\ t.ticketCount # {}
      /\ (h.retry \/ h.connectionIds > 2) => h.hostKey # {}

\* A listener that terminates TLS has a certificate to offer as soon as its configuration
\* compiles, wherever the certificate is declared: a reload never gets as far as building
\* an acceptor (build_tls_server_config) only to find there is nothing to present.
TlsListenersHaveCertificates ==
  \A s \in snapshot : \A l \in s.listeners : l.tlsTermination => HasCertificate(l, config)

\* A route that buffers request bodies is only ever reached through listeners that bound
\* them, in all three ways of declaring listeners (validate_request_buffering_limits).
BufferedBodiesBounded ==
  \A s \in snapshot :
    (\E r \in s.routes : r.requestBuffering = "on") => \A l \in s.listeners : l.server.limits.maxRequestBody # {}

\* Certificates are managed by ACME only when the running listeners include a plain one
\* on port 80 for the HTTP-01 challenge, and a managed virtual host is not served over
\* HTTP/3 by a listener it declares itself (validate_acme).
ManagedCertificatesRenewable ==
  \A s \in snapshot : s.managed # {} =>
    /\ \E l \in s.listeners : l.server.tcp = 80 /\ ~l.tlsTermination
    /\ \A m \in s.managed, l \in s.listeners :
         l.http3 # {} => ~(l.id[1] = "listener" \/
                           \E e \in Range(config.vhosts[m.scope].listen) : e.addr = l.server.tcp)

\* The defaults a compiled configuration is completed with never break a bound that was
\* checked before they were filled in: an entry fits its zone, a DNS answer's minimal
\* lifetime does not exceed the maximal one, a route that slices ranges caches them.
DefaultsKeepBounds ==
  \A s \in snapshot :
    /\ \A z \in s.zones : \A size \in z.maxSize : z.maxEntry <= size
    /\ \A u \in s.upstreams : \A d \in u.upstream.dns : d.min <= d.max
    /\ \A r \in s.routes : \A c \in r.cache : c.sliceSize # {} => c.rangeRequests = "cache"

\* Includes are expanded in place, and refused only for a real cycle.
IncludesExpanded == IncludesInlinedInOrder /\ OnlyRealCyclesRefused

\* A configuration that compiles has what the runtime takes for granted, in
\* each of the ways listeners, certificates, upstreams and zones can be declared:
\* validation looks at the written configuration, the runtime at the compiled one
\* with its defaults and inherited settings.
CompiledSound ==
  /\ ListenersDistinct /\ ReferencesResolve
  /\ Http3IsSecured /\ TlsListenersHaveCertificates /\ ManagedCertificatesRenewable
  /\ BufferedBodiesBounded /\ DefaultsKeepBounds
============================================================================
