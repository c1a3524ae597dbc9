--------------------------- MODULE SessionCalls ---------------------------
(***************************************************************************)
(* The session of AveoSession on its own: any sequence of get_aveo_pool    *)
(* and shutdown_sessions calls, as its callers in job_runner, serve,       *)
(* dataplane and session_scope make them.                                  *)
(***************************************************************************)
EXTENDS AveoSession

VARIABLES
  grant,   \* history: the last get_aveo_pool and what it returned
  oom,     \* history: an allocation has failed
  leaked   \* history: the pools whose first pin_all has raised

Modes == {"grow", "strict"}
NoGrant == [nodes |-> {}, req |-> NoShape, mode |-> "grow", pool |-> NoPool]
vars == <<sessionVars, grant, oom, leaked>>

Init == SessionInit /\ grant = NoGrant /\ oom = FALSE /\ leaked = {}

Get ==
  \E ns \in NodeSets, req \in Shapes, mode \in Modes, res \in {NoPool} \cup Pools :
    /\ GetAveoPool(ns, req, mode, res)
    /\ grant' = [nodes |-> ns, req |-> req, mode |-> mode, pool |-> res]
    /\ oom' = (oom \/ GrowFails(ns, req, mode, res) \/ FirstPinFails(ns, req, res))
    /\ leaked' = IF FirstPinFails(ns, req, res)
                 THEN leaked \cup {p \in Pools : Fresh(p)} ELSE leaked

Shutdown == ShutdownSessions /\ grant' = NoGrant /\ UNCHANGED <<oom, leaked>>

Next == Get \/ Shutdown
Spec == Init /\ [][Next]_vars

TypeOK ==
  /\ SessionTypeOK
  /\ grant \in [nodes : SUBSET Nodes, req : Shape, mode : Modes,
                pool : {NoPool} \cup Pools]
  /\ oom \in BOOLEAN /\ leaked \subseteq Pools

OnlyEntryOpen == \A p \in Pools : pstate[p] = "open" => p = entry.pool
EntryIsOpen   == entry.pool # NoPool => pstate[entry.pool] = "open"

(* A VE node serves one session: the recorded pool is open, and a pool is  *)
(* open besides only if its own first pin_all has raised.                  *)
OneSession ==
  /\ EntryIsOpen
  /\ \A p \in Pools : pstate[p] = "open" => p = entry.pool \/ p \in leaked

(* The pool get_aveo_pool returns for a request is open on every node and  *)
(* its buffers take the request ("grow or reject pin capacity").           *)
GrantFits ==
  grant.pool # NoPool =>
    /\ pstate[grant.pool] = "open"
    /\ grant.req.m > 0 => \A n \in grant.nodes : Fits(grant.req, cap[grant.pool][n])

(* It does as long as no allocation has failed.                            *)
GrantFitsUntilOom == oom \/ GrantFits

(* Whatever failed before, the buffers behind the recorded pin are either  *)
(* gone or large enough for every request the record lets through: a       *)
(* pinned GEMM is refused as unpinned, never for its size.                 *)
BuffersGoneOrFit ==
  \A n \in entry.nodes :
    LET c == cap[entry.pool][n] IN
      c = NoShape \/ \A req \in Shapes : Covers(entry.pin, req) => Fits(req, c)
=============================================================================
