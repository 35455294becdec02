---------------------------- MODULE MCContractLife ----------------------------
(* Small instance of ContractLife: a few hosts under one name and beside    *)
(* it, bodies of each kind, budgets a second query already exceeds.         *)
EXTENDS ContractLife, TLC

api   == <<"api", "corp">>
docs  == <<"docs", "corp">>
corp  == <<"*", "corp">>
other == <<"drop", "net">>
odd   == <<"a*b", "*", "net">>       \* a Host header no list can hold
star  == <<"*", "net">>              \* and one that reads as a wildcard
local == <<"localhost">>

gh    == <<"mcp", "gh">>             \* names no server
push  == <<"mcp", "gh", "push">>
named == <<"mcp__gh">>               \* a Host header written like a tool
MCToolText == gh :> named @@ push :> <<"mcp__gh__push">>

Sent(kept, media, kib) ==
    [kept |-> kept, media |-> media, kib |-> kib, longString |-> FALSE,
     longQuery |-> FALSE, queryOnly |-> kept = "graphql", bounded |-> TRUE,
     encoded |-> FALSE, sizeKnown |-> TRUE, whole |-> TRUE,
     method |-> "POST", template |-> "/t"]

query == Sent("form", {"form"}, 2)
large == Sent("form", {"form"}, 4)
graph == [Sent("graphql", {"json"}, 3) EXCEPT !.longQuery = TRUE]
text  == Sent("text", {}, 1)
file  == Sent("text", {"file"}, 3)

Shape(host, body, tools) ==
    [host |-> host, body |-> body, tools |-> tools, specUploads |-> FALSE, mine |-> TRUE,
     size |-> IF body \in {NoBody, Unreadable} THEN {} ELSE {body.kib}]

At(shape, at, id) == [f \in DOMAIN shape \cup {"at", "id"} |->
    CASE f = "at" -> at [] f = "id" -> id [] OTHER -> shape[f]]

Path(text_, folded, kind) ==
    [text |-> text_, folded |-> folded, kind |-> kind, bytecode |-> FALSE,
     kernel |-> FALSE, short |-> FALSE, sqlite |-> FALSE]
log  == Path("/w/log", "/w/log", "text")
tmp  == Path("/w/abc123", "/w/abc*", "text")
pyc  == [Path("/w/__pycache__/m.pyc", "/w/__pycache__/m.pyc", "bytecode") EXCEPT !.bytecode = TRUE]
sql  == [Path("/w/etilqs_a1", "/w/etilqs_*", "(none)") EXCEPT !.sqlite = TRUE]
dns  == [protocol |-> "udp", addr |-> "127.0.0.1", port |-> "53"]
web  == [protocol |-> "tcp", addr |-> "0.0.0.0", port |-> "80"]
MCDnsEntries == {[protocol |-> "udp", addr |-> "", port |-> "53"]}

Bundle(agents, listeners, egress, declared, endpoint) ==
    [agents |-> agents, listeners |-> listeners,
     files |-> [status |-> "ANSWERED", malformed |-> FALSE, readsOnly |-> FALSE,
                items |-> {[path |-> p, write |-> TRUE] : p \in {log, tmp, pyc, sql}}],
     egress |-> egress, declared |-> Answered(declared), servers |-> Answered({<<"gh">>}),
     endpoint |-> endpoint]

Egress(status, level, enforcer) == [status |-> status, level |-> level, enforcer |-> enforcer]
enforced == Egress("ANSWERED", "allow_list_enforced", "openshell")
open     == Egress("ANSWERED", "open", "")

Endpoint(host, protocol, ports, body, tools) ==
    [host |-> host, protocol |-> protocol, ports |-> ports, pin |-> {},
     binaries |-> {"python"}, bodyAllowed |-> body, tools |-> tools]

strict == {Endpoint(api, "rest", {443}, FALSE, {}), Endpoint(docs, "mcp", {443}, TRUE, {"push", "pull"}),
           Endpoint(local, "rest", {80}, TRUE, {})}
plain  == {Endpoint(<<"**", "corp">>, "none", {443}, TRUE, {}),
           [Endpoint(other, "mcp", {443}, TRUE, {AllTools}) EXCEPT !.binaries = {}]}

alone  == [Bundle(1, Answered({dns, web}), enforced, {corp}, api) EXCEPT !.servers = Answered({})]
opened == Bundle(1, [Answered({web}) EXCEPT !.status = "PARTIAL"], open, {docs, other}, NoHost)
shared == Bundle(2, Answered({}), open, {other}, NoHost)

(* Bodies that drip out as queries, late or held, to hosts sharing a name. *)
dripping ==
    [bundle |-> alone, policy |-> {},
     window |-> {At(Shape(api, query, {}), 1, 1), At(Shape(docs, query, {}), 1, 2)},
     shapes |-> {Shape(api, query, {}), Shape(api, large, {})}, lags |-> {0, 1}, collector |-> TRUE,
     asps |-> {}, policies |-> {}, edits |-> {[uploads |-> {}], [budgets |-> corp :> 6]},
     kindsOn |-> {TRUE}, requests |-> 2, versions |-> 2, times |-> {3, 7}, turns |-> 0]

(* One query held while the guardrail is switched or turned off.           *)
blocked == [dripping EXCEPT !.lags = {0}, !.requests = 1, !.times = {3}, !.turns = 2]

(* Bodies of every kind to one host, and the rows they leave.              *)
mixed ==
    [bundle |-> opened, policy |-> {},
     window |-> {At(Shape(docs, query, {}), 1, 1), At(Shape(docs, graph, {}), 2, 2),
                 At(Shape(odd, text, {}), 2, 3), At(Shape(star, text, {}), 2, 4)},
     shapes |-> {Shape(docs, query, {}), Shape(docs, text, {}), Shape(docs, file, {}),
                 Shape(docs, Unreadable, {})},
     lags |-> {0}, collector |-> FALSE, asps |-> {}, policies |-> {},
     edits |-> {[caps |-> docs :> 1, uploads |-> {corp}],
                [overrides |-> {[host |-> docs, method |-> "POST", template |-> "/t",
                                 kind |-> "parameters"]}, uploads |-> {}]},
     kindsOn |-> {TRUE, FALSE}, requests |-> 2, versions |-> 2, times |-> {}, turns |-> 1]

(* More bodies than a row keeps.                                           *)
crowded == [mixed EXCEPT !.window = {}, !.requests = 3, !.kindsOn = {TRUE}, !.turns = 0,
                         !.shapes = {s \in @ : s.body # query}]

(* A day of more requests than are read, of which the oldest had a file.   *)
anothers == [Shape(other, text, {}) EXCEPT !.mine = FALSE]
busy ==
    [mixed EXCEPT !.window = @ \cup {At(Shape(docs, file, {}), 0, 5),
                                    At(anothers, 2, 6), At(anothers, 2, 7)},
                  !.shapes = {Shape(docs, query, {}), anothers}, !.requests = 1]

(* A host that reads as a denied tool's name.                              *)
likeTool ==
    [crowded EXCEPT !.shapes = {Shape(named, file, {gh}), Shape(named, text, {}),
                                Shape(other, NoBody, {gh, push})},
                    !.edits = {[deniedTools |-> {gh}],
                               [overrides |-> {[host |-> named, method |-> "POST",
                                                template |-> "/t", kind |-> "parameters"]}]}]

(* Tools, declared hosts and servers, and an OpenShell policy.             *)
declaring ==
    [bundle |-> alone, policy |-> {strict},
     window |-> {At(Shape(api, query, {}), 1, 1), At(Shape(docs, text, {}), 1, 2)},
     shapes |-> {Shape(other, NoBody, {gh}), Shape(other, NoBody, {push}), Shape(NoHost, text, {})},
     lags |-> {0}, collector |-> FALSE, asps |-> {opened, shared}, policies |-> {plain},
     edits |-> {[deniedTools |-> {push}, callHosts |-> {corp, other, local}]},
     kindsOn |-> {TRUE}, requests |-> 1, versions |-> 3, times |-> {}, turns |-> 2]

MCWorlds == {dripping, blocked, mixed, crowded, busy, likeTool, declaring}
=============================================================================
