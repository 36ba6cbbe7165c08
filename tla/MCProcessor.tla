---------------------------- MODULE MCProcessor ----------------------------
EXTENDS Processor

MCPaths == {<<>>, <<1, 7>>, <<1, 2, 7>>}
MCCertDays == {-1, 5}

\* One loss, one failed query, a certificate with days left and two paths.  A message
\* without metrics is the other case of each: no loss, no code, no days left, no path.
MCReported ==
    [topic \in Topics |->
        CASE topic = "ping" -> {[loss |-> 1]}
          [] topic = "dns" -> {[codes |-> {"SERVFAIL"}]}
          [] topic = "http" -> {[status |-> 200, cert |-> 5]}
          [] topic = "traceroute" ->
                {[path |-> path, reached |-> TRUE] : path \in MCPaths \ {<<>>}}]

\* Everything a canary can report.
MCAllReported == [topic \in Topics |-> Metrics(topic)]

\* Traceroutes, after a web result or two, or after one of another kind.
MCLastAt ==
    [topic \in Topics |->
        CASE topic = "traceroute" -> MaxMsgs [] topic = "http" -> 2 [] OTHER -> 1]
MCLastAtAny == [topic \in Topics |-> MaxMsgs]
=============================================================================
