---------------------------- MODULE MCHTTPSensor ---------------------------
(* Small instances of HTTPSensor.                                          *)
EXTENDS HTTPSensor

Good(path, method) ==
    [path |-> path, method |-> method, auth |-> IF path \in Anthropic THEN "x-api-key" ELSE "bearer",
     encoded |-> FALSE, body |-> "whole", json |-> "object", model |-> "served", wrong |-> {}]

\* A flawless request for every path, and each of its single flaws.
MCRequests ==
    LET good == {Good(p, IF Expected(p) = "" THEN "GET" ELSE Expected(p)) : p \in Paths}
    IN UNION {{r} \cup {[r EXCEPT !.wrong = {f}] : f \in Fields}
                  \cup {[r EXCEPT !.auth = a] : a \in {"none", "bearer", "x-api-key"}}
                  \cup {[r EXCEPT !.method = m] : m \in {"HEAD", "POST"}}
                  \cup {[r EXCEPT !.json = j] : j \in {"invalid", "deep"}}
                  \cup {[r EXCEPT !.model = m] : m \in {"other", "invalid"}}
                  \cup {[r EXCEPT !.body = b] : b \in {"large", "broken"}}
                  \cup {[r EXCEPT !.encoded = TRUE]} : r \in good}

MCKinds == AllKinds
====
