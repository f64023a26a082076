------------------------- MODULE MCModuleRendering --------------------------
(***************************************************************************)
(* ModuleRendering with small constants for TLC: specs of each section,    *)
(* and of none and two, that differ from a plain one in one respect.       *)
(***************************************************************************)
EXTENDS ModuleRendering

CONSTANTS r1, r2,   \* secret keys
          v1        \* what they hold

Plain(sections) ==
  [timeout |-> "duration", sections |-> sections, queryName |-> TRUE,
   pattern |-> "none", fields |-> [k \in Kinds |-> "unset"],
   refs |-> [slot \in Slots |-> NoRef]]

\* The sections that have any of the secrets, or two of different Secrets.
RefChoices(section) ==
  {[slot \in Slots |-> IF slot \notin used THEN NoRef
                       ELSE IF slot \in {"password", "key"} THEN r1 ELSE r2] :
     used \in IF section = "http"
                THEN {{"password"}, {"clientSecret", "ca"}, {"ca", "cert", "key"}, Slots}
                ELSE {{"ca"}, {"cert", "key"}} \cap SUBSET UsedSlots(section)}

\* One field of http or dns that is set; only http has a proxy, followRedirects
\* and bodySizeLimit, only dns has recursionDesired.
FieldChoices(section) ==
  {f \in [Kinds -> FieldValues] :
     /\ section \in {"http", "dns"}
     /\ \E k \in Kinds : \A j \in Kinds \ {k} : f[j] = "unset"
     /\ \A k \in Kinds : f[k] = "garbled" => k = "parsed"
     /\ \A k \in {"parsed", "pointer", "unread"} : f[k] # "unset" => section = "http"
     /\ f["omitted"] # "unset" => section = "dns"}

SomeSpecs ==
  LET Single(section) ==
        LET p == Plain({section})
        IN  {[p EXCEPT !.timeout = t] : t \in {"duration", "empty", "garbled"}}
            \cup {[p EXCEPT !.pattern = x] : x \in {"good", "bad"}}
            \cup {[p EXCEPT !.refs = x] : x \in RefChoices(section)}
            \cup {[p EXCEPT !.fields = x] : x \in FieldChoices(section)}
  IN  UNION {Single(section) : section \in Sections}
      \cup {Plain({}), Plain({"http", "tcp"}), [Plain({"dns"}) EXCEPT !.queryName = FALSE]}

\* TLS with a client certificate, and a limit on what is read.
Authenticated ==
  {[Plain({"http"}) EXCEPT !.fields["unread"] = "value",
      !.refs = [slot \in Slots |-> CASE slot = "key"            -> r1
                                    [] slot \in {"ca", "cert"} -> r2
                                    [] OTHER                   -> NoRef]]}
=============================================================================
