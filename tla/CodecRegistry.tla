--------------------------- MODULE CodecRegistry ---------------------------
(***************************************************************************)
(* The codec registry (codec/registry.go): a concurrent map from           *)
(* normalised names to codecs, filled with the built-in ones and then by   *)
(* any goroutine, at any time.  Get, GetOption and Must read it.           *)
(***************************************************************************)
EXTENDS Naturals

CONSTANTS
  Codecs,      \* the codec values
  Spellings,   \* what a codec may call itself and a caller may ask for
  Normal,      \* Normal[s]: the spelling s trimmed and in lower case
  Blank,       \* the normalised name that is empty
  Name,        \* Name[k]: what codec k calls itself
  Builtins,    \* the codecs of NewRegistry
  Registrars,  \* goroutines that register a codec
  Registers    \* Registers[g]: the codec g registers, {} for a nil one

AtMostOne(S) == \A x, y \in S : x = y
NameOf(k) == Normal[Name[k]]
Names == {Normal[s] : s \in Spellings}

\* NewRegistry panics on built-ins that mustRegisterCodec refuses.
ASSUME RegistryAssumption ==
  /\ Name \in [Codecs -> Spellings]
  /\ Registers \in [Registrars -> SUBSET Codecs]
  /\ \A g \in Registrars : AtMostOne(Registers[g])
  /\ Builtins \subseteq Codecs
  /\ \A j, k \in Builtins : NameOf(j) # Blank /\ (NameOf(j) = NameOf(k) => j = k)

VARIABLES
  codecs,     \* the codec bound to each normalised name, {} if none
  registered  \* what Register gave each goroutine, "pending" before the call

Results == {"pending", "ok", "nil", "empty", "exists"}

RegistryInit ==
  /\ codecs = [n \in Names |-> {k \in Builtins : NameOf(k) = n}]
  /\ registered = [g \in Registrars |-> "pending"]

Refuses(g, why) ==
  /\ registered' = [registered EXCEPT ![g] = why]
  /\ UNCHANGED codecs

\* Faulty variant: Set, with the answer of a Get before it.
Stores(k) == codecs' = [codecs EXCEPT ![NameOf(k)] = {k}]

\* GetOrStore: what is there stays.
GetOrStore(k) == codecs' = [codecs EXCEPT ![NameOf(k)] = IF @ = {} THEN {k} ELSE @]

\* Register: a nil codec, a blank name, or the first to store the name wins.
Register(g) ==
  /\ registered[g] = "pending"
  /\ \/ Registers[g] = {} /\ Refuses(g, "nil")
     \/ \E k \in Registers[g] :
          \/ NameOf(k) = Blank /\ Refuses(g, "empty")
          \/ /\ NameOf(k) # Blank
             /\ GetOrStore(k)
             /\ registered' =
                  [registered EXCEPT ![g] = IF codecs[NameOf(k)] = {} THEN "ok" ELSE "exists"]

\* Get and GetOption: the codec of that name, {} (nil, None) if there is none.
Get(s) == codecs[Normal[s]]

RegistryTypeOK ==
  /\ codecs \in [Names -> SUBSET Codecs]
  /\ \A n \in Names : AtMostOne(codecs[n])
  /\ registered \in [Registrars -> Results]

\* Of the goroutines that register codecs of one name, at the same time or
\* later, at most one wins, and none against a built-in; what the winner has
\* registered is what everyone finds, for good, and the others are told so.
FirstWins ==
  \A g \in Registrars : \A k \in Registers[g] :
    /\ registered[g] = "ok" =>
         /\ Get(Name[k]) = {k}
         /\ \A b \in Builtins : NameOf(b) # NameOf(k)
         /\ \A h \in Registrars \ {g} : \A j \in Registers[h] :
              registered[h] = "ok" => NameOf(j) # NameOf(k)
    /\ registered[g] = "exists" => Get(Name[k]) # {}
=============================================================================
