------------------------ MODULE SettingsTextsProofs ------------------------
(***************************************************************************)
(* Theorems about Settings, in the first part, and Texts, in the second.   *)
(*                                                                         *)
(* Settings: for any number of clients and of commands and for every       *)
(* configuration file, a synthesis voice fits to its module, and the       *)
(* messages of a block are queued with one priority and one mode each of   *)
(* punctuation, spelling and capital letters.                              *)
(*                                                                         *)
(* Texts: whatever a text is, however long and however often it is paused  *)
(* and resumed, its index marks are in order and outside its tags, and the *)
(* module reads it to its end, unless it is one of the texts of RawDots.   *)
(***************************************************************************)
EXTENDS Settings, Texts, FiniteSetTheorems, SequenceTheorems,
        WellFoundedInduction, TLAPS

SettingsSet ==
    [number : [Params -> Values], priority : Priorities,
     voice_type : VoiceTypes \cup {"NO_VOICE"}, voice_name : Voices \cup {NULL},
     output_module : Modules]

TypeOK ==
    /\ active \in [Clients -> BOOLEAN]
    /\ settings \in [Clients -> SettingsSet]
    /\ inside_block \in [Clients -> BOOLEAN]
    /\ touched \in [Clients -> BOOLEAN] /\ configured \in [Clients -> BOOLEAN]
    /\ DOMAIN block = Clients
    /\ chosen_for \in [Clients -> Modules \cup {NULL}]

\* The messages of a block agree, and while the block is open they agree with
\* the settings of the client.
Agree(u) == ~touched[u] =>
    /\ \A j, k \in block[u] : j = k
    /\ inside_block[u] => \A k \in block[u] : k = Kept(settings[u])

Inv == TypeOK /\ VoiceFits /\ \A u \in Clients : Agree(u)

-----------------------------------------------------------------------------
(***************************************************************************)
(* The settings of one client.                                             *)
(***************************************************************************)

\* The numbers are ordered so that every set of them has a least element.
LEMMA LessIsWellFounded == IsWellFoundedOn({ss \in Nat \X Nat : ss[1] < ss[2]}, Nat)
<1> QED
  BY NatLessThanWellFounded, Zenon DEF OpToRel

\* A set of positions has a last one.
LEMMA LastPosition ==
  ASSUME NEW n \in Nat, NEW I, I \subseteq 1..n, I # {}
  PROVE  \E i \in I : \A j \in I : j <= i
<1> DEFINE D == {n - i : i \in I}
           R == {ss \in Nat \X Nat : ss[1] < ss[2]}
<1>1. D \subseteq Nat /\ D # {}
  <2>1. \A i \in I : n - i \in Nat
    OBVIOUS
  <2>2. PICK i \in I : TRUE
    OBVIOUS
  <2>3. n - i \in D
    BY <2>2
  <2> QED
    BY <2>1, <2>3
<1>2. PICK d \in D : \A e \in D : ~(<<e, d>> \in R)
  BY <1>1, LessIsWellFounded, WFMin
<1>3. \A e \in D : ~(e < d)
  BY <1>1, <1>2
<1>4. PICK i \in I : d = n - i
  OBVIOUS
<1>5. \A j \in I : j <= i
  <2> SUFFICES ASSUME NEW j \in I PROVE j <= i
    OBVIOUS
  <2>1. ~(n - j < n - i)
    BY <1>3, <1>4
  <2> QED
    BY <2>1
<1> QED
  BY <1>5

\* A section of the file gives a parameter one of the values it may have.
LEMMA SectionValue ==
  ASSUME NEW name, NEW par \in Params \cup {"voice_type", "output_module"},
         NEW value
  PROVE  section_value(name, par, value) \in SectionValues(par) \cup {value}
<1> DEFINE decide == {i \in DOMAIN client_specific_settings :
                        /\ name \in client_specific_settings[i].pattern
                        /\ par \in DOMAIN client_specific_settings[i].val}
           last == CHOOSE i \in decide : \A j \in decide : j <= i
<1>1. CASE decide = {}
  BY <1>1 DEF section_value
<1>2. CASE decide # {}
  <2>1. decide \subseteq 1..Len(client_specific_settings) /\ Len(client_specific_settings) \in Nat
    BY SettingsAssumption
  <2>2. \E i \in decide : \A j \in decide : j <= i
    <3> HIDE DEF decide
    <3> QED
      BY <1>2, <2>1, LastPosition
  <2>3. last \in decide
    <3> HIDE DEF decide
    <3> QED
      BY <2>2
  <2>4. client_specific_settings[last].val[par] \in SectionValues(par)
    BY <2>3, SettingsAssumption
  <2>5. section_value(name, par, value) = client_specific_settings[last].val[par]
    BY <1>2 DEF section_value
  <2> QED
    BY <2>4, <2>5
<1> QED
  BY <1>1, <1>2

\* The operations on the settings keep their types, and those that a block
\* allows keep what the messages of a block have in common.
LEMMA NumberSet ==
  ASSUME NEW s \in SettingsSet, NEW p \in Params, NEW v \in Values
  PROVE  /\ set_number_uid(s, p, v) \in SettingsSet
         /\ p \notin NotInBlock => Kept(set_number_uid(s, p, v)) = Kept(s)
         /\ set_number_uid(s, p, v).voice_name = s.voice_name
         /\ set_number_uid(s, p, v).voice_type = s.voice_type
         /\ set_number_uid(s, p, v).output_module = s.output_module
<1> DEFINE t == set_number_uid(s, p, v)
<1>1. /\ t = [s EXCEPT !.number = [s.number EXCEPT ![p] = v]]
      /\ s.number \in [Params -> Values]
  BY DEF set_number_uid, SettingsSet
<1>2. /\ t \in SettingsSet /\ t.priority = s.priority
      /\ t.voice_name = s.voice_name /\ t.voice_type = s.voice_type
      /\ t.output_module = s.output_module
      /\ \A q \in Params : q # p => t.number[q] = s.number[q]
  BY <1>1 DEF SettingsSet
<1>3. ASSUME p \notin NotInBlock PROVE Kept(t) = Kept(s)
  <2>1. \A q \in Params \cap NotInBlock : t.number[q] = s.number[q]
    BY <1>2, <1>3
  <2> HIDE DEF t
  <2> QED
    BY <1>2, <2>1 DEF Kept
<1> QED
  BY <1>2, <1>3

LEMMA PrioritySet ==
  ASSUME NEW s \in SettingsSet, NEW v \in Priorities
  PROVE  /\ set_priority_uid(s, v) \in SettingsSet
         /\ set_priority_uid(s, v).voice_name = s.voice_name
         /\ set_priority_uid(s, v).voice_type = s.voice_type
         /\ set_priority_uid(s, v).output_module = s.output_module
<1> QED
  BY DEF set_priority_uid, SettingsSet

LEMMA VoiceSet ==
  ASSUME NEW s \in SettingsSet, NEW v \in VoiceTypes
  PROVE  /\ set_voice_uid(s, v) \in SettingsSet
         /\ Kept(set_voice_uid(s, v)) = Kept(s)
         /\ set_voice_uid(s, v).voice_name = NULL
<1> QED
  BY DEF set_voice_uid, SettingsSet, Kept

LEMMA SynthesisVoiceSet ==
  ASSUME NEW s \in SettingsSet, NEW v \in Voices
  PROVE  /\ set_synthesis_voice_uid(s, v) \in SettingsSet
         /\ Kept(set_synthesis_voice_uid(s, v)) = Kept(s)
         /\ set_synthesis_voice_uid(s, v).voice_type = "NO_VOICE"
         /\ set_synthesis_voice_uid(s, v).output_module = s.output_module
<1> QED
  BY DEF set_synthesis_voice_uid, SettingsSet, Kept

LEMMA OutputModuleSet ==
  ASSUME NEW s \in SettingsSet, NEW m \in Modules
  PROVE  /\ set_output_module_uid(s, m) \in SettingsSet
         /\ Kept(set_output_module_uid(s, m)) = Kept(s)
         /\ set_output_module_uid(s, m).voice_name = NULL
<1> QED
  BY DEF set_output_module_uid, SettingsSet, Kept

LEMMA LanguageSet ==
  ASSUME NEW s \in SettingsSet, NEW l \in Languages
  PROVE  /\ set_language_uid(s, l) \in SettingsSet
         /\ Kept(set_language_uid(s, l)) = Kept(s)
         /\ set_language_uid(s, l) = s \/ set_language_uid(s, l).voice_name = NULL
<1>1. language_default_modules[l] = NULL \/ language_default_modules[l] \in Modules
  BY SettingsAssumption
<1> QED
  BY <1>1, OutputModuleSet DEF set_language_uid

LEMMA ClientSettingsUpdated ==
  ASSUME NEW s \in SettingsSet, NEW name
  PROVE  update_cl_settings(s, name) \in SettingsSet
<1>1. "voice_type" \notin Params /\ "output_module" \notin Params
  BY SettingsAssumption DEF Ranged, Free, NotInBlock
<1>2. \A p \in Params : section_value(name, p, s.number[p]) \in Values
  <2> SUFFICES ASSUME NEW p \in Params PROVE section_value(name, p, s.number[p]) \in Values
    OBVIOUS
  <2>1. s.number[p] \in Values
    BY DEF SettingsSet
  <2>2. SectionValues(p) = Values \ {"bad"}
    BY <1>1 DEF SectionValues
  <2> QED
    BY <2>1, <2>2, SectionValue
<1>3. section_value(name, "voice_type", s.voice_type) \in VoiceTypes \cup {"NO_VOICE"}
  <2>1. SectionValues("voice_type") = VoiceTypes
    BY <1>1 DEF SectionValues
  <2>2. s.voice_type \in VoiceTypes \cup {"NO_VOICE"}
    BY DEF SettingsSet
  <2> QED
    BY <2>1, <2>2, SectionValue
<1>4. section_value(name, "output_module", s.output_module) \in Modules
  <2>1. SectionValues("output_module") = Modules
    BY <1>1 DEF SectionValues
  <2>2. s.output_module \in Modules
    BY DEF SettingsSet
  <2> QED
    BY <2>1, <2>2, SectionValue
<1>5. [p \in Params |-> section_value(name, p, s.number[p])] \in [Params -> Values]
  BY <1>2
<1> QED
  BY <1>3, <1>4, <1>5 DEF update_cl_settings, SettingsSet

-----------------------------------------------------------------------------
(***************************************************************************)
(* The steps.                                                              *)
(***************************************************************************)

LEMMA InitInv == Init => Inv
<1> SUFFICES ASSUME Init PROVE Inv
  OBVIOUS
<1>1. default_fd_set \in SettingsSet /\ default_fd_set.voice_name = NULL
  BY SettingsAssumption DEF default_fd_set, SettingsSet, Values, Priorities, VoiceTypes
<1>2. TypeOK
  BY <1>1 DEF Init, TypeOK
<1>3. VoiceFits
  BY <1>1 DEF Init, VoiceFits
<1>4. \A u \in Clients : Agree(u)
  BY DEF Init, Agree
<1> QED
  BY <1>2, <1>3, <1>4 DEF Inv

\* A SET command: the messages of the blocks still agree if the command
\* changes nothing that a message of the client's own block was queued with.
LEMMA SetsAgree ==
  ASSUME Inv, NEW u \in Clients, settings' \in [Clients -> SettingsSet],
         touched' = [c \in Clients |-> \/ touched[c]
                                       \/ /\ c # u /\ inside_block[c]
                                          /\ Kept(settings'[c]) # Kept(settings[c])],
         UNCHANGED <<active, inside_block, block>>,
         inside_block[u] => Kept(settings'[u]) = Kept(settings[u])
  PROVE  touched' \in [Clients -> BOOLEAN] /\ \A c \in Clients : Agree(c)'
<1>1. touched' \in [Clients -> BOOLEAN]
  BY DEF Inv, TypeOK
<1>2. ASSUME NEW c \in Clients PROVE Agree(c)'
  <2>1. ~touched'[c] =>
          ~touched[c] /\ (inside_block[c] => Kept(settings'[c]) = Kept(settings[c]))
    OBVIOUS
  <2>2. Agree(c)
    BY DEF Inv
  <2>3. inside_block'[c] = inside_block[c] /\ block'[c] = block[c]
    OBVIOUS
  <2> QED
    BY <2>1, <2>2, <2>3 DEF Agree
<1> QED
  BY <1>1, <1>2

\* A SET command that leaves the ghosts of the voice alone.
LEMMA SetsInv ==
  ASSUME Inv, NEW u \in Clients, settings' \in [Clients -> SettingsSet],
         touched' = [c \in Clients |-> \/ touched[c]
                                       \/ /\ c # u /\ inside_block[c]
                                          /\ Kept(settings'[c]) # Kept(settings[c])],
         UNCHANGED <<active, inside_block, block, chosen_for, configured>>,
         inside_block[u] => Kept(settings'[u]) = Kept(settings[u]),
         \A c \in Clients :
           \/ settings'[c].voice_name = NULL
           \/ /\ settings'[c].voice_name = settings[c].voice_name
              /\ settings'[c].voice_type = settings[c].voice_type
              /\ settings'[c].output_module = settings[c].output_module
  PROVE  Inv'
<1>1. touched' \in [Clients -> BOOLEAN] /\ \A c \in Clients : Agree(c)'
  BY SetsAgree
<1>2. TypeOK'
  BY <1>1 DEF Inv, TypeOK
<1>3. VoiceFits'
  BY DEF Inv, VoiceFits
<1> QED
  BY <1>1, <1>2, <1>3 DEF Inv

\* RATE, PITCH and VOLUME, PAUSE_CONTEXT and SSML_MODE.
LEMMA SetNumberInv ==
  ASSUME Inv, NEW u \in Clients, NEW who, NEW p \in Params, NEW v \in Values,
         \/ p \in Ranged /\ set_ranged(u, who, p, v)
         \/ p \in Free /\ set_free(u, who, p, v)
         \/ set_mode(u, who, p, v)
  PROVE  Inv'
<1> USE DEF set_ranged, set_free, set_mode, Sets, SameVoice
<1>1. PICK accepted \in BOOLEAN :
        /\ settings' = [c \in Clients |-> IF accepted /\ c \in Named(u, who)
                                          THEN set_number_uid(settings[c], p, v)
                                          ELSE settings[c]]
        /\ p \in NotInBlock /\ accepted => ~inside_block[u]
  <2>1. CASE p \in Ranged /\ set_ranged(u, who, p, v)
    <3>1. p \notin NotInBlock
      BY <2>1 DEF Ranged, NotInBlock
    <3> QED
      BY <2>1, <3>1
  <2>2. CASE p \in Free /\ set_free(u, who, p, v)
    <3>1. p \notin NotInBlock
      BY <2>2 DEF Free, NotInBlock
    <3>2. (p = "pause_context" \/ v # "bad") \in BOOLEAN
      OBVIOUS
    <3> QED
      BY <2>2, <3>1, <3>2
  <2>3. CASE set_mode(u, who, p, v)
    <3>1. (~inside_block[u] /\ v # "bad") \in BOOLEAN
      OBVIOUS
    <3>2. ~inside_block[u] /\ v # "bad" => ~inside_block[u]
      OBVIOUS
    <3> QED
      BY <2>3, <3>1, <3>2
  <2> QED
    BY <2>1, <2>2, <2>3
<1>2. /\ touched' = [c \in Clients |-> \/ touched[c]
                                       \/ /\ c # u /\ inside_block[c]
                                          /\ Kept(settings'[c]) # Kept(settings[c])]
      /\ UNCHANGED <<active, inside_block, block, chosen_for, configured>>
  OBVIOUS
<1> USE DEF Inv, TypeOK
<1>3. ASSUME NEW c \in Clients
      PROVE  /\ settings'[c] \in SettingsSet
             /\ settings'[c].voice_name = settings[c].voice_name
             /\ settings'[c].voice_type = settings[c].voice_type
             /\ settings'[c].output_module = settings[c].output_module
  BY <1>1, NumberSet
<1>4. settings' \in [Clients -> SettingsSet]
  BY <1>1, <1>3
<1>5. inside_block[u] => Kept(settings'[u]) = Kept(settings[u])
  BY <1>1, NumberSet
<1> QED
  BY <1>2, <1>3, <1>4, <1>5, SetsInv

\* The settings of the clients that a SET command names.
LEMMA SetPriorityInv ==
  ASSUME Inv, NEW u \in Clients, NEW who, NEW v \in Priorities \cup {"bad"},
         set_priority(u, who, v)
  PROVE  Inv'
<1> USE DEF set_priority, Sets, SameVoice
<1>1. settings' = [c \in Clients |->
         IF (~inside_block[u] /\ who[1] = "self" /\ v # "bad") /\ c \in Named(u, who)
         THEN set_priority_uid(settings[c], v) ELSE settings[c]]
  OBVIOUS
<1>2. /\ touched' = [c \in Clients |-> \/ touched[c]
                                       \/ /\ c # u /\ inside_block[c]
                                          /\ Kept(settings'[c]) # Kept(settings[c])]
      /\ UNCHANGED <<active, inside_block, block, chosen_for, configured>>
  OBVIOUS
<1> USE DEF Inv, TypeOK
<1>3. ASSUME NEW c \in Clients
      PROVE  /\ settings'[c] \in SettingsSet
             /\ settings'[c].voice_name = settings[c].voice_name
             /\ settings'[c].voice_type = settings[c].voice_type
             /\ settings'[c].output_module = settings[c].output_module
  BY <1>1, PrioritySet
<1>4. settings' \in [Clients -> SettingsSet]
  BY <1>1, <1>3
<1>5. inside_block[u] => Kept(settings'[u]) = Kept(settings[u])
  BY <1>1
<1> QED
  BY <1>2, <1>3, <1>4, <1>5, SetsInv

LEMMA SetVoiceInv ==
  ASSUME Inv, NEW u \in Clients, NEW who, NEW v \in VoiceTypes \cup {"bad"},
         set_voice(u, who, v)
  PROVE  Inv'
<1> USE DEF set_voice, Sets, SameVoice
<1>1. settings' = [c \in Clients |-> IF v # "bad" /\ c \in Named(u, who)
                                     THEN set_voice_uid(settings[c], v) ELSE settings[c]]
  OBVIOUS
<1>2. /\ touched' = [c \in Clients |-> \/ touched[c]
                                       \/ /\ c # u /\ inside_block[c]
                                          /\ Kept(settings'[c]) # Kept(settings[c])]
      /\ UNCHANGED <<active, inside_block, block, chosen_for, configured>>
  OBVIOUS
<1> USE DEF Inv, TypeOK
<1>3. ASSUME NEW c \in Clients
      PROVE  /\ settings'[c] \in SettingsSet /\ Kept(settings'[c]) = Kept(settings[c])
             /\ settings'[c] = settings[c] \/ settings'[c].voice_name = NULL
  BY <1>1, VoiceSet
<1>4. settings' \in [Clients -> SettingsSet]
  BY <1>1, <1>3
<1> QED
  BY <1>2, <1>3, <1>4, SetsInv

LEMMA SetLanguageInv ==
  ASSUME Inv, NEW u \in Clients, NEW who, NEW l \in Languages, set_language(u, who, l)
  PROVE  Inv'
<1> USE DEF set_language, Sets, SameVoice
<1>1. settings' = [c \in Clients |-> IF TRUE /\ c \in Named(u, who)
                                     THEN set_language_uid(settings[c], l) ELSE settings[c]]
  OBVIOUS
<1>2. /\ touched' = [c \in Clients |-> \/ touched[c]
                                       \/ /\ c # u /\ inside_block[c]
                                          /\ Kept(settings'[c]) # Kept(settings[c])]
      /\ UNCHANGED <<active, inside_block, block, chosen_for, configured>>
  OBVIOUS
<1> USE DEF Inv, TypeOK
<1>3. ASSUME NEW c \in Clients
      PROVE  /\ settings'[c] \in SettingsSet /\ Kept(settings'[c]) = Kept(settings[c])
             /\ settings'[c] = settings[c] \/ settings'[c].voice_name = NULL
  BY <1>1, LanguageSet
<1>4. settings' \in [Clients -> SettingsSet]
  BY <1>1, <1>3
<1> QED
  BY <1>2, <1>3, <1>4, SetsInv

LEMMA SetOutputModuleInv ==
  ASSUME Inv, NEW u \in Clients, NEW who, NEW m \in Modules, set_output_module(u, who, m)
  PROVE  Inv'
<1> USE DEF set_output_module, Sets, SameVoice
<1>1. settings' = [c \in Clients |-> IF ~inside_block[u] /\ c \in Named(u, who)
                                     THEN set_output_module_uid(settings[c], m)
                                     ELSE settings[c]]
  OBVIOUS
<1>2. /\ touched' = [c \in Clients |-> \/ touched[c]
                                       \/ /\ c # u /\ inside_block[c]
                                          /\ Kept(settings'[c]) # Kept(settings[c])]
      /\ UNCHANGED <<active, inside_block, block, chosen_for, configured>>
  OBVIOUS
<1> USE DEF Inv, TypeOK
<1>3. ASSUME NEW c \in Clients
      PROVE  /\ settings'[c] \in SettingsSet /\ Kept(settings'[c]) = Kept(settings[c])
             /\ settings'[c] = settings[c] \/ settings'[c].voice_name = NULL
  BY <1>1, OutputModuleSet
<1>4. settings' \in [Clients -> SettingsSet]
  BY <1>1, <1>3
<1> QED
  BY <1>2, <1>3, <1>4, SetsInv

\* SET SYNTHESIS_VOICE: the module it is chosen for is the one of each client.
LEMMA SetSynthesisVoiceInv ==
  ASSUME Inv, NEW u \in Clients, NEW who, NEW v \in Voices, set_synthesis_voice(u, who, v)
  PROVE  Inv'
<1> USE DEF set_synthesis_voice, Sets
<1>1. settings' = [c \in Clients |-> IF TRUE /\ c \in Named(u, who)
                                     THEN set_synthesis_voice_uid(settings[c], v)
                                     ELSE settings[c]]
  OBVIOUS
<1>2. /\ touched' = [c \in Clients |-> \/ touched[c]
                                       \/ /\ c # u /\ inside_block[c]
                                          /\ Kept(settings'[c]) # Kept(settings[c])]
      /\ UNCHANGED <<active, inside_block, block>>
      /\ chosen_for' = [c \in Clients |-> IF c \in Named(u, who)
                                          THEN settings[c].output_module ELSE chosen_for[c]]
      /\ configured' = [c \in Clients |-> configured[c] /\ c \notin Named(u, who)]
  OBVIOUS
<1>3. ASSUME NEW c \in Clients
      PROVE  /\ settings[c] \in SettingsSet /\ settings'[c] \in SettingsSet
             /\ Kept(settings'[c]) = Kept(settings[c])
             /\ c \in Named(u, who) => /\ settings'[c].voice_type = "NO_VOICE"
                                       /\ settings'[c].output_module = settings[c].output_module
             /\ c \notin Named(u, who) => settings'[c] = settings[c]
  BY <1>1, SynthesisVoiceSet DEF Inv, TypeOK
<1>4. settings' \in [Clients -> SettingsSet]
  BY <1>1, <1>3
<1>5. touched' \in [Clients -> BOOLEAN] /\ \A c \in Clients : Agree(c)'
  BY <1>2, <1>3, <1>4, SetsAgree
<1>6. chosen_for' \in [Clients -> Modules \cup {NULL}] /\ configured' \in [Clients -> BOOLEAN]
  <2>1. \A c \in Clients : settings[c].output_module \in Modules
    BY <1>3 DEF SettingsSet
  <2> QED
    BY <1>2, <2>1 DEF Inv, TypeOK
<1>7. TypeOK'
  BY <1>2, <1>4, <1>5, <1>6 DEF Inv, TypeOK
<1>8. VoiceFits'
  <2> SUFFICES ASSUME NEW c \in Clients, settings'[c].voice_name # NULL, ~configured'[c]
               PROVE  /\ settings'[c].voice_type = "NO_VOICE"
                      /\ settings'[c].output_module = chosen_for'[c]
    BY DEF VoiceFits
  <2>1. CASE c \in Named(u, who)
    BY <1>2, <1>3, <2>1
  <2>2. CASE c \notin Named(u, who)
    <3>1. ~configured[c] /\ chosen_for'[c] = chosen_for[c] /\ settings'[c] = settings[c]
      BY <1>2, <1>3, <2>2
    <3> QED
      BY <3>1 DEF Inv, VoiceFits
  <2> QED
    BY <2>1, <2>2
<1> QED
  BY <1>5, <1>7, <1>8 DEF Inv

\* SET self CLIENT_NAME: what the configuration file says of the client.
LEMMA SetClientNameInv ==
  ASSUME Inv, NEW u \in Clients, NEW who, NEW name, set_client_name(u, who, name)
  PROVE  Inv'
<1> USE DEF set_client_name, Sets
<1>1. settings' = [c \in Clients |->
         IF (~inside_block[u] /\ who[1] = "self" /\ name # "invalid") /\ c \in Named(u, who)
         THEN update_cl_settings(settings[c], name) ELSE settings[c]]
  OBVIOUS
<1>2. /\ touched' = [c \in Clients |-> \/ touched[c]
                                       \/ /\ c # u /\ inside_block[c]
                                          /\ Kept(settings'[c]) # Kept(settings[c])]
      /\ UNCHANGED <<active, inside_block, block, chosen_for>>
      /\ configured' = [c \in Clients |-> configured[c] \/ settings'[c] # settings[c]]
  OBVIOUS
<1>3. settings' \in [Clients -> SettingsSet]
  BY <1>1, ClientSettingsUpdated DEF Inv, TypeOK
<1>4. inside_block[u] => Kept(settings'[u]) = Kept(settings[u])
  BY <1>1
<1>5. touched' \in [Clients -> BOOLEAN] /\ \A c \in Clients : Agree(c)'
  BY <1>2, <1>3, <1>4, SetsAgree
<1>6. TypeOK'
  BY <1>2, <1>3, <1>5 DEF Inv, TypeOK
<1>7. VoiceFits'
  <2>1. \A c \in Clients : ~configured'[c] => ~configured[c] /\ settings'[c] = settings[c]
    BY <1>2
  <2> QED
    BY <1>2, <2>1 DEF Inv, VoiceFits
<1> QED
  BY <1>5, <1>6, <1>7 DEF Inv

LEMMA SetDebugInv ==
  ASSUME Inv, NEW u \in Clients, NEW who, NEW on, set_debug(u, who, on)
  PROVE  Inv'
<1> USE DEF set_debug, SameVoice
<1>1. TypeOK' /\ VoiceFits'
  BY DEF Inv, TypeOK, VoiceFits
<1>2. \A c \in Clients : Agree(c)'
  BY DEF Inv, Agree
<1> QED
  BY <1>1, <1>2 DEF Inv

LEMMA ParseSetInv ==
  ASSUME Inv, NEW u \in Clients, NEW who, parse_set(u, who)
  PROVE  Inv'
<1>1. ASSUME NEW v \in Values,
             \/ \E p \in Ranged \cap Params : set_ranged(u, who, p, v)
             \/ \E p \in Free \cap Params : set_free(u, who, p, v)
             \/ \E p \in NotInBlock \cap Params : set_mode(u, who, p, v)
      PROVE  Inv'
  BY <1>1, SetNumberInv
<1> QED
  BY <1>1, SetPriorityInv, SetVoiceInv, SetSynthesisVoiceInv, SetLanguageInv,
     SetOutputModuleInv, SetClientNameInv, SetDebugInv DEF parse_set

\* BLOCK BEGIN and BLOCK END: a new block has no message.
LEMMA ParseBlockInv ==
  ASSUME Inv, NEW u \in Clients, NEW begin \in BOOLEAN, parse_block(u, begin)
  PROVE  Inv'
<1> USE DEF parse_block, Others, SameVoice
<1>1. TypeOK' /\ VoiceFits'
  BY DEF Inv, TypeOK, VoiceFits
<1>2. ASSUME NEW c \in Clients PROVE Agree(c)'
  <2>1. Agree(c) /\ settings'[c] = settings[c]
    BY DEF Inv
  <2>2. CASE c = u
    <3>1. /\ inside_block'[c] = begin
          /\ block'[c] = IF begin /\ ~inside_block[u] THEN {} ELSE block[c]
          /\ ~touched[c] \/ touched'[c] \/ (begin /\ ~inside_block[u])
      BY <2>2 DEF Inv, TypeOK
    <3> QED
      BY <2>1, <2>2, <3>1 DEF Agree
  <2>3. CASE c # u
    <3>1. inside_block'[c] = inside_block[c] /\ block'[c] = block[c] /\ touched'[c] = touched[c]
      BY <2>3 DEF Inv, TypeOK
    <3> QED
      BY <2>1, <3>1 DEF Agree
  <2> QED
    BY <2>2, <2>3
<1> QED
  BY <1>1, <1>2 DEF Inv

LEMMA QueueMessageInv ==
  ASSUME Inv, NEW u \in Clients, queue_message(u)
  PROVE  Inv'
<1> USE DEF queue_message, Others, SameVoice
<1>1. TypeOK' /\ VoiceFits'
  BY DEF Inv, TypeOK, VoiceFits
<1>2. ASSUME NEW c \in Clients PROVE Agree(c)'
  <2>1. /\ Agree(c) /\ settings'[c] = settings[c]
        /\ inside_block'[c] = inside_block[c] /\ touched'[c] = touched[c]
    BY DEF Inv
  <2>2. \/ block'[c] = block[c]
        \/ inside_block[c] /\ block'[c] = block[c] \cup {Kept(settings[c])}
    BY DEF Inv, TypeOK
  <2> QED
    BY <2>1, <2>2 DEF Agree
<1> QED
  BY <1>1, <1>2 DEF Inv

\* The commands that change neither the settings nor a block, and the end of
\* the connection, which ends the block.
LEMMA OtherInv ==
  ASSUME Inv, Others, UNCHANGED <<block, touched>>, active' \in [Clients -> BOOLEAN],
         inside_block' \in [Clients -> BOOLEAN],
         \A c \in Clients : inside_block'[c] => inside_block[c]
  PROVE  Inv'
<1> USE DEF Others, SameVoice
<1>1. TypeOK' /\ VoiceFits'
  BY DEF Inv, TypeOK, VoiceFits
<1>2. ASSUME NEW c \in Clients PROVE Agree(c)'
  <2>1. /\ Agree(c) /\ settings'[c] = settings[c] /\ block'[c] = block[c]
        /\ touched'[c] = touched[c]
    BY DEF Inv
  <2> QED
    BY <2>1 DEF Agree
<1> QED
  BY <1>1, <1>2 DEF Inv

LEMMA AnswerInv ==
  ASSUME Inv, NEW u \in Clients,
         \/ parse_query(u) \/ cursor_commands(u)
         \/ \E what, uid : parse_history(u, what, uid)
  PROVE  Inv'
<1>1. Others /\ UNCHANGED <<active, inside_block, block, touched>>
  <2>1. ASSUME NEW accepted, Query(u, accepted)
        PROVE  Others /\ UNCHANGED <<active, inside_block, block, touched>>
    BY <2>1 DEF Query
  <2>2. ASSUME NEW accepted, NEW uid, NEW pos, Cursor(u, accepted, uid, pos)
        PROVE  Others /\ UNCHANGED <<active, inside_block, block, touched>>
    BY <2>2 DEF Cursor
  <2>3. CASE parse_query(u)
    BY <2>1, <2>3 DEF parse_query, parse_list, parse_get, parse_help
  <2>4. CASE cursor_commands(u)
    BY <2>2, <2>4
    DEF cursor_commands, history_cursor_set_last, history_cursor_set_first,
        history_cursor_set_pos, history_cursor_forward, history_cursor_backward
  <2>5. CASE \E what, uid : parse_history(u, what, uid)
    BY <2>5 DEF parse_history
  <2> QED
    BY <2>3, <2>4, <2>5
<1> QED
  BY <1>1, OtherInv DEF Inv, TypeOK

LEMMA ConnectionDestroyInv ==
  ASSUME Inv, NEW u \in Clients, connection_destroy(u)
  PROVE  Inv'
<1>1. Others /\ UNCHANGED <<block, touched>>
  BY DEF connection_destroy
<1>2. /\ active' \in [Clients -> BOOLEAN] /\ inside_block' \in [Clients -> BOOLEAN]
      /\ \A c \in Clients : inside_block'[c] => inside_block[c]
  BY DEF connection_destroy, Inv, TypeOK
<1> QED
  BY <1>1, <1>2, OtherInv

LEMMA StepInv == Inv /\ [Next]_vars => Inv'
<1> SUFFICES ASSUME Inv, [Next]_vars PROVE Inv'
  OBVIOUS
<1>1. ASSUME NEW u \in Clients,
             \/ \E who \in Who : parse_set(u, who)
             \/ \E begin \in BOOLEAN : parse_block(u, begin)
             \/ queue_message(u) \/ parse_query(u) \/ cursor_commands(u)
             \/ \E what \in HistoryAnswers \cup HistoryLists \cup HistoryFinds,
                   uid \in Clients \cup {0} : parse_history(u, what, uid)
             \/ connection_destroy(u)
      PROVE  Inv'
  BY <1>1, ParseSetInv, ParseBlockInv, QueueMessageInv, AnswerInv, ConnectionDestroyInv
<1>2. CASE UNCHANGED vars
  <2>1. Others /\ UNCHANGED <<block, touched, active, inside_block>>
    BY <1>2 DEF vars, Others, SameVoice
  <2> QED
    BY <2>1, OtherInv DEF Inv, TypeOK
<1> QED
  BY <1>1, <1>2 DEF Next

-----------------------------------------------------------------------------
(***************************************************************************)
(* The theorems.                                                           *)
(***************************************************************************)

\* The inductive invariant holds in every reachable state.
THEOREM SettingsInvariant == Spec => []Inv
<1> QED
  BY InitInv, StepInv, PTL DEF Spec

\* SET VOICE, SYNTHESIS_VOICE, OUTPUT_MODULE and LANGUAGE, of the client or of
\* others, in any order and for any configuration: a synthesis voice is one of
\* the module it was chosen for, and no type of voice is set beside it.
THEOREM SynthesisVoiceFits == Spec => []VoiceFits
<1>1. Inv => VoiceFits
  BY DEF Inv
<1> QED
  BY <1>1, SettingsInvariant, PTL

\* What the server lets a client change inside a block does not change what
\* the messages of the block are queued with.
THEOREM BlocksAreUniform == Spec => []BlockIsUniform
<1>1. Inv => BlockIsUniform
  <2> SUFFICES ASSUME Inv, NEW u \in Clients, ~touched[u]
               PROVE  Cardinality(block[u]) <= 1
    BY DEF BlockIsUniform
  <2>1. \A j, k \in block[u] : j = k
    BY DEF Inv, Agree
  <2>2. CASE block[u] = {}
    BY <2>2, FS_EmptySet
  <2>3. ASSUME NEW k \in block[u] PROVE Cardinality(block[u]) <= 1
    <3>1. block[u] = {k}
      BY <2>1
    <3>2. Cardinality({k}) = 1
      BY FS_Singleton
    <3> QED
      BY <3>1, <3>2
  <2> QED
    BY <2>2, <2>3
<1> QED
  BY <1>1, SettingsInvariant, PTL

-----------------------------------------------------------------------------
(***************************************************************************)
(* Sequences put together from pieces.                                     *)
(***************************************************************************)

LEMMA LeastNumber ==
  ASSUME NEW I, I \subseteq Nat, I # {}
  PROVE  \E n \in I : \A m \in I : n <= m
<1> DEFINE R == {ss \in Nat \X Nat : ss[1] < ss[2]}
<1>1. IsWellFoundedOn(R, Nat)
  BY NatLessThanWellFounded, Zenon DEF OpToRel
<1> HIDE DEF R
<1>2. PICK n \in I : \A m \in I : ~(<<m, n>> \in R)
  BY <1>1, WFMin
<1>3. \A m \in I : ~(m < n)
  BY <1>2 DEF R
<1> QED
  BY <1>3

\* Sequences of one, two and three elements, whatever these are.
LEMMA SeqFacts ==
  ASSUME NEW A, NEW t \in Seq(A)
  PROVE  Len(t) \in Nat /\ DOMAIN t = 1..Len(t) /\ \A i \in 1..Len(t) : t[i] \in A
OBVIOUS

LEMMA OneElement ==
  ASSUME NEW A, NEW c \in A
  PROVE  <<c>> \in Seq(A) /\ Len(<<c>>) = 1 /\ <<c>>[1] = c /\ \A i \in DOMAIN <<c>> : i = 1
OBVIOUS

LEMMA TwoElements ==
  ASSUME NEW A, NEW c \in A, NEW d \in A
  PROVE  /\ <<c, d>> \in Seq(A) /\ Len(<<c, d>>) = 2
         /\ \A i \in DOMAIN <<c, d>> : <<c, d>>[i] \in {c, d}
OBVIOUS

LEMMA ThreeElements ==
  ASSUME NEW A, NEW c \in A, NEW d \in A, NEW e \in A
  PROVE  /\ <<c, d, e>> \in Seq(A) /\ Len(<<c, d, e>>) = 3
         /\ \A i \in DOMAIN <<c, d, e>> : <<c, d, e>>[i] \in {c, d, e}
OBVIOUS

LEMMA AppendPair ==
  ASSUME NEW A, NEW c \in A, NEW d \in A
  PROVE  Append(<<c>>, d) = <<c, d>>
<1> DEFINE x == Append(<<c>>, d)
           y == <<c, d>>
<1>1. x \in Seq(A) /\ Len(x) = 2 /\ x[1] = c /\ x[2] = d
  OBVIOUS
<1>2. y \in Seq(A) /\ Len(y) = 2 /\ y[1] = c /\ y[2] = d
  OBVIOUS
<1> HIDE DEF x, y
<1>3. \A i \in 1..Len(x) : x[i] = y[i]
  BY <1>1, <1>2
<1>4. x = y
  BY <1>1, <1>2, <1>3, SeqEqual
<1> QED
  BY <1>4 DEF x, y

LEMMA AppendFacts ==
  ASSUME NEW A, NEW t \in Seq(A), NEW c \in A
  PROVE  /\ Append(t, c) = t \o <<c>> /\ Append(t, c) \in Seq(A)
         /\ Len(Append(t, c)) = Len(t) + 1 /\ Append(t, c)[Len(t) + 1] = c
         /\ \A i \in 1..Len(t) : Append(t, c)[i] = t[i]
OBVIOUS

LEMMA PrefixFacts ==
  ASSUME NEW A, NEW t, NEW k \in Nat, \A i \in 1..k : t[i] \in A
  PROVE  /\ SubSeq(t, 1, k) \in Seq(A) /\ Len(SubSeq(t, 1, k)) = k
         /\ \A i \in 1..k : SubSeq(t, 1, k)[i] = t[i]
OBVIOUS

LEMMA SamePrefix ==
  ASSUME NEW A, NEW t, NEW x, NEW k \in Nat, \A i \in 1..k : t[i] = x[i] /\ x[i] \in A
  PROVE  SubSeq(t, 1, k) = SubSeq(x, 1, k)
<1> DEFINE u == SubSeq(t, 1, k)
           v == SubSeq(x, 1, k)
<1>1. u \in Seq(A) /\ Len(u) = k /\ \A i \in 1..k : u[i] = t[i]
  BY PrefixFacts
<1>2. v \in Seq(A) /\ Len(v) = k /\ \A i \in 1..k : v[i] = x[i]
  BY PrefixFacts
<1> HIDE DEF u, v
<1>3. u = v
  BY <1>1, <1>2, SeqEqual
<1> QED
  BY <1>3 DEF u, v

\* A set of numbers that has 0 and, with a number, the next one, up to n.
LEMMA UpTo ==
  ASSUME NEW n \in Nat, NEW I, 0 \in I,
         \A i \in 1..n : i - 1 \in I => i \in I
  PROVE  \A i \in 0..n : i \in I
<1> DEFINE Bad == {i \in 0..n : i \notin I}
<1>1. SUFFICES ASSUME Bad # {} PROVE FALSE
  OBVIOUS
<1>2. Bad \subseteq Nat
  OBVIOUS
<1> HIDE DEF Bad
<1>3. PICK i \in Bad : \A j \in Bad : i <= j
  BY <1>1, <1>2, LeastNumber
<1> USE DEF Bad
<1>4. i \in 1..n /\ i - 1 \in 0..n
  BY <1>3
<1>5. i - 1 \notin Bad
  BY <1>2, <1>3, <1>4
<1> QED
  BY <1>3, <1>4, <1>5

\* f[i] is what the first i pieces come to.
Joins(f, ss, n) == \A i \in 1..n : f[i] = IF i = 1 THEN ss[i] ELSE f[i - 1] \o ss[i]
Joined(f, ss) == f = [i \in 1..Len(ss) |-> IF i = 1 THEN ss[i] ELSE f[i - 1] \o ss[i]]

LEMMA FlattenIsJoined ==
  ASSUME NEW ss
  PROVE  FlattenSeq(ss) = IF Len(ss) = 0 THEN ss ELSE (CHOOSE f : Joined(f, ss))[Len(ss)]
BY DEF FlattenSeq, Joined

LEMMA JoinsExist ==
  ASSUME NEW A, NEW ss \in Seq(Seq(A))
  PROVE  \E f \in [1..Len(ss) -> Seq(A)] : Joins(f, ss, Len(ss))
<1> DEFINE Exists(n) == \E f \in [1..Len(ss) -> Seq(A)] : Joins(f, ss, n)
           I == {n \in Nat : Exists(n)}
<1>0. Len(ss) \in Nat /\ DOMAIN ss = 1..Len(ss) /\ \A i \in 1..Len(ss) : ss[i] \in Seq(A)
  OBVIOUS
<1>1. 0 \in I
  <2>1. [i \in 1..Len(ss) |-> <<>>] \in [1..Len(ss) -> Seq(A)]
    OBVIOUS
  <2> QED
    BY <2>1 DEF Joins
<1>2. ASSUME NEW n \in 1..Len(ss), n - 1 \in I PROVE n \in I
  <2>1. PICK f \in [1..Len(ss) -> Seq(A)] : Joins(f, ss, n - 1)
    BY <1>2
  <2> DEFINE w == IF n = 1 THEN ss[n] ELSE f[n - 1] \o ss[n]
             g == [f EXCEPT ![n] = w]
  <2>2. w \in Seq(A)
    <3>1. ss[n] \in Seq(A)
      OBVIOUS
    <3>2. CASE n = 1
      BY <3>1, <3>2
    <3>3. CASE n # 1
      <4>1. n - 1 \in 1..Len(ss)
        BY <1>0, <3>3
      <4>2. f[n - 1] \in Seq(A)
        BY <4>1
      <4> QED
        BY <3>1, <3>3, <4>2
    <3> QED
      BY <3>2, <3>3
  <2> HIDE DEF w
  <2>3. g \in [1..Len(ss) -> Seq(A)] /\ g[n] = w /\ \A i \in 1..(n - 1) : g[i] = f[i]
    BY <2>2
  <2> HIDE DEF g
  <2>4. ASSUME NEW i \in 1..n PROVE g[i] = IF i = 1 THEN ss[i] ELSE g[i - 1] \o ss[i]
    <3>1. CASE i = n
      <4>1. i # 1 => i - 1 \in 1..(n - 1)
        BY <1>0, <3>1
      <4> QED
        BY <2>3, <3>1, <4>1 DEF w
    <3>2. CASE i # n
      <4>1. i \in 1..(n - 1) /\ (i # 1 => i - 1 \in 1..(n - 1))
        BY <1>0, <3>2
      <4> QED
        BY <2>1, <2>3, <4>1 DEF Joins
    <3> QED
      BY <3>1, <3>2
  <2>5. Joins(g, ss, n)
    BY <2>4 DEF Joins
  <2>6. n \in Nat
    BY <1>0
  <2> QED
    BY <2>3, <2>5, <2>6
<1> HIDE DEF I
<1>3. Len(ss) \in I
  <2>1. \A i \in 0..Len(ss) : i \in I
    BY <1>0, <1>1, <1>2, UpTo
  <2> QED
    BY <1>0, <2>1
<1> QED
  BY <1>3 DEF I

\* The prefixes of what the pieces come to.
IsJoin(P, A, ss) ==
  /\ P \in [0..Len(ss) -> Seq(A)] /\ P[0] = <<>>
  /\ \A i \in 1..Len(ss) : P[i] = P[i - 1] \o ss[i]
  /\ FlattenSeq(ss) = P[Len(ss)]

LEMMA JoinExists ==
  ASSUME NEW A, NEW ss \in Seq(Seq(A))
  PROVE  \E P : IsJoin(P, A, ss)
<1>0. Len(ss) \in Nat /\ DOMAIN ss = 1..Len(ss) /\ \A i \in 1..Len(ss) : ss[i] \in Seq(A)
  OBVIOUS
<1>1. CASE Len(ss) = 0
  <2> DEFINE P == [i \in 0..0 |-> <<>>]
  <2>1. FlattenSeq(ss) = <<>>
    BY <1>1, FlattenIsJoined
  <2>2. IsJoin(P, A, ss)
    BY <1>1, <2>1 DEF IsJoin
  <2> QED
    BY <2>2
<1>2. CASE Len(ss) # 0
  <2>1. PICK f \in [1..Len(ss) -> Seq(A)] : Joins(f, ss, Len(ss))
    BY JoinsExist
  <2>2. Joined(f, ss)
    <3> DEFINE h == [i \in 1..Len(ss) |-> IF i = 1 THEN ss[i] ELSE f[i - 1] \o ss[i]]
    <3>1. \A i \in 1..Len(ss) : f[i] = h[i]
      BY <2>1 DEF Joins
    <3>2. f = h
      BY <3>1
    <3> QED
      BY <3>2 DEF Joined
  <2> DEFINE g == CHOOSE f1 : Joined(f1, ss)
  <2>3. Joined(g, ss)
    BY <2>2
  <2>4. FlattenSeq(ss) = g[Len(ss)]
    BY <1>2, FlattenIsJoined
  <2> HIDE DEF g
  <2>5. \A i \in 1..Len(ss) : g[i] = IF i = 1 THEN ss[i] ELSE g[i - 1] \o ss[i]
    BY <2>3 DEF Joined
  <2> DEFINE I == {i \in 0..Len(ss) : i = 0 \/ g[i] = f[i]}
  <2>6. 0 \in I
    BY <1>0
  <2>7. ASSUME NEW i \in 1..Len(ss), i - 1 \in I PROVE i \in I
    <3>1. i \in 0..Len(ss) /\ i # 0
      BY <1>0
    <3>2. i # 1 => g[i - 1] = f[i - 1]
      BY <2>7, <3>1
    <3>3. g[i] = f[i]
      BY <2>1, <2>5, <3>2 DEF Joins
    <3> QED
      BY <3>1, <3>3
  <2> HIDE DEF I
  <2>8. \A i \in 0..Len(ss) : i \in I
    BY <1>0, <2>6, <2>7, UpTo
  <2>9. \A i \in 1..Len(ss) : g[i] = f[i]
    BY <2>8 DEF I
  <2> DEFINE P == [i \in 0..Len(ss) |-> IF i = 0 THEN <<>> ELSE f[i]]
  <2>10. P \in [0..Len(ss) -> Seq(A)] /\ P[0] = <<>> /\ P[Len(ss)] = f[Len(ss)]
    BY <1>2
  <2>11. ASSUME NEW i \in 1..Len(ss) PROVE P[i] = P[i - 1] \o ss[i]
    <3>0. ss[i] \in Seq(A)
      OBVIOUS
    <3>1. CASE i = 1
      <4>0. i \in 0..Len(ss) /\ i - 1 \in 0..Len(ss) /\ i - 1 = 0 /\ i # 0
        BY <1>0, <3>1
      <4>1. P[i] = ss[i] /\ P[i - 1] = <<>>
        BY <2>1, <3>1, <4>0 DEF Joins
      <4> HIDE DEF P
      <4> QED
        BY <3>0, <4>1
    <3>2. CASE i # 1
      <4>0. i \in 0..Len(ss) /\ i - 1 \in 0..Len(ss) /\ i - 1 # 0 /\ i # 0
        BY <1>0, <3>2
      <4>1. P[i] = f[i] /\ P[i - 1] = f[i - 1]
        BY <4>0
      <4> QED
        BY <2>1, <3>2, <4>1 DEF Joins
    <3> QED
      BY <3>1, <3>2
  <2>12. FlattenSeq(ss) = P[Len(ss)]
    BY <2>4, <2>9, <2>10, <1>2
  <2> HIDE DEF P
  <2>13. IsJoin(P, A, ss)
    BY <2>10, <2>11, <2>12 DEF IsJoin
  <2> QED
    BY <2>13
<1> QED
  BY <1>1, <1>2

-----------------------------------------------------------------------------
(***************************************************************************)
(* Tags that are open at a place in the text.                              *)
(***************************************************************************)

Alphabet == Characters \cup Entities \cup Tags
Closers  == {">", "<speak>", "</speak>"}

\* Marks do not close a tag here: they come and go.
Open(t, n)  == \E j \in 1..n : t[j] = "<" /\ \A k \in (j + 1)..n : t[k] \notin Closers
Clean(t, S) == \A i \in DOMAIN t : t[i] \in S => ~Open(t, i - 1)

LEMMA OpenAgree ==
  ASSUME NEW x, NEW y, NEW n \in Nat, \A i \in 1..n : x[i] = y[i]
  PROVE  Open(x, n) <=> Open(y, n)
BY DEF Open

LEMMA OpenStep ==
  ASSUME NEW t, NEW i \in Nat \ {0}
  PROVE  Open(t, i) <=> t[i] = "<" \/ (Open(t, i - 1) /\ t[i] \notin Closers)
<1>1. ASSUME Open(t, i), t[i] # "<" PROVE Open(t, i - 1) /\ t[i] \notin Closers
  <2>1. PICK j \in 1..i : t[j] = "<" /\ \A k \in (j + 1)..i : t[k] \notin Closers
    BY <1>1 DEF Open
  <2>2. j \in 1..(i - 1) /\ i \in (j + 1)..i
    BY <1>1, <2>1
  <2>3. \A k \in (j + 1)..(i - 1) : k \in (j + 1)..i
    BY <2>2
  <2> QED
    BY <2>1, <2>2, <2>3 DEF Open
<1>2. ASSUME t[i] = "<" PROVE Open(t, i)
  <2>1. i \in 1..i /\ \A k \in (i + 1)..i : FALSE
    OBVIOUS
  <2> QED
    BY <1>2, <2>1 DEF Open
<1>3. ASSUME Open(t, i - 1), t[i] \notin Closers PROVE Open(t, i)
  <2>1. PICK j \in 1..(i - 1) : t[j] = "<" /\ \A k \in (j + 1)..(i - 1) : t[k] \notin Closers
    BY <1>3 DEF Open
  <2>2. j \in 1..i /\ \A k \in (j + 1)..i : k = i \/ k \in (j + 1)..(i - 1)
    BY <2>1
  <2> QED
    BY <1>3, <2>1, <2>2 DEF Open
<1> QED
  BY <1>1, <1>2, <1>3

\* One more character.
LEMMA CleanAppend ==
  ASSUME NEW A, NEW x \in Seq(A), NEW c \in A, NEW S
  PROVE  /\ Open(Append(x, c), Len(x) + 1)
              <=> c = "<" \/ (Open(x, Len(x)) /\ c \notin Closers)
         /\ Clean(x, S) /\ (c \in S => ~Open(x, Len(x))) => Clean(Append(x, c), S)
<1> DEFINE y == Append(x, c)
           n == Len(x)
<1>1. /\ y \in Seq(A) /\ Len(y) = n + 1 /\ y[n + 1] = c /\ n \in Nat
      /\ \A i \in 1..n : y[i] = x[i]
      /\ DOMAIN y = 1..(n + 1) /\ DOMAIN x = 1..n
  OBVIOUS
<1> HIDE DEF y, n
<1>2. Open(y, n) <=> Open(x, n)
  BY <1>1, OpenAgree
<1>3. Open(y, n + 1) <=> c = "<" \/ (Open(x, n) /\ c \notin Closers)
  <2>1. n + 1 \in Nat \ {0} /\ (n + 1) - 1 = n
    BY <1>1
  <2>2. Open(y, n + 1) <=> y[n + 1] = "<" \/ (Open(y, (n + 1) - 1) /\ y[n + 1] \notin Closers)
    BY <2>1, OpenStep
  <2> QED
    BY <1>1, <1>2, <2>1, <2>2
<1>4. ASSUME Clean(x, S), c \in S => ~Open(x, n), NEW i \in 1..(n + 1), y[i] \in S
      PROVE  ~Open(y, i - 1)
  <2>1. CASE i = n + 1
    <3>1. i - 1 = n /\ c \in S
      BY <1>1, <1>4, <2>1
    <3> QED
      BY <1>2, <1>4, <3>1
  <2>2. CASE i # n + 1
    <3>1. i \in 1..n /\ i - 1 \in Nat /\ \A k \in 1..(i - 1) : k \in 1..n
      BY <1>1, <2>2
    <3>2. Open(y, i - 1) <=> Open(x, i - 1)
      BY <1>1, <3>1, OpenAgree
    <3>3. x[i] \in S
      BY <1>1, <1>4, <3>1
    <3> QED
      BY <1>1, <1>4, <3>1, <3>2, <3>3 DEF Clean
  <2> QED
    BY <2>1, <2>2
<1>5. Clean(x, S) /\ (c \in S => ~Open(x, n)) => Clean(y, S)
  BY <1>1, <1>4 DEF Clean
<1> QED
  BY <1>3, <1>5 DEF y, n

\* Part of a text.
LEMMA CleanPart ==
  ASSUME NEW A, NEW t \in Seq(A), NEW S, Clean(t, S),
         NEW a \in Nat \ {0}, NEW b \in Nat, b <= Len(t)
  PROVE  SubSeq(t, a, b) \in Seq(A) /\ Clean(SubSeq(t, a, b), S)
<1> DEFINE x == SubSeq(t, a, b)
<1>1. CASE a <= b
  <2>1. /\ x \in Seq(A) /\ DOMAIN x = 1..(b - a + 1)
        /\ \A i \in 1..(b - a + 1) : x[i] = t[a + i - 1]
        /\ DOMAIN t = 1..Len(t)
    BY <1>1
  <2> HIDE DEF x
  <2>2. ASSUME NEW i \in DOMAIN x, x[i] \in S PROVE ~Open(x, i - 1)
    <3>1. SUFFICES ASSUME Open(x, i - 1) PROVE FALSE
      OBVIOUS
    <3>2. PICK j \in 1..(i - 1) : x[j] = "<" /\ \A k \in (j + 1)..(i - 1) : x[k] \notin Closers
      BY <3>1 DEF Open
    <3>3. /\ i \in 1..(b - a + 1) /\ a + i - 1 \in 1..Len(t) /\ t[a + i - 1] \in S
          /\ j \in 1..(b - a + 1) /\ t[a + j - 1] = "<"
          /\ a + j - 1 \in 1..((a + i - 1) - 1)
      <4>1. i \in 1..(b - a + 1) /\ j \in 1..(i - 1)
        BY <2>1, <2>2, <3>2
      <4>2. /\ a + i - 1 \in 1..Len(t) /\ j \in 1..(b - a + 1)
            /\ a + j - 1 \in 1..((a + i - 1) - 1)
        BY <4>1
      <4>3. x[i] = t[a + i - 1] /\ x[j] = t[a + j - 1]
        BY <2>1, <4>1, <4>2
      <4> QED
        BY <2>2, <3>2, <4>1, <4>2, <4>3
    <3>4. ASSUME NEW k \in ((a + j - 1) + 1)..((a + i - 1) - 1) PROVE t[k] \notin Closers
      <4>1. k - a + 1 \in (j + 1)..(i - 1) /\ k - a + 1 \in 1..(b - a + 1)
            /\ a + (k - a + 1) - 1 = k
        BY <3>3
      <4> QED
        BY <2>1, <3>2, <4>1
    <3>5. Open(t, (a + i - 1) - 1)
      BY <3>3, <3>4 DEF Open
    <3> QED
      BY <2>1, <3>3, <3>5 DEF Clean
  <2> QED
    BY <2>1, <2>2 DEF Clean, x
<1>2. CASE ~(a <= b)
  <2>1. x = <<>>
    BY <1>2
  <2> HIDE DEF x
  <2>2. x \in Seq(A) /\ DOMAIN x = {}
    BY <2>1
  <2> QED
    BY <2>2 DEF Clean, x
<1> QED
  BY <1>1, <1>2

\* What is written for each character leaves the tags as they are, and adds
\* nothing of S inside one.
Tame(t, ss, S) ==
  /\ Len(ss) = Len(t)
  /\ \A i \in DOMAIN t :
       \/ ss[i] = <<>> /\ t[i] \notin Closers
       \/ ss[i] = <<t[i]>>
       \/ \E c : ss[i] = <<t[i], c>> /\ c # "<" /\ (c \in S => ~Open(t, i))

LEMMA CleanFlatten ==
  ASSUME NEW A, NEW t \in Seq(A), NEW S, NEW ss \in Seq(Seq(A)), Tame(t, ss, S),
         Clean(t, S)
  PROVE  FlattenSeq(ss) \in Seq(A) /\ Clean(FlattenSeq(ss), S)
<1>1. PICK P : IsJoin(P, A, ss)
  BY JoinExists
<1>2. /\ Len(t) \in Nat /\ DOMAIN t = 1..Len(t) /\ Len(ss) = Len(t)
      /\ \A i \in 0..Len(t) : P[i] \in Seq(A)
      /\ P[0] = <<>> /\ \A i \in 1..Len(t) : P[i] = P[i - 1] \o ss[i]
      /\ FlattenSeq(ss) = P[Len(t)]
  <2>1. Len(t) \in Nat /\ DOMAIN t = 1..Len(t)
    OBVIOUS
  <2>2. Len(ss) = Len(t)
    BY DEF Tame
  <2>3. /\ P \in [0..Len(ss) -> Seq(A)] /\ P[0] = <<>>
        /\ \A i \in 1..Len(ss) : P[i] = P[i - 1] \o ss[i]
        /\ FlattenSeq(ss) = P[Len(ss)]
    BY <1>1 DEF IsJoin
  <2> QED
    BY <2>1, <2>2, <2>3
<1> DEFINE I == {i \in 0..Len(t) : Clean(P[i], S) /\ (Open(P[i], Len(P[i])) => Open(t, i))}
<1>3. 0 \in I
  <2>1. DOMAIN P[0] = {} /\ Len(P[0]) = 0 /\ 0 \in 0..Len(t)
    BY <1>2
  <2>2. ~Open(P[0], 0)
    BY DEF Open
  <2> QED
    BY <2>1, <2>2 DEF Clean
<1>4. ASSUME NEW i \in 1..Len(t), i - 1 \in I PROVE i \in I
  <2> DEFINE x == P[i - 1]
             y == P[i]
  <2>1. /\ i \in 0..Len(t) /\ i - 1 \in 0..Len(t) /\ i \in Nat \ {0} /\ i \in DOMAIN t
        /\ t[i] \in A /\ ss[i] \in Seq(A) /\ x \in Seq(A) /\ y \in Seq(A)
        /\ y = x \o ss[i] /\ Clean(x, S) /\ (Open(x, Len(x)) => Open(t, i - 1))
    <3>1. i \in 0..Len(t) /\ i - 1 \in 0..Len(t) /\ i \in Nat \ {0} /\ i \in DOMAIN t
      BY <1>2
    <3>2. t[i] \in A /\ ss[i] \in Seq(A)
      BY <1>2, <3>1
    <3> QED
      BY <1>2, <1>4, <3>1, <3>2
  <2> HIDE DEF x, y
  <2>2. Open(t, i) <=> t[i] = "<" \/ (Open(t, i - 1) /\ t[i] \notin Closers)
    BY <2>1, OpenStep
  <2>3. t[i] \in S => ~Open(t, i - 1)
    BY <2>1 DEF Clean
  <2>4. Clean(y, S) /\ (Open(y, Len(y)) => Open(t, i))
    <3>1. CASE ss[i] = <<>> /\ t[i] \notin Closers
      <4>1. y = x
        BY <2>1, <3>1
      <4> QED
        BY <2>1, <2>2, <3>1, <4>1
    <3> DEFINE z == Append(x, t[i])
    <3>2. /\ z \in Seq(A) /\ Len(z) = Len(x) + 1 /\ Clean(z, S)
          /\ Open(z, Len(z)) => Open(t, i)
      <4>1. /\ Open(z, Len(x) + 1)
                 <=> t[i] = "<" \/ (Open(x, Len(x)) /\ t[i] \notin Closers)
            /\ Clean(x, S) /\ (t[i] \in S => ~Open(x, Len(x))) => Clean(z, S)
        BY <2>1, CleanAppend
      <4>2. z \in Seq(A) /\ Len(z) = Len(x) + 1
        BY <2>1
      <4> HIDE DEF z
      <4> QED
        BY <2>1, <2>2, <2>3, <4>1, <4>2
    <3>3. CASE ss[i] = <<t[i]>>
      <4>1. y = z
        BY <2>1, <3>3
      <4> HIDE DEF z
      <4> QED
        BY <3>2, <4>1
    <3>4. ASSUME NEW c, ss[i] = <<t[i], c>>, c # "<", c \in S => ~Open(t, i)
          PROVE  Clean(y, S) /\ (Open(y, Len(y)) => Open(t, i))
      <4>1. c \in A
        <5>1. 2 \in DOMAIN ss[i] /\ ss[i][2] = c
          BY <3>4
        <5> QED
          BY <2>1, <5>1
      <4>2. y = Append(z, c) /\ Len(y) = Len(z) + 1
        BY <2>1, <3>4, <4>1
      <4> HIDE DEF z
      <4>3. /\ Open(Append(z, c), Len(z) + 1)
                 <=> c = "<" \/ (Open(z, Len(z)) /\ c \notin Closers)
            /\ Clean(z, S) /\ (c \in S => ~Open(z, Len(z))) => Clean(Append(z, c), S)
        BY <3>2, <4>1, CleanAppend
      <4> QED
        BY <3>2, <3>4, <4>2, <4>3
    <3>5. \/ ss[i] = <<>> /\ t[i] \notin Closers
          \/ ss[i] = <<t[i]>>
          \/ \E c : ss[i] = <<t[i], c>> /\ c # "<" /\ (c \in S => ~Open(t, i))
      <4>1. i \in DOMAIN t
        BY <2>1
      <4> QED
        BY <4>1, Zenon DEF Tame
    <3> QED
      BY <3>1, <3>3, <3>4, <3>5
  <2> QED
    BY <2>1, <2>4 DEF y
<1> HIDE DEF I
<1>5. \A i \in 0..Len(t) : i \in I
  BY <1>2, <1>3, <1>4, UpTo
<1>6. Len(t) \in I /\ Len(t) \in 0..Len(t)
  BY <1>2, <1>5
<1> QED
  BY <1>2, <1>6 DEF I

-----------------------------------------------------------------------------
(***************************************************************************)
(* What the steps of a text do to the tags in it.                          *)
(***************************************************************************)

LEMMA AlphabetFacts ==
  /\ {"a", ".", "crlf", "lf", "<", ">", "&", "&lt", "&gt", "&amp", "<speak>",
       "</speak>"} \subseteq Alphabet
  /\ Chars \subseteq Alphabet /\ Marks \subseteq Alphabet
  /\ \A c \in Marks : c \notin {"a", ".", "crlf", "lf", "<", ">", "&", "&lt", "&gt",
                              "&amp", "<speak>", "</speak>", "?"}
  /\ Chars \cap Tags = {}
BY TextsAssumption DEF Alphabet, Characters, Entities, Tags, Marks

\* A sequence of pieces of a text is one of sequences.
LEMMA Pieces ==
  ASSUME NEW A, NEW t \in Seq(A), NEW ss, DOMAIN ss = DOMAIN t,
         ss = [i \in DOMAIN ss |-> ss[i]],
         \A i \in DOMAIN t : \/ ss[i] = <<>> \/ ss[i] = <<t[i]>>
                            \/ \E c \in A : ss[i] = <<t[i], c>>
  PROVE  ss \in Seq(Seq(A)) /\ Len(ss) = Len(t)
<1>1. Len(t) \in Nat /\ DOMAIN t = 1..Len(t) /\ \A i \in DOMAIN t : t[i] \in A
  OBVIOUS
<1>2. ASSUME NEW i \in DOMAIN t PROVE ss[i] \in Seq(A)
  <2>0. t[i] \in A /\ <<t[i]>> \in Seq(A) /\ <<>> \in Seq(A)
    BY <1>1
  <2>1. CASE ss[i] = <<>> \/ ss[i] = <<t[i]>>
    BY <2>0, <2>1
  <2>2. ASSUME NEW c \in A, ss[i] = <<t[i], c>> PROVE ss[i] \in Seq(A)
    <3>1. t[i] \in A
      BY <1>1
    <3>2. <<t[i], c>> \in Seq(A)
      BY <3>1
    <3> QED
      BY <2>2, <3>2
  <2> QED
    BY <2>1, <2>2
<1>3. ss \in [1..Len(t) -> Seq(A)]
  BY <1>1, <1>2
<1>4. ss \in Seq(Seq(A))
  BY <1>1, <1>3
<1>5. Len(ss) = Len(t)
  BY <1>1, <1>4
<1> QED
  BY <1>4, <1>5

\* Inserting and removing a character, or doubling a dot.
LEMMA CleanReplaced ==
  ASSUME NEW A, NEW t \in Seq(A), NEW S, NEW ss, DOMAIN ss = DOMAIN t,
         ss = [i \in DOMAIN ss |-> ss[i]],
         \A i \in DOMAIN t : \/ ss[i] = <<>> /\ t[i] \notin Closers
                            \/ ss[i] = <<t[i]>>
                            \/ \E c \in A : ss[i] = <<t[i], c>> /\ c # "<"
                                            /\ (c \in S => ~Open(t, i)),
         Clean(t, S)
  PROVE  FlattenSeq(ss) \in Seq(A) /\ Clean(FlattenSeq(ss), S)
<1>0. \A i \in DOMAIN t : \/ ss[i] = <<>> \/ ss[i] = <<t[i]>>
                            \/ \E c \in A : ss[i] = <<t[i], c>>
  OBVIOUS
<1>1. ss \in Seq(Seq(A)) /\ Len(ss) = Len(t)
  BY <1>0, Pieces
<1>2. Tame(t, ss, S)
  BY <1>1, Zenon DEF Tame
<1> QED
  BY <1>1, <1>2, CleanFlatten

LEMMA DoubledDots ==
  ASSUME NEW A, NEW t \in Seq(A), NEW S \in {{"."}, Marks}, Clean(t, S),
         NEW i \in DOMAIN t, t[i] = "."
  PROVE  "." # "<" /\ ("." \in S => ~Open(t, i))
<1>1. "." \notin Marks
  BY AlphabetFacts
<1>2. i \in Nat \ {0}
  OBVIOUS
<1>3. Open(t, i) <=> t[i] = "<" \/ (Open(t, i - 1) /\ t[i] \notin Closers)
  BY <1>2, OpenStep
<1>4. "." \in S => ~Open(t, i - 1)
  BY DEF Clean
<1> QED
  BY <1>1, <1>3, <1>4

LEMMA EscapeDotsClean ==
  ASSUME NEW A, "." \in A, NEW t \in Seq(A), NEW S \in {{"."}, Marks}, Clean(t, S)
  PROVE  EscapeDots(t) \in Seq(A) /\ Clean(EscapeDots(t), S)
<1> DEFINE ss == [i \in DOMAIN t |-> IF t[i] = "." /\ StartsLine(t, i, {"crlf"})
                                     THEN <<".", ".">> ELSE <<t[i]>>]
<1>1. EscapeDots(t) = FlattenSeq(ss)
  BY DEF EscapeDots, Replaced
<1>2. DOMAIN ss = DOMAIN t /\ ss = [i \in DOMAIN ss |-> ss[i]]
  OBVIOUS
<1>3. ASSUME NEW i \in DOMAIN t
      PROVE  \/ ss[i] = <<>> /\ t[i] \notin Closers
             \/ ss[i] = <<t[i]>>
             \/ \E c \in A : ss[i] = <<t[i], c>> /\ c # "<"
                                   /\ (c \in S => ~Open(t, i))
  <2>1. CASE t[i] = "." /\ StartsLine(t, i, {"crlf"})
    <3>1. ss[i] = <<t[i], ".">>
      BY <2>1
    <3> HIDE DEF ss
    <3> QED
      BY <2>1, <3>1, DoubledDots
  <2>2. CASE ~(t[i] = "." /\ StartsLine(t, i, {"crlf"}))
    BY <2>2
  <2> QED
    BY <2>1, <2>2
<1> HIDE DEF ss
<1>4. FlattenSeq(ss) \in Seq(A) /\ Clean(FlattenSeq(ss), S)
  BY <1>2, <1>3, CleanReplaced
<1> QED
  BY <1>1, <1>4

LEMMA deescape_dotClean ==
  ASSUME NEW A, NEW t \in Seq(A), NEW S, Clean(t, S)
  PROVE  deescape_dot(t) \in Seq(A) /\ Clean(deescape_dot(t), S)
<1> DEFINE Halved(i) == i > 1 /\ t[i] = "." /\ t[i - 1] = "." /\ StartsLine(t, i - 1, {"crlf"})
           ss == [i \in DOMAIN t |-> IF Halved(i) THEN <<>> ELSE <<t[i]>>]
<1>1. deescape_dot(t) = FlattenSeq(ss)
  BY DEF deescape_dot, Replaced
<1>2. DOMAIN ss = DOMAIN t /\ ss = [i \in DOMAIN ss |-> ss[i]]
  OBVIOUS
<1>3. ASSUME NEW i \in DOMAIN t
      PROVE  \/ ss[i] = <<>> /\ t[i] \notin Closers
             \/ ss[i] = <<t[i]>>
             \/ \E c \in A : ss[i] = <<t[i], c>> /\ c # "<"
                                   /\ (c \in S => ~Open(t, i))
  <2>1. CASE Halved(i)
    BY <2>1 DEF Closers
  <2>2. CASE ~Halved(i)
    BY <2>2
  <2> QED
    BY <2>1, <2>2
<1> HIDE DEF ss
<1>4. FlattenSeq(ss) \in Seq(A) /\ Clean(FlattenSeq(ss), S)
  BY <1>2, <1>3, CleanReplaced
<1> QED
  BY <1>1, <1>4

LEMMA WithoutClean ==
  ASSUME NEW t \in Seq(Alphabet), NEW S, Clean(t, S)
  PROVE  Without(t, Marks) \in Seq(Alphabet) /\ Clean(Without(t, Marks), S)
<1> DEFINE ss == [i \in DOMAIN t |-> IF t[i] \in Marks THEN <<>> ELSE <<t[i]>>]
<1>1. Without(t, Marks) = FlattenSeq(ss)
  BY DEF Without, Replaced
<1>2. DOMAIN ss = DOMAIN t /\ ss = [i \in DOMAIN ss |-> ss[i]]
  OBVIOUS
<1>3. ASSUME NEW i \in DOMAIN t
      PROVE  \/ ss[i] = <<>> /\ t[i] \notin Closers
             \/ ss[i] = <<t[i]>>
             \/ \E c \in Alphabet : ss[i] = <<t[i], c>> /\ c # "<"
                                   /\ (c \in S => ~Open(t, i))
  <2>1. CASE t[i] \in Marks
    BY <2>1, AlphabetFacts DEF Closers
  <2>2. CASE t[i] \notin Marks
    BY <2>2
  <2> QED
    BY <2>1, <2>2
<1> HIDE DEF ss
<1>4. FlattenSeq(ss) \in Seq(Alphabet) /\ Clean(FlattenSeq(ss), S)
  BY <1>2, <1>3, CleanReplaced
<1> QED
  BY <1>1, <1>4

-----------------------------------------------------------------------------
(***************************************************************************)
(* Index marks.                                                            *)
(***************************************************************************)

LEMMA InsideIsOpen ==
  ASSUME NEW t, NEW i \in Nat, InsideTag(t, i)
  PROVE  Open(t, i - 1)
BY DEF InsideTag, Open, Closers, Tags

\* speak() goes on: there is a mark for every sentence.
Room(t, m) == Cardinality(EndsBefore(t, Len(t), m)) <= Len(MarkNames)

LEMMA NumberFacts ==
  ASSUME NEW A, NEW t \in Seq(A), NEW m, Room(t, m), NEW i \in DOMAIN t
  PROVE  /\ Cardinality(EndsBefore(t, i, m)) \in Nat
         /\ EndsSentence(t, i, m) =>
              /\ Cardinality(EndsBefore(t, i, m)) + 1 \in DOMAIN MarkNames
              /\ Mark(Cardinality(EndsBefore(t, i, m))) \in Marks
              /\ Cardinality(EndsBefore(t, i + 1, m)) = Cardinality(EndsBefore(t, i, m)) + 1
         /\ ~EndsSentence(t, i, m) => EndsBefore(t, i + 1, m) = EndsBefore(t, i, m)
<1> DEFINE E == EndsBefore(t, i, m)
           F == EndsBefore(t, i + 1, m)
           G == EndsBefore(t, Len(t), m)
<1>1. Len(t) \in Nat /\ DOMAIN t = 1..Len(t) /\ i \in 1..Len(t)
  OBVIOUS
<1>2. IsFiniteSet(E) /\ IsFiniteSet(G)
  <2>1. E \subseteq 1..Len(t) /\ G \subseteq 1..Len(t)
    BY <1>1 DEF EndsBefore
  <2>2. IsFiniteSet(1..Len(t))
    BY <1>1, FS_Interval
  <2> HIDE DEF E, G
  <2> QED
    BY <2>1, <2>2, FS_Subset
<1>3. Cardinality(E) \in Nat /\ Cardinality(G) \in Nat
  BY <1>2, FS_CardinalityType
<1>4. F = IF EndsSentence(t, i, m) THEN E \cup {i} ELSE E
  <2>1. \A j : j \in 1..((i + 1) - 1) <=> j \in 1..(i - 1) \/ j = i
    BY <1>1
  <2> QED
    BY <2>1 DEF EndsBefore
<1>5. i \notin E
  BY <1>1 DEF EndsBefore
<1>6. ASSUME EndsSentence(t, i, m)
      PROVE  Cardinality(F) = Cardinality(E) + 1 /\ Cardinality(F) <= Cardinality(G)
  <2>1. F = E \cup {i}
    BY <1>4, <1>6
  <2>2. i < Len(t)
    BY <1>6 DEF EndsSentence
  <2>3. F \subseteq G
    BY <1>1, <2>2 DEF EndsBefore
  <2> HIDE DEF E, F, G
  <2>4. Cardinality(F) = Cardinality(E) + 1
    BY <1>2, <1>5, <2>1, FS_AddElement
  <2>5. Cardinality(F) <= Cardinality(G)
    BY <1>2, <2>3, FS_Subset
  <2> QED
    BY <2>4, <2>5
<1>7. Len(MarkNames) \in Nat /\ DOMAIN MarkNames = 1..Len(MarkNames)
  BY TextsAssumption
<1>8. Cardinality(G) <= Len(MarkNames)
  BY DEF Room
<1>9. ASSUME EndsSentence(t, i, m)
      PROVE  Cardinality(E) + 1 \in DOMAIN MarkNames /\ Mark(Cardinality(E)) \in Marks
  <2> HIDE DEF E, F, G
  <2>1. Cardinality(E) + 1 \in DOMAIN MarkNames
    BY <1>3, <1>6, <1>7, <1>8, <1>9
  <2> QED
    BY <2>1 DEF Mark, Marks, ToSet
<1> QED
  BY <1>3, <1>4, <1>6, <1>9

\* What is written for the character at i, first without the mark.
Markup(t, i, m) == IF m = "text" THEN Quoted(t[i]) ELSE <<t[i]>>
Marked(t, m) ==
  [i \in DOMAIN t |-> Markup(t, i, m) \o (IF EndsSentence(t, i, m)
                        THEN <<Mark(Cardinality(EndsBefore(t, i, m)))>> ELSE <<>>)]

LEMMA InsertIsMarked ==
  ASSUME NEW t, NEW m
  PROVE  insert_index_marks(t, m) =
           IF m = "text" THEN <<"<speak>">> \o FlattenSeq(Marked(t, m)) \o <<"</speak>">>
           ELSE FlattenSeq(Marked(t, m))
BY DEF insert_index_marks, Replaced, Marked, Markup

\* No dot at the end of its line.
NoDotLine(t) == \A i \in 1..(Len(t) - 1) : ~(t[i] = "." /\ t[i + 1] \in Newlines)

LEMMA QuotedFacts ==
  ASSUME NEW c \in Alphabet
  PROVE  \/ Quoted(c) = <<c>> /\ c \notin Marks \cup {"<"}
         \/ Quoted(c) = <<"&lt">> \/ Quoted(c) = <<"&gt">> \/ Quoted(c) = <<"&amp">>
         \/ Quoted(c) = <<"&lt", "a", "&gt">> \/ Quoted(c) = <<"&amp", "a">>
<1>1. {"<", ">", "&"} \cap Tags = {} /\ {"<", ">", "&"} \cap Entities = {} /\ Tags \cap Entities = {}
  BY AlphabetFacts DEF Tags, Entities
<1>2. CASE c = "<"
  BY <1>1, <1>2 DEF Quoted
<1>3. CASE c = ">"
  BY <1>1, <1>3 DEF Quoted
<1>4. CASE c = "&"
  BY <1>1, <1>4 DEF Quoted
<1>5. CASE c \in Tags
  BY <1>1, <1>5 DEF Quoted
<1>6. CASE c \in Entities
  BY <1>1, <1>6 DEF Quoted
<1>7. CASE c \notin {"<", ">", "&"} \cup Tags \cup Entities
  <2>1. Quoted(c) = <<c>>
    BY <1>7 DEF Quoted
  <2> QED
    BY <1>7, <2>1 DEF Tags
<1> QED
  BY <1>2, <1>3, <1>4, <1>5, <1>6, <1>7

\* A piece of a text with nothing but what is in the text, or is markup.
IsMarkup(w, t, i, m) ==
  /\ w \in Seq(Alphabet) /\ Len(w) >= 1 /\ NoDotLine(w)
  /\ w[1] \in Newlines => t[i] \in Newlines
  /\ w[Len(w)] = "." => t[i] = "."
  /\ \A j \in DOMAIN w : w[j] \in Marks \cup {"<"} => m # "text" /\ j = 1

LEMMA MarkupSingle ==
  ASSUME NEW t, NEW i, NEW m, NEW c \in Alphabet,
         c = t[i] \/ c \in {"&lt", "&gt", "&amp"},
         c \in Marks \cup {"<"} => m # "text"
  PROVE  IsMarkup(<<c>>, t, i, m)
<1> DEFINE w == <<c>>
<1>2. w \in Seq(Alphabet) /\ Len(w) = 1 /\ w[1] = c /\ \A j \in DOMAIN w : j = 1
  BY OneElement, Zenon
<1> HIDE DEF w
<1>3. 1..(Len(w) - 1) = {} /\ Len(w) >= 1
  <2>1. Len(w) = 1
    BY <1>2, Zenon
  <2> QED
    BY <2>1
<1>4. NoDotLine(w)
  BY <1>3, Zenon DEF NoDotLine
<1>5. c \in Newlines => t[i] \in Newlines
  BY DEF Newlines
<1>6. c = "." => t[i] = "."
  OBVIOUS
<1>7. IsMarkup(w, t, i, m)
  BY <1>2, <1>3, <1>4, <1>5, <1>6, Zenon DEF IsMarkup
<1> QED
  BY <1>7 DEF w

LEMMA MarkupEntity ==
  ASSUME NEW t, NEW i, NEW m, NEW w \in Seq(Alphabet), Len(w) # 0, Len(w) # 1,
         \A j \in DOMAIN w : w[j] \in {"&lt", "a", "&gt", "&amp"}
  PROVE  IsMarkup(w, t, i, m)
<1>1. {"&lt", "a", "&gt", "&amp"} \cap (Marks \cup {"<", "."} \cup Newlines) = {}
  BY AlphabetFacts DEF Newlines
<1>2. Len(w) \in Nat /\ DOMAIN w = 1..Len(w)
  BY SeqFacts, Zenon
<1>3. \A j \in DOMAIN w : w[j] \notin Marks \cup {"<", "."} \cup Newlines
  BY <1>1, Zenon
<1>4. Len(w) >= 1 /\ 1 \in DOMAIN w /\ Len(w) \in DOMAIN w
      /\ \A j \in 1..(Len(w) - 1) : j \in DOMAIN w
  BY <1>2
<1>5. NoDotLine(w)
  BY <1>3, <1>4, Zenon DEF NoDotLine
<1> QED
  BY <1>3, <1>4, <1>5, Zenon DEF IsMarkup

LEMMA MarkupFacts ==
  ASSUME NEW t \in Seq(Alphabet), NEW m, NEW i \in DOMAIN t
  PROVE  IsMarkup(Markup(t, i, m), t, i, m)
<1>1. t[i] \in Alphabet
  OBVIOUS
<1>2. /\ {"&lt", "a", "&gt", "&amp"} \subseteq Alphabet
      /\ {"&lt", "&gt", "&amp"} \cap (Marks \cup {"<"}) = {}
  BY AlphabetFacts
<1>3. CASE m # "text"
  <2>1. Markup(t, i, m) = <<t[i]>>
    BY <1>3 DEF Markup
  <2> QED
    BY <1>1, <1>3, <2>1, MarkupSingle
<1>4. CASE m = "text"
  <2> DEFINE w == Markup(t, i, m)
  <2>0. w = Quoted(t[i])
    BY <1>4 DEF Markup
  <2> HIDE DEF w
  <2>1. CASE w = <<t[i]>> /\ t[i] \notin Marks \cup {"<"}
    BY <1>1, <2>1, MarkupSingle DEF w
  <2>2. ASSUME NEW c \in {"&lt", "&gt", "&amp"}, w = <<c>> PROVE IsMarkup(w, t, i, m)
    <3>1. c \in Alphabet /\ c \notin Marks \cup {"<"}
      BY <1>2
    <3>2. IsMarkup(<<c>>, t, i, m)
      BY <3>1, MarkupSingle
    <3> QED
      BY <2>2, <3>2
  <2>3. CASE w = <<"&lt", "a", "&gt">>
    <3>0. "&lt" \in Alphabet /\ "a" \in Alphabet /\ "&gt" \in Alphabet
      BY <1>2
    <3>1. /\ w \in Seq(Alphabet) /\ Len(w) = 3
          /\ \A j \in DOMAIN w : w[j] \in {"&lt", "a", "&gt"}
      BY <2>3, <3>0, ThreeElements, Zenon
    <3>2. Len(w) # 0 /\ Len(w) # 1
      BY <3>1
    <3>3. \A j \in DOMAIN w : w[j] \in {"&lt", "a", "&gt", "&amp"}
      BY <3>1, Zenon
    <3> QED
      BY <3>1, <3>2, <3>3, MarkupEntity, Zenon DEF w
  <2>4. CASE w = <<"&amp", "a">>
    <3>0. "&amp" \in Alphabet /\ "a" \in Alphabet
      BY <1>2
    <3>1. /\ w \in Seq(Alphabet) /\ Len(w) = 2
          /\ \A j \in DOMAIN w : w[j] \in {"&amp", "a"}
      BY <2>4, <3>0, TwoElements, Zenon
    <3>2. Len(w) # 0 /\ Len(w) # 1
      BY <3>1
    <3>3. \A j \in DOMAIN w : w[j] \in {"&lt", "a", "&gt", "&amp"}
      BY <3>1, Zenon
    <3> QED
      BY <3>1, <3>2, <3>3, MarkupEntity, Zenon DEF w
  <2> QED
    BY <1>1, <2>0, <2>1, <2>2, <2>3, <2>4, QuotedFacts DEF w
<1> QED
  BY <1>3, <1>4

\* Nothing of S is before something of R.
NoPair(t, S, R) == \A i \in 1..(Len(t) - 1) : ~(t[i] \in S /\ t[i + 1] \in R)

LEMMA NoPairConcat ==
  ASSUME NEW A, NEW S, NEW R, NEW x \in Seq(A), NEW y \in Seq(A), NoPair(x, S, R), NoPair(y, S, R),
         Len(x) # 0 /\ Len(y) # 0 => ~(x[Len(x)] \in S /\ y[1] \in R)
  PROVE  NoPair(x \o y, S, R)
<1> DEFINE z == x \o y
<1>1. /\ Len(x) \in Nat /\ Len(y) \in Nat /\ Len(z) = Len(x) + Len(y)
      /\ \A i \in 1..Len(x) : z[i] = x[i]
      /\ \A i \in (Len(x) + 1)..(Len(x) + Len(y)) : z[i] = y[i - Len(x)]
  OBVIOUS
<1> HIDE DEF z
<1>2. ASSUME NEW i \in 1..(Len(z) - 1), z[i] \in S, z[i + 1] \in R PROVE FALSE
  <2>1. CASE i < Len(x)
    <3>1. i \in 1..(Len(x) - 1) /\ z[i] = x[i] /\ z[i + 1] = x[i + 1]
      BY <1>1, <2>1
    <3> QED
      BY <1>2, <3>1 DEF NoPair
  <2>2. CASE i = Len(x)
    <3>1. Len(x) # 0 /\ Len(y) # 0 /\ z[i] = x[Len(x)] /\ z[i + 1] = y[1]
      BY <1>1, <2>2
    <3> QED
      BY <1>2, <3>1
  <2>3. CASE i > Len(x)
    <3>1. /\ i - Len(x) \in 1..(Len(y) - 1) /\ z[i] = y[i - Len(x)]
          /\ z[i + 1] = y[(i - Len(x)) + 1]
      BY <1>1, <2>3
    <3> QED
      BY <1>2, <3>1 DEF NoPair
  <2> QED
    BY <1>1, <2>1, <2>2, <2>3
<1> QED
  BY <1>2 DEF NoPair, z

LEMMA NoPairFlatten ==
  ASSUME NEW A, NEW S, NEW R, NEW t \in Seq(A), NEW ss \in Seq(Seq(A)), Len(ss) = Len(t),
         \A i \in DOMAIN t :
           /\ Len(ss[i]) # 0 /\ NoPair(ss[i], S, R)
           /\ ss[i][1] \in R => t[i] \in R
           /\ ss[i][Len(ss[i])] \in S => i = Len(t) \/ t[i + 1] \notin R
  PROVE  FlattenSeq(ss) \in Seq(A) /\ NoPair(FlattenSeq(ss), S, R)
<1>1. PICK P : IsJoin(P, A, ss)
  BY JoinExists
<1>2. /\ Len(t) \in Nat /\ DOMAIN t = 1..Len(t)
      /\ P \in [0..Len(t) -> Seq(A)] /\ P[0] = <<>>
      /\ \A i \in 1..Len(t) : P[i] = P[i - 1] \o ss[i]
      /\ FlattenSeq(ss) = P[Len(t)]
  BY <1>1 DEF IsJoin
<1> DEFINE Good(i) == /\ NoPair(P[i], S, R)
                      /\ Len(P[i]) # 0 /\ P[i][Len(P[i])] \in S
                           => i = Len(t) \/ t[i + 1] \notin R
           I == {i \in 0..Len(t) : Good(i)}
<1>3. 0 \in I
  <2>1. 0 \in 0..Len(t) /\ Len(P[0]) = 0 /\ 1..(Len(P[0]) - 1) = {}
    BY <1>2
  <2> QED
    BY <2>1 DEF NoPair
<1>4. ASSUME NEW i \in 1..Len(t), i - 1 \in I PROVE i \in I
  <2> DEFINE x == P[i - 1]
             w == ss[i]
  <2>1. i \in 0..Len(t) /\ i - 1 \in 0..Len(t) /\ i \in DOMAIN t /\ i - 1 # Len(t) /\ (i - 1) + 1 = i
    BY <1>2
  <2>2. x \in Seq(A) /\ w \in Seq(A) /\ P[i] = x \o w
    <3>1. w \in Seq(A)
      BY <1>2, <2>1
    <3>2. x \in Seq(A)
      BY <1>2, <2>1
    <3>3. P[i] = P[i - 1] \o ss[i]
      BY <1>2
    <3> QED
      BY <3>1, <3>2, <3>3
  <2>3. /\ Len(w) # 0 /\ NoPair(w, S, R)
        /\ w[1] \in R => t[i] \in R
        /\ w[Len(w)] \in S => i = Len(t) \/ t[i + 1] \notin R
    BY <2>1
  <2>4. /\ NoPair(x, S, R)
        /\ Len(x) # 0 /\ x[Len(x)] \in S => t[i] \notin R
    <3>1. Good(i - 1)
      BY <1>4
    <3> QED
      BY <2>1, <3>1
  <2> HIDE DEF x, w
  <2>5. NoPair(x \o w, S, R)
    BY <2>2, <2>3, <2>4, NoPairConcat
  <2>6. Len(x \o w) # 0 /\ (x \o w)[Len(x \o w)] = w[Len(w)]
    BY <2>2, <2>3
  <2>7. Good(i)
    BY <2>2, <2>3, <2>5, <2>6
  <2> QED
    BY <2>1, <2>7
<1> HIDE DEF I
<1>5. \A i \in 0..Len(t) : i \in I
  BY <1>2, <1>3, <1>4, UpTo
<1>6. Len(t) \in I /\ Len(t) \in 0..Len(t)
  BY <1>2, <1>5
<1> QED
  BY <1>2, <1>6 DEF I

\* No dot that ends a line gets through without a mark.
LEMMA NoDotLineConcat ==
  ASSUME NEW A, NEW x \in Seq(A), NEW y \in Seq(A), NoDotLine(x), NoDotLine(y),
         Len(x) # 0 /\ Len(y) # 0 => ~(x[Len(x)] = "." /\ y[1] \in Newlines)
  PROVE  NoDotLine(x \o y)
<1>1. \A w : NoDotLine(w) <=> NoPair(w, {"."}, Newlines)
  BY DEF NoDotLine, NoPair
<1>2. Len(x) # 0 /\ Len(y) # 0 => ~(x[Len(x)] \in {"."} /\ y[1] \in Newlines)
  OBVIOUS
<1>3. NoPair(x \o y, {"."}, Newlines)
  BY <1>1, <1>2, NoPairConcat
<1> QED
  BY <1>1, <1>3

LEMMA NoDotLineFlatten ==
  ASSUME NEW A, NEW t \in Seq(A), NEW ss \in Seq(Seq(A)), Len(ss) = Len(t),
         \A i \in DOMAIN t :
           /\ Len(ss[i]) # 0 /\ NoDotLine(ss[i])
           /\ ss[i][1] \in Newlines => t[i] \in Newlines
           /\ ss[i][Len(ss[i])] = "." => i = Len(t) \/ t[i + 1] \notin Newlines
  PROVE  FlattenSeq(ss) \in Seq(A) /\ NoDotLine(FlattenSeq(ss))
<1>1. \A w : NoDotLine(w) <=> NoPair(w, {"."}, Newlines)
  BY DEF NoDotLine, NoPair
<1>2. \A i \in DOMAIN t :
         /\ Len(ss[i]) # 0 /\ NoPair(ss[i], {"."}, Newlines)
         /\ ss[i][1] \in Newlines => t[i] \in Newlines
         /\ ss[i][Len(ss[i])] \in {"."} => i = Len(t) \/ t[i + 1] \notin Newlines
  BY <1>1
<1>3. FlattenSeq(ss) \in Seq(A) /\ NoPair(FlattenSeq(ss), {"."}, Newlines)
  BY <1>2, NoPairFlatten
<1> QED
  BY <1>1, <1>3

LEMMA MarkedFacts ==
  ASSUME NEW t \in Seq(Alphabet), NEW m, Room(t, m)
  PROVE  /\ Marked(t, m) \in Seq(Seq(Alphabet)) /\ Len(Marked(t, m)) = Len(t)
         /\ \A i \in DOMAIN t :
              IF EndsSentence(t, i, m)
              THEN /\ Mark(Cardinality(EndsBefore(t, i, m))) \in Marks
                   /\ Marked(t, m)[i] = Append(Markup(t, i, m),
                                              Mark(Cardinality(EndsBefore(t, i, m))))
              ELSE Marked(t, m)[i] = Markup(t, i, m)
<1>0. Len(t) \in Nat /\ DOMAIN t = 1..Len(t)
  BY SeqFacts
<1>1. ASSUME NEW i \in DOMAIN t
      PROVE  /\ Marked(t, m)[i] \in Seq(Alphabet)
             /\ IF EndsSentence(t, i, m)
                THEN /\ Mark(Cardinality(EndsBefore(t, i, m))) \in Marks
                     /\ Marked(t, m)[i] = Append(Markup(t, i, m),
                                                Mark(Cardinality(EndsBefore(t, i, m))))
                ELSE Marked(t, m)[i] = Markup(t, i, m)
  <2> DEFINE w == Markup(t, i, m)
             c == Mark(Cardinality(EndsBefore(t, i, m)))
  <2>1. w \in Seq(Alphabet)
    BY MarkupFacts DEF IsMarkup
  <2>2. Marked(t, m)[i] = w \o (IF EndsSentence(t, i, m) THEN <<c>> ELSE <<>>)
    BY DEF Marked
  <2>3. EndsSentence(t, i, m) => c \in Marks /\ c \in Alphabet
    BY NumberFacts, AlphabetFacts
  <2> HIDE DEF w, c
  <2>4. CASE EndsSentence(t, i, m)
    <3>1. Marked(t, m)[i] = w \o <<c>> /\ c \in Alphabet
      BY <2>2, <2>3, <2>4
    <3>2. w \o <<c>> = Append(w, c) /\ Append(w, c) \in Seq(Alphabet)
      BY <2>1, <3>1
    <3> QED
      BY <2>3, <2>4, <3>1, <3>2 DEF w, c
  <2>5. CASE ~EndsSentence(t, i, m)
    <3>1. Marked(t, m)[i] = w \o <<>>
      BY <2>2, <2>5
    <3>2. w \o <<>> = w
      BY <2>1
    <3> QED
      BY <2>1, <2>5, <3>1, <3>2 DEF w
  <2> QED
    BY <2>4, <2>5
<1>2. DOMAIN Marked(t, m) = DOMAIN t
      /\ Marked(t, m) = [i \in DOMAIN t |-> Marked(t, m)[i]]
  BY DEF Marked
<1>3. Marked(t, m) \in [1..Len(t) -> Seq(Alphabet)]
  BY <1>0, <1>1, <1>2
<1>4. Marked(t, m) \in Seq(Seq(Alphabet)) /\ Len(Marked(t, m)) = Len(t)
  BY <1>0, <1>3
<1> QED
  BY <1>1, <1>4

LEMMA MarkedNoDotLine ==
  ASSUME NEW t \in Seq(Alphabet), NEW m, Room(t, m), m = "text" \/ Clean(t, {"."})
  PROVE  FlattenSeq(Marked(t, m)) \in Seq(Alphabet) /\ NoDotLine(FlattenSeq(Marked(t, m)))
<1> DEFINE ss == Marked(t, m)
<1>0. Len(t) \in Nat /\ DOMAIN t = 1..Len(t)
  BY SeqFacts
<1>1. ss \in Seq(Seq(Alphabet)) /\ Len(ss) = Len(t)
  BY MarkedFacts
<1>2. ASSUME NEW i \in DOMAIN t
      PROVE  /\ Len(ss[i]) # 0 /\ NoDotLine(ss[i])
             /\ ss[i][1] \in Newlines => t[i] \in Newlines
             /\ ss[i][Len(ss[i])] = "." => i = Len(t) \/ t[i + 1] \notin Newlines
  <2> DEFINE w == Markup(t, i, m)
             c == Mark(Cardinality(EndsBefore(t, i, m)))
             v == ss[i]
  <2>1. /\ w \in Seq(Alphabet) /\ Len(w) >= 1 /\ NoDotLine(w)
        /\ w[1] \in Newlines => t[i] \in Newlines
        /\ w[Len(w)] = "." => t[i] = "."
    BY MarkupFacts DEF IsMarkup
  <2>2. IF EndsSentence(t, i, m) THEN c \in Marks /\ v = Append(w, c) ELSE v = w
    BY MarkedFacts
  <2>3. Len(w) \in Nat
    BY <2>1, SeqFacts
  <2> HIDE DEF w, c, v
  <2>4. CASE EndsSentence(t, i, m)
    <3>1. c \in Alphabet /\ c \notin Newlines /\ c # "." /\ v = Append(w, c)
      BY <2>2, <2>4, AlphabetFacts DEF Newlines
    <3>2. /\ <<c>> \in Seq(Alphabet) /\ NoDotLine(<<c>>) /\ v = w \o <<c>>
          /\ <<c>>[1] = c /\ Len(v) = Len(w) + 1 /\ v[1] = w[1] /\ v[Len(v)] = c
      <4>1. <<c>> \in Seq(Alphabet) /\ Len(<<c>>) = 1 /\ <<c>>[1] = c
        BY <3>1, OneElement
      <4>2. 1..(Len(<<c>>) - 1) = {}
        BY <4>1
      <4>3. NoDotLine(<<c>>)
        BY <4>2 DEF NoDotLine
      <4>4. /\ v = w \o <<c>> /\ Len(v) = Len(w) + 1 /\ v[1] = w[1] /\ v[Len(v)] = c
        BY <2>1, <2>3, <3>1, AppendFacts
      <4> QED
        BY <4>1, <4>3, <4>4
    <3>3. NoDotLine(v)
      BY <2>1, <3>1, <3>2, NoDotLineConcat
    <3> QED
      BY <2>1, <2>3, <3>1, <3>2, <3>3 DEF v
  <2>5. CASE ~EndsSentence(t, i, m)
    <3>1. v = w
      BY <2>2, <2>5
    <3>2. ASSUME w[Len(w)] = ".", i # Len(t) PROVE t[i + 1] \notin Newlines
      <4>1. t[i] = "." /\ i < Len(t)
        BY <1>0, <2>1, <3>2
      <4>2. m = "ssml" => ~InsideTag(t, i)
        <5>1. SUFFICES ASSUME m = "ssml", InsideTag(t, i) PROVE FALSE
          OBVIOUS
        <5>2. i \in Nat
          BY <1>0
        <5>3. Open(t, i - 1)
          BY <5>1, <5>2, InsideIsOpen
        <5>4. Clean(t, {"."})
          BY <5>1
        <5> QED
          BY <4>1, <5>3, <5>4 DEF Clean
      <4> QED
        BY <2>5, <4>1, <4>2 DEF EndsSentence
    <3> QED
      BY <2>1, <2>3, <3>1, <3>2 DEF v
  <2> QED
    BY <2>4, <2>5
<1> HIDE DEF ss
<1>3. FlattenSeq(ss) \in Seq(Alphabet) /\ NoDotLine(FlattenSeq(ss))
  BY <1>1, <1>2, NoDotLineFlatten
<1> QED
  BY <1>3 DEF ss

LEMMA InsertNoDotLine ==
  ASSUME NEW t \in Seq(Alphabet), NEW m, Room(t, m), m = "text" \/ Clean(t, {"."})
  PROVE  NoDotLine(insert_index_marks(t, m))
<1> DEFINE x == FlattenSeq(Marked(t, m))
           o == <<"<speak>">>
           c == <<"</speak>">>
<1>1. x \in Seq(Alphabet) /\ NoDotLine(x)
  BY MarkedNoDotLine
<1>2. insert_index_marks(t, m) = IF m = "text" THEN o \o x \o c ELSE x
  BY InsertIsMarked
<1>3. /\ o \in Seq(Alphabet) /\ Len(o) = 1 /\ o[1] = "<speak>"
      /\ c \in Seq(Alphabet) /\ Len(c) = 1 /\ c[1] = "</speak>"
  BY AlphabetFacts, OneElement
<1> HIDE DEF x, o, c
<1>4. NoDotLine(o) /\ NoDotLine(c)
  <2>1. 1..(Len(o) - 1) = {} /\ 1..(Len(c) - 1) = {}
    BY <1>3
  <2> QED
    BY <2>1 DEF NoDotLine
<1>5. NoDotLine(o \o x)
  BY <1>1, <1>3, <1>4, NoDotLineConcat
<1>6. o \o x \in Seq(Alphabet) /\ o \o x \o c = (o \o x) \o c
  BY <1>1, <1>3
<1>7. c[1] \notin Newlines
  BY <1>3 DEF Newlines
<1>8. NoDotLine((o \o x) \o c)
  BY <1>3, <1>4, <1>5, <1>6, <1>7, NoDotLineConcat
<1> QED
  BY <1>1, <1>2, <1>6, <1>8

LEMMA InsertType ==
  ASSUME NEW t \in Seq(Alphabet), NEW m, Room(t, m)
  PROVE  insert_index_marks(t, m) \in Seq(Alphabet)
<1> DEFINE ss == Marked(t, m)
           o == <<"<speak>">>
           c == <<"</speak>">>
<1>1. ss \in Seq(Seq(Alphabet))
  BY MarkedFacts
<1>2. insert_index_marks(t, m) = IF m = "text" THEN o \o FlattenSeq(ss) \o c ELSE FlattenSeq(ss)
  BY InsertIsMarked
<1>3. o \in Seq(Alphabet) /\ c \in Seq(Alphabet)
  BY AlphabetFacts, OneElement
<1> HIDE DEF ss, o, c
<1>4. FlattenSeq(ss) \in Seq(Alphabet)
  <2>1. PICK P : IsJoin(P, Alphabet, ss)
    BY <1>1, JoinExists
  <2>2. Len(ss) \in 0..Len(ss)
    BY <1>1, SeqFacts
  <2> QED
    BY <2>1, <2>2 DEF IsJoin
<1> QED
  BY <1>2, <1>3, <1>4

\* In SSML the marks go between what is there.
LEMMA InsertClean ==
  ASSUME NEW t \in Seq(Alphabet), NEW m, m # "text", Room(t, m),
         NEW S \in {{"."}, Marks}, Clean(t, S),
         S = Marks => m = "ssml" /\ \A i \in DOMAIN t : t[i] \notin Marks
  PROVE  Clean(insert_index_marks(t, m), S)
<1> DEFINE ss == Marked(t, m)
<1>0. Len(t) \in Nat /\ DOMAIN t = 1..Len(t)
  BY SeqFacts
<1>1. insert_index_marks(t, m) = FlattenSeq(ss)
  BY InsertIsMarked
<1>2. ss \in Seq(Seq(Alphabet)) /\ Len(ss) = Len(t)
  BY MarkedFacts
<1>3. ASSUME NEW i \in DOMAIN t
      PROVE  \/ ss[i] = <<>> /\ t[i] \notin Closers
             \/ ss[i] = <<t[i]>>
             \/ \E c : ss[i] = <<t[i], c>> /\ c # "<" /\ (c \in S => ~Open(t, i))
  <2> DEFINE c == Mark(Cardinality(EndsBefore(t, i, m)))
  <2>1. Markup(t, i, m) = <<t[i]>> /\ t[i] \in Alphabet
    BY DEF Markup
  <2>2. IF EndsSentence(t, i, m) THEN c \in Marks /\ ss[i] = Append(<<t[i]>>, c)
        ELSE ss[i] = <<t[i]>>
    BY <2>1, MarkedFacts
  <2> HIDE DEF c, ss
  <2>3. CASE EndsSentence(t, i, m)
    <3>1. c \in Marks /\ ss[i] = <<t[i], c>> /\ c # "<" /\ c # "."
      <4>1. c \in Marks /\ ss[i] = Append(<<t[i]>>, c)
        BY <2>2, <2>3
      <4>2. Append(<<t[i]>>, c) = <<t[i], c>>
        BY <2>1, <4>1, AlphabetFacts, AppendPair
      <4> QED
        BY <4>1, <4>2, AlphabetFacts
    <3>2. ASSUME S = Marks PROVE ~Open(t, i)
      <4>1. t[i] = "." /\ ~InsideTag(t, i)
        BY <2>3, <3>2 DEF EndsSentence
      <4>2. i \in Nat \ {0}
        BY <1>0
      <4>3. Open(t, i) <=> t[i] = "<" \/ (Open(t, i - 1) /\ t[i] \notin Closers)
        BY <4>2, OpenStep
      <4>4. SUFFICES ASSUME Open(t, i - 1) PROVE FALSE
        BY <4>1, <4>3
      <4>5. PICK j \in 1..(i - 1) : t[j] = "<" /\ \A k \in (j + 1)..(i - 1) : t[k] \notin Closers
        BY <4>4 DEF Open
      <4>6. \A k \in (j + 1)..(i - 1) : t[k] \notin {">"} \cup Tags
        <5>1. \A k \in (j + 1)..(i - 1) : k \in DOMAIN t
          BY <1>0, <4>5
        <5> QED
          BY <3>2, <4>5, <5>1 DEF Closers, Tags
      <4>7. InsideTag(t, i)
        BY <4>5, <4>6 DEF InsideTag
      <4> QED
        BY <4>1, <4>7
    <3>3. c \in S => ~Open(t, i)
      BY <3>1, <3>2
    <3> QED
      BY <3>1, <3>3
  <2>4. CASE ~EndsSentence(t, i, m)
    BY <2>2, <2>4
  <2> QED
    BY <2>3, <2>4
<1> HIDE DEF ss
<1>4. Tame(t, ss, S)
  BY <1>2, <1>3, Zenon DEF Tame
<1> QED
  BY <1>1, <1>2, <1>4, CleanFlatten

-----------------------------------------------------------------------------
(***************************************************************************)
(* The text between the server and the module.                             *)
(***************************************************************************)

\* Pieces that are what they stand for.
LEMMA JoinSame ==
  ASSUME NEW A, NEW t \in Seq(A), NEW ss, Len(ss) = Len(t), NEW P, IsJoin(P, A, ss),
         NEW n \in 0..Len(t), \A i \in 1..n : ss[i] = <<t[i]>>
  PROVE  P[n] = SubSeq(t, 1, n)
<1> DEFINE I == {i \in 0..Len(t) : P[i] = SubSeq(t, 1, i)}
<1>0. /\ Len(t) \in Nat /\ n \in Nat /\ n <= Len(t)
      /\ P[0] = <<>> /\ \A i \in 1..Len(t) : P[i] = P[i - 1] \o ss[i]
  <2>1. Len(t) \in Nat
    BY SeqFacts
  <2>2. P[0] = <<>> /\ \A i \in 1..Len(t) : P[i] = P[i - 1] \o ss[i]
    BY DEF IsJoin
  <2>3. n \in Nat /\ n <= Len(t)
    BY <2>1
  <2> QED
    BY <2>1, <2>2, <2>3, Zenon
<1>1. 0 \in I
  <2>1. 0 \in Int /\ 1 \in Int /\ 0 < 1
    OBVIOUS
  <2>2. SubSeq(t, 1, 0) = <<>>
    BY <2>1, SubSeqEmpty
  <2>3. 0 \in 0..Len(t)
    BY <1>0
  <2> QED
    BY <1>0, <2>2, <2>3, Zenon
<1>2. ASSUME NEW i \in 1..n, i - 1 \in I PROVE i \in I
  <2>1. P[i - 1] = SubSeq(t, 1, i - 1)
    BY <1>2
  <2>2. 1 \in 1..Len(t) /\ i \in 1..Len(t) /\ i \in 0..Len(t)
    BY <1>0
  <2>3. SubSeq(t, 1, i) = SubSeq(t, 1, i - 1) \o <<t[i]>>
    BY <2>2, SubSeqRecursiveSecond
  <2>4. P[i] = P[i - 1] \o <<t[i]>>
    BY <1>0, <2>2
  <2>5. P[i] = SubSeq(t, 1, i)
    BY <2>1, <2>3, <2>4, Zenon
  <2> QED
    BY <2>2, <2>5
<1> HIDE DEF I
<1>3. \A i \in 0..n : i \in I
  BY <1>0, <1>1, <1>2, UpTo
<1>4. n \in I
  BY <1>0, <1>3
<1> QED
  BY <1>4 DEF I

LoneLine(t, i) == /\ t[i] = "." /\ StartsLine(t, i, Newlines)
                  /\ i = Len(t) \/ t[i + 1] = "lf"
Doubled(t, i)  == \E first \in 1..i :
                    /\ \A k \in first..i : (i - k) % 2 = 0 => LoneLine(t, k)
                    /\ first > 2 => ~LoneLine(t, first - 2)
                    /\ (i - first) % 4 = 0
Escaped(t) == [i \in DOMAIN t |-> IF Doubled(t, i) THEN <<".", ".">> ELSE <<t[i]>>]

LEMMA EscapeIsFlatten ==
  ASSUME NEW t PROVE escape_dot(t) = FlattenSeq(Escaped(t))
BY DEF escape_dot, Replaced, Escaped, Doubled, LoneLine

LEMMA DoubledIsLone ==
  ASSUME NEW t, NEW i \in Nat, Doubled(t, i) PROVE LoneLine(t, i)
<1>1. PICK first \in 1..i : \A k \in first..i : (i - k) % 2 = 0 => LoneLine(t, k)
  BY DEF Doubled
<1>2. i \in first..i /\ (i - i) % 2 = 0
  BY <1>1
<1> QED
  BY <1>1, <1>2

LEMMA EscapedFacts ==
  ASSUME NEW t \in Seq(Alphabet)
  PROVE  /\ Escaped(t) \in Seq(Seq(Alphabet)) /\ Len(Escaped(t)) = Len(t)
         /\ \A i \in DOMAIN t : Escaped(t)[i] = <<t[i]>> \/ (t[i] = "." /\ Escaped(t)[i] = <<t[i], ".">>)
<1>1. ASSUME NEW i \in DOMAIN t
      PROVE  Escaped(t)[i] = <<t[i]>> \/ (t[i] = "." /\ Escaped(t)[i] = <<t[i], ".">>)
  <2>1. CASE Doubled(t, i)
    <3>1. i \in Nat
      BY SeqFacts
    <3>2. t[i] = "."
      BY <2>1, <3>1, DoubledIsLone DEF LoneLine
    <3> QED
      BY <2>1, <3>2 DEF Escaped
  <2>2. CASE ~Doubled(t, i)
    BY <2>2 DEF Escaped
  <2> QED
    BY <2>1, <2>2
<1> DEFINE ss == Escaped(t)
<1>2. DOMAIN ss = DOMAIN t /\ ss = [i \in DOMAIN ss |-> ss[i]]
  BY DEF Escaped
<1>3. "." \in Alphabet
  BY AlphabetFacts
<1> HIDE DEF ss
<1>4. \A i \in DOMAIN t : \/ ss[i] = <<>> \/ ss[i] = <<t[i]>>
                         \/ \E c \in Alphabet : ss[i] = <<t[i], c>>
  BY <1>1, <1>3 DEF ss
<1>5. ss \in Seq(Seq(Alphabet)) /\ Len(ss) = Len(t)
  BY <1>2, <1>4, Pieces
<1> QED
  BY <1>1, <1>5 DEF ss

LEMMA escape_dotClean ==
  ASSUME NEW t \in Seq(Alphabet), NEW S \in {{"."}, Marks}, Clean(t, S)
  PROVE  escape_dot(t) \in Seq(Alphabet) /\ Clean(escape_dot(t), S)
<1> DEFINE ss == Escaped(t)
<1>1. ss \in Seq(Seq(Alphabet)) /\ Len(ss) = Len(t)
  BY EscapedFacts
<1>2. ASSUME NEW i \in DOMAIN t
      PROVE  \/ ss[i] = <<>> /\ t[i] \notin Closers
             \/ ss[i] = <<t[i]>>
             \/ \E c : ss[i] = <<t[i], c>> /\ c # "<" /\ (c \in S => ~Open(t, i))
  <2> HIDE DEF ss
  <2>1. ss[i] = <<t[i]>> \/ (t[i] = "." /\ ss[i] = <<t[i], ".">>)
    BY EscapedFacts DEF ss
  <2> QED
    BY <2>1, DoubledDots
<1> HIDE DEF ss
<1>3. Tame(t, ss, S)
  BY <1>1, <1>2, Zenon DEF Tame
<1>4. FlattenSeq(ss) \in Seq(Alphabet) /\ Clean(FlattenSeq(ss), S)
  BY <1>1, <1>3, CleanFlatten
<1> QED
  BY <1>4, EscapeIsFlatten DEF ss

\* A dot at the end of the text that is a line of its own.
EndsInLoneDot(t) == Len(t) # 0 /\ LoneLine(t, Len(t))

\* Of a text with marks at most the last dot is doubled.
LEMMA EscapeOnce ==
  ASSUME NEW t \in Seq(Alphabet), NoDotLine(t)
  PROVE  escape_dot(t) = IF EndsInLoneDot(t) THEN Append(t, ".") ELSE t
<1> DEFINE n  == Len(t)
           ss == Escaped(t)
<1>0. n \in Nat /\ DOMAIN t = 1..n /\ \A i \in 1..n : t[i] \in Alphabet
  BY SeqFacts
<1>00. n = Len(t)
  OBVIOUS
<1> HIDE DEF n
<1>1. ASSUME NEW i \in 1..n, LoneLine(t, i) PROVE i = n
  <2>1. SUFFICES ASSUME i # n PROVE FALSE
    OBVIOUS
  <2>2. i \in 1..(n - 1)
    BY <1>0, <2>1
  <2>3. t[i] = "." /\ t[i + 1] \in Newlines
    BY <1>00, <1>1, <2>1 DEF LoneLine, Newlines
  <2> QED
    BY <1>00, <2>2, <2>3 DEF NoDotLine
<1>2. ASSUME NEW i \in 1..n, i # n PROVE ~Doubled(t, i)
  <2>1. i \in Nat
    BY <1>0
  <2> QED
    BY <1>1, <1>2, <2>1, DoubledIsLone
<1>3. ASSUME n # 0 PROVE Doubled(t, n) <=> LoneLine(t, n)
  <2>1. n \in 1..n
    BY <1>0, <1>3
  <2>2. ASSUME LoneLine(t, n) PROVE Doubled(t, n)
    <3>1. \A k \in n..n : k = n
      BY <1>0
    <3>2. n > 2 => ~LoneLine(t, n - 2)
      <4>1. SUFFICES ASSUME n > 2, LoneLine(t, n - 2) PROVE FALSE
        OBVIOUS
      <4>2. n - 2 \in 1..n /\ n - 2 # n
        BY <1>0, <4>1
      <4> QED
        BY <1>1, <4>1, <4>2
    <3>3. (n - n) % 4 = 0
      BY <1>0
    <3> QED
      BY <2>1, <2>2, <3>1, <3>2, <3>3 DEF Doubled
  <2> QED
    BY <1>0, <2>2, DoubledIsLone
<1>4. ss \in Seq(Seq(Alphabet)) /\ Len(ss) = n
  BY <1>00, EscapedFacts
<1>5. \A i \in 1..n : ss[i] = IF Doubled(t, i) THEN <<".", ".">> ELSE <<t[i]>>
  BY <1>0 DEF Escaped
<1>6. escape_dot(t) = FlattenSeq(ss)
  BY EscapeIsFlatten
<1> HIDE DEF ss
<1>7. PICK P : IsJoin(P, Alphabet, ss)
  BY <1>4, JoinExists
<1>8. FlattenSeq(ss) = P[n]
  BY <1>4, <1>7 DEF IsJoin
<1>9. CASE ~EndsInLoneDot(t)
  <2>1. ASSUME NEW i \in 1..n PROVE ss[i] = <<t[i]>>
    <3>1. ~Doubled(t, i)
      <4>1. CASE i = n
        <5>1. n # 0
          BY <1>0, <4>1
        <5> QED
          BY <1>00, <1>3, <1>9, <4>1, <5>1 DEF EndsInLoneDot
      <4>2. CASE i # n
        BY <1>2, <4>2
      <4> QED
        BY <4>1, <4>2
    <3> QED
      BY <1>5, <3>1
  <2>2. n \in 0..Len(t)
    BY <1>0, <1>00
  <2>3. P[n] = SubSeq(t, 1, n)
    <3>1. Len(ss) = Len(t)
      BY <1>00, <1>4, Zenon
    <3> QED
      BY <1>7, <2>1, <2>2, <3>1, JoinSame
  <2>4. SubSeq(t, 1, n) = t
    BY <1>00, SubSeqFull
  <2>5. escape_dot(t) = t
    BY <1>6, <1>8, <2>3, <2>4, Zenon
  <2> QED
    BY <1>9, <2>5, Zenon
<1>10. CASE EndsInLoneDot(t)
  <2>1. n \in 1..n /\ n - 1 \in 0..Len(t) /\ 1 \in 1..Len(t) /\ n \in 1..Len(t)
    BY <1>0, <1>00, <1>10 DEF EndsInLoneDot
  <2>2. ss[n] = <<".", ".">> /\ t[n] = "."
    BY <1>00, <1>3, <1>5, <1>10, <2>1 DEF EndsInLoneDot, LoneLine
  <2>3. ASSUME NEW i \in 1..(n - 1) PROVE ss[i] = <<t[i]>>
    <3>1. i \in 1..n /\ i # n
      BY <1>0
    <3>2. ~Doubled(t, i)
      BY <1>2, <3>1
    <3> QED
      BY <1>5, <3>1, <3>2
  <2>4. P[n - 1] = SubSeq(t, 1, n - 1)
    <3> DEFINE k == n - 1
    <3>1. k \in 0..Len(t) /\ \A i \in 1..k : ss[i] = <<t[i]>>
      BY <2>1, <2>3
    <3>2. Len(ss) = Len(t)
      BY <1>00, <1>4
    <3> HIDE DEF k
    <3>3. P[k] = SubSeq(t, 1, k)
      BY <1>7, <3>1, <3>2, JoinSame
    <3> QED
      BY <3>3 DEF k
  <2>5. P[n] = P[n - 1] \o <<".", ".">>
    BY <1>00, <1>4, <1>7, <2>1, <2>2 DEF IsJoin
  <2>6. t = SubSeq(t, 1, n - 1) \o <<".">>
    <3>1. SubSeq(t, 1, n) = SubSeq(t, 1, n - 1) \o <<t[n]>>
      BY <2>1, SubSeqRecursiveSecond
    <3>2. SubSeq(t, 1, n) = t
      BY <1>00, SubSeqFull
    <3> QED
      BY <2>2, <3>1, <3>2
  <2> DEFINE x == SubSeq(t, 1, n - 1)
             d == "."
  <2>7. x \in Seq(Alphabet) /\ "." \in Alphabet
    <3>1. \A i \in 1..(n - 1) : t[i] \in Alphabet
      BY <1>0
    <3> QED
      BY <1>0, <3>1, SubSeqProperties, AlphabetFacts
  <2> HIDE DEF x
  <2>8. P[n] = x \o <<d, d>> /\ t = x \o <<d>> /\ d \in Alphabet
    BY <2>4, <2>5, <2>6, <2>7 DEF x
  <2> HIDE DEF d
  <2>9. Append(x \o <<d>>, d) = x \o <<d, d>>
    <3>1. <<d>> \in Seq(Alphabet)
      BY <2>8
    <3>2. Append(x \o <<d>>, d) = (x \o <<d>>) \o <<d>>
      BY <2>7, <2>8, <3>1
    <3>3. (x \o <<d>>) \o <<d>> = x \o (<<d>> \o <<d>>)
      BY <2>7, <3>1, ConcatAssociative
    <3>4. <<d>> \o <<d>> = Append(<<d>>, d)
      BY <2>8, <3>1, AppendFacts
    <3>5. Append(<<d>>, d) = <<d, d>>
      BY <2>8, AppendPair
    <3> QED
      BY <3>2, <3>3, <3>4, <3>5
  <2> QED
    BY <1>6, <1>8, <1>10, <2>8, <2>9 DEF d
<1> QED
  BY <1>9, <1>10

\* The end of a message for the module.
EndsMessage(t, i) == t[i] = "." /\ StartsLine(t, i, Newlines) /\ t[i + 1] = "lf"
EndOf(t) == CHOOSE i \in 1..(Len(t) - 1) :
               EndsMessage(t, i) /\ \A j \in 1..(i - 1) : ~EndsMessage(t, j)

LEMMA RestIsAfterEnd ==
  ASSUME NEW t PROVE do_message(t).rest = SubSeq(t, EndOf(t) + 2, Len(t))
BY DEF do_message, EndOf, EndsMessage

\* The message ends where the server ended it, if nothing does before.
LEMMA EndsOnce ==
  ASSUME NEW t \in Seq(Alphabet), Len(t) >= 2,
         EndsMessage(t, Len(t) - 1), \A i \in 1..(Len(t) - 2) : ~EndsMessage(t, i)
  PROVE  EndOf(t) = Len(t) - 1 /\ do_message(t).rest = <<>>
<1>1. Len(t) \in Nat
  BY SeqFacts
<1> DEFINE n == Len(t) - 1
<1>2. /\ n \in 1..n /\ \A i \in 1..n : i = n \/ i \in 1..(Len(t) - 2)
      /\ \A j \in 1..(n - 1) : j \in 1..(Len(t) - 2)
  BY <1>1
<1>3. n \in 1..(Len(t) - 1) /\ EndsMessage(t, n) /\ \A j \in 1..(n - 1) : ~EndsMessage(t, j)
  BY <1>2
<1>4. \A i \in 1..(Len(t) - 1) : EndsMessage(t, i) => i = n
  BY <1>2
<1> HIDE DEF n
<1>5. EndOf(t) = n
  BY <1>3, <1>4 DEF EndOf
<1>6. do_message(t).rest = SubSeq(t, n + 2, Len(t))
  BY <1>5, RestIsAfterEnd
<1>7. n + 2 \in Int /\ Len(t) \in Int /\ Len(t) < n + 2
  BY <1>1 DEF n
<1>8. SubSeq(t, n + 2, Len(t)) = <<>>
  BY <1>7, SubSeqEmpty
<1> QED
  BY <1>5, <1>6, <1>8 DEF n

\* A text with marks is read to its end.
LEMMA MarkedReadWhole ==
  ASSUME NEW x \in Seq(Alphabet), NoDotLine(x)
  PROVE  LET t == escape_dot(x) \o <<"lf", ".", "lf">>
         IN  t \in Seq(Alphabet) /\ EndOf(t) = Len(escape_dot(x)) + 2 /\ do_message(t).rest = <<>>
<1> DEFINE e == escape_dot(x)
           d == <<"lf", ".", "lf">>
           t == e \o d
           n == Len(e)
<1>1. e = IF EndsInLoneDot(x) THEN Append(x, ".") ELSE x
  BY EscapeOnce
<1>2. "." \in Alphabet /\ "lf" \in Alphabet
  BY AlphabetFacts
<1>3. e \in Seq(Alphabet)
  BY <1>1, <1>2, AppendFacts
<1>4. d \in Seq(Alphabet) /\ Len(d) = 3 /\ d[1] = "lf" /\ d[2] = "." /\ d[3] = "lf"
  <2>1. d \in Seq(Alphabet) /\ Len(d) = 3
    BY <1>2, ThreeElements
  <2>2. d[1] = "lf" /\ d[2] = "." /\ d[3] = "lf"
    OBVIOUS
  <2> QED
    BY <2>1, <2>2
<1> HIDE DEF e, d
<1>5. /\ n \in Nat /\ Len(t) = n + 3 /\ t \in Seq(Alphabet)
      /\ \A i \in 1..n : t[i] = e[i]
      /\ t[n + 1] = "lf" /\ t[n + 2] = "." /\ t[n + 3] = "lf"
  <2>0. n \in Nat
    BY <1>3, SeqFacts
  <2>1. /\ t \in Seq(Alphabet) /\ Len(t) = n + 3
        /\ \A i \in 1..(n + 3) : t[i] = IF i <= n THEN e[i] ELSE d[i - n]
    <3>1. /\ e \o d \in Seq(Alphabet) /\ Len(e \o d) = Len(e) + Len(d)
          /\ \A i \in 1..(Len(e) + Len(d)) : (e \o d)[i] = IF i <= Len(e) THEN e[i] ELSE d[i - Len(e)]
      BY <1>3, <1>4, ConcatProperties
    <3>2. Len(d) = 3
      BY <1>4
    <3> QED
      BY <3>1, <3>2
  <2> HIDE DEF t, n
  <2>2. t[n + 1] = d[1] /\ t[n + 2] = d[2] /\ t[n + 3] = d[3]
    BY <2>0, <2>1
  <2>3. \A i \in 1..n : t[i] = e[i]
    BY <2>0, <2>1
  <2> QED
    BY <1>4, <2>0, <2>1, <2>2, <2>3
<1> HIDE DEF t, n
<1>6. EndsMessage(t, n + 2)
  <2>1. (n + 2) - 1 = n + 1 /\ (n + 2) + 1 = n + 3
    BY <1>5
  <2> QED
    BY <1>5, <2>1 DEF EndsMessage, StartsLine, Newlines
<1>7. ASSUME NEW i \in 1..(n + 1) PROVE ~EndsMessage(t, i)
  <2>0. Len(x) \in Nat /\ n = Len(e)
    BY SeqFacts DEF n
  <2>1. CASE i = n + 1
    BY <1>5, <2>1 DEF EndsMessage
  <2>2. CASE EndsInLoneDot(x) /\ i # n + 1
    <3>1. /\ n = Len(x) + 1 /\ e[n] = "." /\ \A j \in 1..Len(x) : e[j] = x[j]
          /\ Len(x) # 0 /\ x[Len(x)] = "."
      BY <1>1, <1>2, <2>0, <2>2, AppendFacts DEF EndsInLoneDot, LoneLine
    <3>2. CASE i = n
      <4>1. i # 1 /\ i - 1 \in 1..n /\ i - 1 = Len(x)
        BY <2>0, <3>1, <3>2
      <4>2. t[i - 1] = "."
        BY <1>5, <2>0, <3>1, <4>1
      <4> QED
        BY <4>1, <4>2 DEF EndsMessage, StartsLine, Newlines
    <3>3. CASE i = Len(x)
      <4>1. i + 1 = n /\ n \in 1..n
        BY <1>5, <3>1, <3>3
      <4>2. t[i + 1] = "."
        BY <1>5, <3>1, <4>1
      <4> QED
        BY <4>2 DEF EndsMessage
    <3>4. CASE i # n /\ i # Len(x)
      <4>1. i \in 1..(Len(x) - 1) /\ i \in 1..n /\ i + 1 \in 1..n /\ i \in 1..Len(x) /\ i + 1 \in 1..Len(x)
        BY <2>0, <2>2, <3>1, <3>4
      <4>2. t[i] = x[i] /\ t[i + 1] = x[i + 1]
        BY <1>5, <3>1, <4>1
      <4> QED
        BY <4>1, <4>2 DEF EndsMessage, NoDotLine, Newlines
    <3> QED
      BY <3>2, <3>3, <3>4
  <2>3. CASE ~EndsInLoneDot(x) /\ i # n + 1
    <3>1. e = x /\ n = Len(x)
      BY <1>1, <2>0, <2>3
    <3>2. CASE i = n
      <4>1. i \in 1..n /\ Len(x) # 0 /\ (i # 1 => i - 1 \in 1..n)
        BY <1>5, <3>1, <3>2
      <4>2. t[i] = x[i] /\ (i # 1 => t[i - 1] = x[i - 1])
        BY <1>5, <3>1, <4>1
      <4>3. EndsMessage(t, i) => LoneLine(x, i)
        BY <3>1, <3>2, <4>2 DEF EndsMessage, LoneLine, StartsLine
      <4> QED
        BY <2>3, <3>1, <3>2, <4>1, <4>3 DEF EndsInLoneDot
    <3>3. CASE i # n
      <4>1. i \in 1..(Len(x) - 1) /\ i \in 1..n /\ i + 1 \in 1..n
        BY <1>5, <2>3, <3>1, <3>3
      <4>2. t[i] = x[i] /\ t[i + 1] = x[i + 1]
        BY <1>5, <3>1, <4>1
      <4> QED
        BY <4>1, <4>2 DEF EndsMessage, NoDotLine, Newlines
    <3> QED
      BY <3>2, <3>3
  <2> QED
    BY <2>1, <2>2, <2>3
<1>8. /\ Len(t) >= 2 /\ Len(t) - 1 = n + 2 /\ Len(t) - 2 = n + 1
  BY <1>5
<1>9. EndOf(t) = n + 2 /\ do_message(t).rest = <<>>
  <2>1. EndsMessage(t, Len(t) - 1) /\ \A i \in 1..(Len(t) - 2) : ~EndsMessage(t, i)
    BY <1>6, <1>7, <1>8
  <2>2. EndOf(t) = Len(t) - 1 /\ do_message(t).rest = <<>>
    BY <1>5, <1>8, <2>1, EndsOnce
  <2> QED
    BY <1>8, <2>2
<1> QED
  BY <1>5, <1>9 DEF t, n, e, d

-----------------------------------------------------------------------------
(***************************************************************************)
(* The text between the library and the server, and what is cut of it.     *)
(***************************************************************************)

EndsData(t, i) == /\ t[i] = "." /\ StartsLine(t, i, {"crlf"})
                  /\ i < Len(t) /\ t[i + 1] = "crlf"
DataEnd(t) == CHOOSE i \in DOMAIN t : EndsData(t, i) /\ \A j \in 1..(i - 1) : ~EndsData(t, j)

LEMMA DataIsPrefix ==
  ASSUME NEW t
  PROVE  DataOf(t) = IF Len(SubSeq(t, 1, DataEnd(t) - 1)) > 1
                     THEN Front(SubSeq(t, 1, DataEnd(t) - 1)) ELSE SubSeq(t, 1, DataEnd(t) - 1)
BY DEF DataOf, DataEnd, EndsData

\* The data end at the dot of the library, if not before.
LEMMA DataEnds ==
  ASSUME NEW A, NEW t \in Seq(A), NEW n \in DOMAIN t, EndsData(t, n)
  PROVE  DataEnd(t) \in 1..n
<1> DEFINE I == {i \in 1..Len(t) : EndsData(t, i)}
<1>0. Len(t) \in Nat /\ DOMAIN t = 1..Len(t)
  BY SeqFacts
<1>1. n \in I /\ I \subseteq Nat
  BY <1>0
<1> HIDE DEF I
<1>2. PICK i \in I : \A j \in I : i <= j
  <2>1. I # {}
    BY <1>1
  <2> QED
    BY <1>1, <2>1, LeastNumber
<1>3. i \in DOMAIN t /\ EndsData(t, i)
  BY <1>0, <1>2 DEF I
<1>4. \A j \in 1..(i - 1) : ~EndsData(t, j)
  <2>1. SUFFICES ASSUME NEW j \in 1..(i - 1), EndsData(t, j) PROVE FALSE
    OBVIOUS
  <2>2. j \in 1..Len(t) /\ ~(i <= j)
    BY <1>0, <1>3
  <2>3. j \in I
    BY <2>1, <2>2 DEF I
  <2> QED
    BY <1>2, <2>2, <2>3
<1>5. /\ DataEnd(t) \in DOMAIN t /\ EndsData(t, DataEnd(t))
      /\ \A j \in 1..(DataEnd(t) - 1) : ~EndsData(t, j)
  BY <1>3, <1>4 DEF DataEnd
<1>6. ~(n \in 1..(DataEnd(t) - 1))
  BY <1>5
<1> QED
  BY <1>0, <1>5, <1>6

LEMMA DataOfClean ==
  ASSUME NEW A, {".", "crlf"} \subseteq A, NEW e \in Seq(A), NEW S \in {{"."}, Marks},
         Clean(e, S), NEW t, t = e \o <<"crlf", ".", "crlf">>
  PROVE  DataOf(t) \in Seq(A) /\ Clean(DataOf(t), S)
<1> DEFINE d == <<"crlf", ".", "crlf">>
           x == Append(e, "crlf")
<1>1. d \in Seq(A) /\ Len(d) = 3 /\ d[1] = "crlf" /\ d[2] = "." /\ d[3] = "crlf"
  <2>1. d \in Seq(A) /\ Len(d) = 3
    BY ThreeElements
  <2> QED
    BY <2>1
<1>2. "crlf" \notin S
  BY AlphabetFacts
<1>3. x \in Seq(A) /\ Clean(x, S)
  <2>1. "crlf" \in A
    OBVIOUS
  <2> QED
    BY <1>2, <2>1, AppendFacts, CleanAppend
<1>4. Len(x) = Len(e) + 1 /\ x[Len(e) + 1] = "crlf" /\ \A i \in 1..Len(e) : x[i] = e[i]
  BY AppendFacts
<1>5. /\ t \in Seq(A) /\ Len(t) = Len(e) + Len(d)
      /\ \A i \in 1..(Len(e) + Len(d)) : t[i] = IF i <= Len(e) THEN e[i] ELSE d[i - Len(e)]
  <2> HIDE DEF d
  <2>1. t = e \o d
    BY DEF d
  <2> QED
    BY <1>1, <2>1, ConcatProperties
<1>6. Len(e) \in Nat
  BY SeqFacts
<1> HIDE DEF d, x
<1>7. /\ Len(t) = Len(e) + 3
      /\ \A i \in 1..(Len(e) + 1) : t[i] = x[i]
      /\ t[Len(e) + 1] = "crlf" /\ t[Len(e) + 2] = "." /\ t[Len(e) + 3] = "crlf"
  <2>1. /\ t[Len(e) + 1] = d[1] /\ t[Len(e) + 2] = d[2] /\ t[Len(e) + 3] = d[3]
        /\ \A i \in 1..Len(e) : t[i] = e[i] /\ i # Len(e) + 1
    BY <1>1, <1>5, <1>6
  <2>2. \A i \in 1..(Len(e) + 1) : i = Len(e) + 1 \/ i \in 1..Len(e)
    BY <1>6
  <2> QED
    BY <1>1, <1>4, <1>5, <2>1, <2>2
<1> DEFINE n == Len(e) + 2
           k == DataEnd(t) - 1
           data == SubSeq(t, 1, k)
<1>8. DataEnd(t) \in 1..n
  <2>1. n \in DOMAIN t /\ n # 1 /\ n - 1 = Len(e) + 1 /\ n < Len(t) /\ n + 1 = Len(e) + 3
    BY <1>5, <1>6, <1>7
  <2> HIDE DEF n
  <2>2. t[n] = "." /\ t[n - 1] = "crlf" /\ t[n + 1] = "crlf"
    BY <1>7, <2>1 DEF n
  <2>3. EndsData(t, n)
    BY <2>1, <2>2 DEF EndsData, StartsLine
  <2> QED
    BY <1>5, <2>1, <2>3, DataEnds
<1>9. k \in 0..(Len(e) + 1) /\ k \in Nat /\ k <= Len(x)
  BY <1>4, <1>6, <1>8
<1> HIDE DEF k
<1>10. data = SubSeq(x, 1, k)
  <2>1. \A i \in 1..k : i \in 1..(Len(e) + 1) /\ i \in 1..Len(x)
    BY <1>4, <1>6, <1>9
  <2>2. \A i \in 1..k : t[i] = x[i] /\ x[i] \in A
    BY <1>3, <1>7, <2>1
  <2> QED
    BY <1>9, <2>2, SamePrefix
<1>11. data \in Seq(A) /\ Clean(data, S)
  <2>1. SubSeq(x, 1, k) \in Seq(A) /\ Clean(SubSeq(x, 1, k), S)
    BY <1>3, <1>9, CleanPart
  <2> QED
    BY <1>10, <2>1
<1>12. DataOf(t) = IF Len(data) > 1 THEN Front(data) ELSE data
  BY DataIsPrefix DEF k
<1> HIDE DEF data
<1>13. CASE Len(data) > 1
  <2> DEFINE b == Len(data) - 1
  <2>1. b \in Nat /\ b <= Len(data) /\ Front(data) = SubSeq(data, 1, b)
    BY <1>11, <1>13 DEF Front
  <2> HIDE DEF b
  <2>2. SubSeq(data, 1, b) \in Seq(A) /\ Clean(SubSeq(data, 1, b), S)
    BY <1>11, <2>1, CleanPart
  <2> QED
    BY <1>12, <1>13, <2>1, <2>2
<1>14. CASE ~(Len(data) > 1)
  BY <1>11, <1>12, <1>14
<1> QED
  BY <1>13, <1>14

LEMMA CleanPrepend ==
  ASSUME NEW A, NEW t \in Seq(A), NEW c \in A, c # "<", NEW S, Clean(t, S)
  PROVE  <<c>> \o t \in Seq(A) /\ Clean(<<c>> \o t, S)
<1> DEFINE y == <<c>> \o t
<1>1. /\ y \in Seq(A) /\ DOMAIN y = 1..(Len(t) + 1) /\ y[1] = c /\ Len(t) \in Nat
      /\ DOMAIN t = 1..Len(t) /\ \A i \in 2..(Len(t) + 1) : y[i] = t[i - 1]
  <2>1. <<c>> \in Seq(A) /\ Len(<<c>>) = 1 /\ <<c>>[1] = c
    BY OneElement
  <2>2. Len(t) \in Nat /\ DOMAIN t = 1..Len(t)
    BY SeqFacts
  <2>3. /\ y \in Seq(A) /\ Len(y) = 1 + Len(t)
        /\ \A i \in 1..(1 + Len(t)) : y[i] = IF i <= 1 THEN <<c>>[i] ELSE t[i - 1]
    BY <2>1, ConcatProperties
  <2> HIDE DEF y
  <2>4. DOMAIN y = 1..(Len(t) + 1)
    BY <2>2, <2>3, SeqFacts
  <2> QED
    BY <2>1, <2>2, <2>3, <2>4
<1> HIDE DEF y
<1>2. ASSUME NEW i \in DOMAIN y, y[i] \in S, Open(y, i - 1) PROVE FALSE
  <2>1. PICK j \in 1..(i - 1) : y[j] = "<" /\ \A k \in (j + 1)..(i - 1) : y[k] \notin Closers
    BY <1>2 DEF Open
  <2>2. i \in 1..(Len(t) + 1) /\ j # 1
    BY <1>1, <2>1
  <2>3. /\ i - 1 \in 1..Len(t) /\ i \in 2..(Len(t) + 1) /\ j \in 2..(Len(t) + 1)
        /\ j - 1 \in 1..((i - 1) - 1)
    BY <1>1, <2>1, <2>2
  <2>4. t[i - 1] \in S /\ t[j - 1] = "<"
    BY <1>1, <1>2, <2>1, <2>3
  <2>5. ASSUME NEW k \in ((j - 1) + 1)..((i - 1) - 1) PROVE t[k] \notin Closers
    <3>1. k + 1 \in (j + 1)..(i - 1) /\ k + 1 \in 2..(Len(t) + 1) /\ (k + 1) - 1 = k
      BY <2>2, <2>3
    <3>2. y[k + 1] = t[(k + 1) - 1]
      BY <1>1, <3>1
    <3> QED
      BY <2>1, <3>1, <3>2
  <2>6. Open(t, (i - 1) - 1)
    BY <2>3, <2>4, <2>5 DEF Open
  <2> QED
    BY <1>1, <2>3, <2>4, <2>6 DEF Clean
<1> QED
  BY <1>1, <1>2 DEF Clean, y

LEMMA FlattenType ==
  ASSUME NEW A, NEW ss \in Seq(Seq(A)) PROVE FlattenSeq(ss) \in Seq(A)
<1>1. PICK P : IsJoin(P, A, ss)
  BY JoinExists
<1>2. Len(ss) \in 0..Len(ss)
  BY SeqFacts
<1> QED
  BY <1>1, <1>2 DEF IsJoin

\* No mark is left.
LEMMA WithoutType ==
  ASSUME NEW t \in Seq(Alphabet)
  PROVE  Without(t, Marks) \in Seq(Alphabet \ Marks)
<1> DEFINE A == Alphabet \ Marks
           ss == [i \in DOMAIN t |-> IF t[i] \in Marks THEN <<>> ELSE <<t[i]>>]
<1>1. Without(t, Marks) = FlattenSeq(ss)
  BY DEF Without, Replaced
<1>2. Len(t) \in Nat /\ DOMAIN t = 1..Len(t) /\ \A i \in 1..Len(t) : t[i] \in Alphabet
  BY SeqFacts
<1>3. ASSUME NEW i \in DOMAIN t PROVE ss[i] \in Seq(A)
  <2>1. CASE t[i] \in Marks
    <3>1. ss[i] = <<>>
      BY <2>1
    <3> HIDE DEF ss, A
    <3> QED
      BY <3>1
  <2>2. CASE t[i] \notin Marks
    <3>1. ss[i] = <<t[i]>> /\ t[i] \in A
      BY <1>2, <2>2
    <3> HIDE DEF ss, A
    <3> QED
      BY <3>1, OneElement
  <2> QED
    BY <2>1, <2>2
<1>4. DOMAIN ss = 1..Len(t) /\ ss = [i \in 1..Len(t) |-> ss[i]]
  BY <1>2
<1> HIDE DEF ss, A
<1>5. ss \in [1..Len(t) -> Seq(A)]
  BY <1>2, <1>3, <1>4
<1>6. ss \in Seq(Seq(A))
  BY <1>2, <1>5
<1> QED
  BY <1>1, <1>6, FlattenType DEF A

\* What find_index_mark() returns is a rest of the text.
LEMMA FoundIsRest ==
  ASSUME NEW t \in Seq(Alphabet), NEW n, find_index_mark(t, n) # <<"?">>
  PROVE  \E a \in Nat \ {0} : find_index_mark(t, n) = SubSeq(t, a, Len(t))
<1> DEFINE I == {i \in 1..Len(t) : t[i] = Mark(n)}
<1>1. Len(t) \in Nat
  BY SeqFacts
<1>2. Contains(t, Mark(n)) /\ I # {}
  BY DEF find_index_mark, Contains
<1>3. SelectInSeq(t, LAMBDA c : c = Mark(n)) = Min(I)
  BY <1>2 DEF SelectInSeq
<1>4. I \subseteq Nat
  BY <1>1
<1> HIDE DEF I
<1>5. PICK i \in I : \A j \in I : i <= j
  BY <1>2, <1>4, LeastNumber
<1>6. Min(I) \in I
  BY <1>5 DEF Min
<1>7. find_index_mark(t, n) = SubSeq(t, SelectInSeq(t, LAMBDA c : c = Mark(n)) + 1, Len(t))
  BY <1>2, Zenon DEF find_index_mark
<1>8. find_index_mark(t, n) = SubSeq(t, Min(I) + 1, Len(t))
  BY <1>3, <1>7, Zenon
<1>9. Min(I) + 1 \in Nat \ {0}
  <2>1. PICK k : k = Min(I)
    OBVIOUS
  <2>2. k \in Nat
    BY <1>4, <1>6, <2>1
  <2>3. k + 1 \in Nat \ {0}
    BY <2>2
  <2> QED
    BY <2>1, <2>3
<1> QED
  BY <1>8, <1>9

\* The rest goes on without marks, and with the tags it had.
LEMMA StripFacts ==
  ASSUME NEW t \in Seq(Alphabet), NEW m
  PROVE  /\ strip_index_marks(t, m) \in Seq(Alphabet \ Marks)
         /\ \A S : m = "ssml" /\ Clean(t, S) => Clean(strip_index_marks(t, m), S)
<1> DEFINE A     == Alphabet \ Marks
           plain == Without(t, Marks)
           end   == SelectInSeq(plain, LAMBDA c : c = "</speak>")
           o     == "<speak>"
<1>1. plain \in Seq(A)
  BY WithoutType
<1>2. o \in A /\ o # "<"
  BY AlphabetFacts
<1>3. strip_index_marks(t, m) = IF m = "ssml" THEN <<o>> \o plain
                                ELSE IF end = 0 THEN plain ELSE SubSeq(plain, 1, end - 1)
  BY DEF strip_index_marks
<1> HIDE DEF o
<1>4. ASSUME NEW S, m = "ssml", Clean(t, S) PROVE Clean(strip_index_marks(t, m), S)
  <2>1. Clean(plain, S)
    BY <1>4, WithoutClean
  <2> HIDE DEF plain, A
  <2>2. Clean(<<o>> \o plain, S)
    BY <1>1, <1>2, <2>1, CleanPrepend
  <2> QED
    BY <1>3, <1>4, <2>2
<1>5. strip_index_marks(t, m) \in Seq(A)
  <2>1. CASE m = "ssml"
    <3> HIDE DEF plain, A
    <3>1. <<o>> \o plain \in Seq(A)
      BY <1>1, <1>2
    <3> QED
      BY <1>3, <2>1, <3>1
  <2>2. CASE m # "ssml" /\ end = 0
    BY <1>1, <1>3, <2>2
  <2>3. CASE m # "ssml" /\ end # 0
    <3> DEFINE I == {i \in 1..Len(plain) : plain[i] = "</speak>"}
    <3>1. end = IF I # {} THEN Min(I) ELSE 0
      BY DEF SelectInSeq
    <3>2. Len(plain) \in Nat
      BY <1>1, SeqFacts
    <3>3. I # {} /\ I \subseteq Nat
      BY <2>3, <3>1, <3>2
    <3> HIDE DEF I, end
    <3>4. PICK i \in I : \A j \in I : i <= j
      BY <3>3, LeastNumber
    <3>5. Min(I) \in I
      BY <3>4 DEF Min
    <3>6. end \in 1..Len(plain)
      BY <3>1, <3>3, <3>5 DEF I
    <3> DEFINE k == end - 1
    <3>7. k \in Nat /\ \A j \in 1..k : j \in 1..Len(plain)
      BY <3>2, <3>6
    <3>8. strip_index_marks(t, m) = SubSeq(plain, 1, k)
      BY <1>3, <2>3 DEF end
    <3> HIDE DEF k, plain, A
    <3>9. \A j \in 1..k : plain[j] \in A
      BY <1>1, <3>7
    <3> QED
      BY <3>7, <3>8, <3>9, PrefixFacts
  <2> QED
    BY <2>1, <2>2, <2>3
<1> QED
  BY <1>4, <1>5

-----------------------------------------------------------------------------
(***************************************************************************)
(* The order of the marks.                                                 *)
(***************************************************************************)

InOrder(t)   == \A i \in DOMAIN t : t[i] \in Marks => t[i] = Mark(Cardinality(MarksBefore(t, i)))
Counts(t, n) == InOrder(t) /\ Cardinality(MarksBefore(t, Len(t) + 1)) = n

LEMMA MarksBeforeFacts ==
  ASSUME NEW A, NEW t \in Seq(A), NEW i \in Nat \ {0}
  PROVE  /\ IsFiniteSet(MarksBefore(t, i)) /\ Cardinality(MarksBefore(t, i)) \in Nat
         /\ Cardinality(MarksBefore(t, i + 1)) =
               IF t[i] \in Marks THEN Cardinality(MarksBefore(t, i)) + 1
               ELSE Cardinality(MarksBefore(t, i))
<1> DEFINE E == MarksBefore(t, i)
           F == MarksBefore(t, i + 1)
<1>1. IsFiniteSet(E)
  <2>1. E \subseteq 1..(i - 1) /\ IsFiniteSet(1..(i - 1))
    BY FS_Interval DEF MarksBefore
  <2> HIDE DEF E
  <2> QED
    BY <2>1, FS_Subset
<1>2. i \notin E /\ F = IF t[i] \in Marks THEN E \cup {i} ELSE E
  <2>1. \A j : j \in 1..((i + 1) - 1) <=> j \in 1..(i - 1) \/ j = i
    OBVIOUS
  <2> QED
    BY <2>1 DEF MarksBefore
<1> HIDE DEF E, F
<1>3. Cardinality(E) \in Nat
  BY <1>1, FS_CardinalityType
<1>4. CASE t[i] \in Marks
  <2>1. Cardinality(E \cup {i}) = Cardinality(E) + 1
    BY <1>1, <1>2, FS_AddElement
  <2> QED
    BY <1>1, <1>2, <1>3, <1>4, <2>1 DEF E, F
<1>5. CASE t[i] \notin Marks
  BY <1>1, <1>2, <1>3, <1>5 DEF E, F
<1> QED
  BY <1>4, <1>5

LEMMA MarksBeforeAgree ==
  ASSUME NEW x, NEW y, NEW i \in Nat, \A j \in 1..(i - 1) : x[j] = y[j]
  PROVE  MarksBefore(x, i) = MarksBefore(y, i)
BY DEF MarksBefore

LEMMA CountsAppend ==
  ASSUME NEW A, NEW x \in Seq(A), NEW n, Counts(x, n), NEW c \in A, c \in Marks => c = Mark(n)
  PROVE  Counts(Append(x, c), IF c \in Marks THEN n + 1 ELSE n)
<1> DEFINE y == Append(x, c)
<1>1. /\ y \in Seq(A) /\ Len(y) = Len(x) + 1 /\ y[Len(x) + 1] = c
      /\ \A i \in 1..Len(x) : y[i] = x[i]
  BY AppendFacts
<1>2. Len(x) \in Nat /\ DOMAIN x = 1..Len(x)
  BY SeqFacts
<1> HIDE DEF y
<1>3. DOMAIN y = 1..(Len(x) + 1)
  BY <1>1, SeqFacts
<1>4. ASSUME NEW i \in 1..(Len(x) + 1) PROVE MarksBefore(y, i) = MarksBefore(x, i)
  <2>1. i \in Nat /\ \A j \in 1..(i - 1) : j \in 1..Len(x)
    BY <1>2
  <2>2. \A j \in 1..(i - 1) : y[j] = x[j]
    BY <1>1, <2>1
  <2> QED
    BY <2>1, <2>2, MarksBeforeAgree
<1>5. Len(x) + 1 \in Nat \ {0} /\ Len(x) + 1 \in 1..(Len(x) + 1)
  BY <1>2
<1>6. Cardinality(MarksBefore(y, Len(x) + 1)) = n
  BY <1>4, <1>5 DEF Counts
<1>7. Cardinality(MarksBefore(y, (Len(x) + 1) + 1)) = IF c \in Marks THEN n + 1 ELSE n
  BY <1>1, <1>5, <1>6, MarksBeforeFacts
<1>8. ASSUME NEW i \in DOMAIN y, y[i] \in Marks PROVE y[i] = Mark(Cardinality(MarksBefore(y, i)))
  <2>1. CASE i = Len(x) + 1
    BY <1>1, <1>6, <1>8, <2>1
  <2>2. CASE i # Len(x) + 1
    <3>1. i \in 1..Len(x) /\ i \in 1..(Len(x) + 1)
      BY <1>2, <1>3, <2>2
    <3> QED
      BY <1>1, <1>2, <1>4, <1>8, <3>1 DEF Counts, InOrder
  <2> QED
    BY <2>1, <2>2
<1>9. Cardinality(MarksBefore(y, Len(y) + 1)) = IF c \in Marks THEN n + 1 ELSE n
  BY <1>1, <1>7
<1> QED
  BY <1>8, <1>9 DEF Counts, InOrder, y

LEMMA CountsPlain ==
  ASSUME NEW A, NEW x \in Seq(A), NEW n, Counts(x, n), NEW w \in Seq(A),
         \A i \in DOMAIN w : w[i] \notin Marks
  PROVE  Counts(x \o w, n)
<1> DEFINE y == x \o w
<1>1. /\ y \in Seq(A) /\ Len(y) = Len(x) + Len(w)
      /\ \A i \in 1..(Len(x) + Len(w)) : y[i] = IF i <= Len(x) THEN x[i] ELSE w[i - Len(x)]
  BY ConcatProperties
<1>2. Len(x) \in Nat /\ DOMAIN x = 1..Len(x) /\ Len(w) \in Nat /\ DOMAIN w = 1..Len(w)
  BY SeqFacts
<1> HIDE DEF y
<1>3. DOMAIN y = 1..Len(y)
  BY <1>1, SeqFacts
<1>4. \A i \in 1..Len(y) : IF i \in 1..Len(x) THEN y[i] = x[i] ELSE y[i] \notin Marks
  <2>1. SUFFICES ASSUME NEW i \in 1..Len(y), i \notin 1..Len(x) PROVE y[i] \notin Marks
    BY <1>1, <1>2
  <2>2. i - Len(x) \in DOMAIN w /\ y[i] = w[i - Len(x)]
    BY <1>1, <1>2, <2>1
  <2> QED
    BY <2>2
<1>5. ASSUME NEW i \in 1..(Len(x) + 1) PROVE MarksBefore(y, i) = MarksBefore(x, i)
  <2>1. i \in Nat /\ \A j \in 1..(i - 1) : j \in 1..Len(x) /\ j \in 1..Len(y)
    BY <1>1, <1>2
  <2>2. \A j \in 1..(i - 1) : y[j] = x[j]
    BY <1>4, <2>1
  <2> QED
    BY <2>1, <2>2, MarksBeforeAgree
<1>6. MarksBefore(y, Len(y) + 1) = MarksBefore(y, Len(x) + 1)
  <2>1. /\ \A i : i \in 1..((Len(y) + 1) - 1) <=> i \in 1..Len(y)
        /\ \A i : i \in 1..((Len(x) + 1) - 1) <=> i \in 1..Len(x)
        /\ \A i \in 1..Len(x) : i \in 1..Len(y)
    BY <1>1, <1>2
  <2> QED
    BY <1>4, <2>1 DEF MarksBefore
<1>7. Cardinality(MarksBefore(y, Len(y) + 1)) = n
  <2>1. Len(x) + 1 \in 1..(Len(x) + 1)
    BY <1>2
  <2> QED
    BY <1>5, <1>6, <2>1 DEF Counts
<1>8. ASSUME NEW i \in DOMAIN y, y[i] \in Marks PROVE y[i] = Mark(Cardinality(MarksBefore(y, i)))
  <2>1. i \in 1..Len(x) /\ y[i] = x[i]
    BY <1>3, <1>4, <1>8
  <2>2. i \in 1..(Len(x) + 1)
    BY <1>2, <2>1
  <2> QED
    BY <1>2, <1>5, <1>8, <2>1, <2>2 DEF Counts, InOrder
<1> QED
  BY <1>7, <1>8 DEF Counts, InOrder, y

LEMMA CountsNone ==
  ASSUME NEW A, NEW w \in Seq(A), \A i \in DOMAIN w : w[i] \notin Marks
  PROVE  Counts(w, 0)
<1>1. Len(w) \in Nat /\ DOMAIN w = 1..Len(w)
  BY SeqFacts
<1>2. MarksBefore(w, Len(w) + 1) = {}
  BY <1>1 DEF MarksBefore
<1> QED
  BY <1>2, FS_EmptySet DEF Counts, InOrder

LEMMA ThreeParts ==
  ASSUME NEW A, NEW o \in Seq(A), NEW q \in Seq(A), NEW w \in Seq(A)
  PROVE  (o \o q) \o w = o \o (q \o w) /\ (o \o q) \o w \in Seq(A)
<1>1. (o \o q) \o w = o \o (q \o w)
  BY ConcatAssociative
<1>2. PICK x : x = o \o q
  OBVIOUS
<1>3. x \in Seq(A)
  BY <1>2
<1>4. x \o w \in Seq(A)
  BY <1>3
<1> QED
  BY <1>1, <1>2, <1>4

LEMMA FourParts ==
  ASSUME NEW A, NEW o \in Seq(A), NEW q \in Seq(A), NEW w \in Seq(A), NEW c \in A
  PROVE  o \o (q \o (w \o <<c>>)) = (o \o (q \o w)) \o <<c>>
<1>1. PICK d : d = <<c>>
  OBVIOUS
<1>2. PICK r : r = q \o w
  OBVIOUS
<1>3. d \in Seq(A)
  BY <1>1
<1>4. r \in Seq(A)
  BY <1>2
<1>5. q \o (w \o d) = r \o d
  BY <1>2, <1>3, ConcatAssociative
<1>6. (o \o r) \o d = o \o (r \o d)
  BY <1>3, <1>4, ConcatAssociative
<1>7. o \o (q \o (w \o d)) = (o \o r) \o d
  BY <1>5, <1>6
<1> QED
  BY <1>1, <1>2, <1>7

LEMMA InsertInOrder ==
  ASSUME NEW t \in Seq(Alphabet), NEW m, Room(t, m), m = "text" \/ t \in Seq(Alphabet \ Marks)
  PROVE  InOrder(insert_index_marks(t, m))
<1> DEFINE o  == IF m = "text" THEN <<"<speak>">> ELSE <<>>
           ss == Marked(t, m)
           N(i) == Cardinality(EndsBefore(t, i, m))
<1>0. Len(t) \in Nat /\ DOMAIN t = 1..Len(t)
  BY SeqFacts
<1>1. o \in Seq(Alphabet) /\ \A i \in DOMAIN o : o[i] \notin Marks
  <2>1. CASE m = "text"
    <3>1. <<"<speak>">> \in Seq(Alphabet) /\ <<"<speak>">>[1] = "<speak>"
          /\ \A i \in DOMAIN <<"<speak>">> : i = 1
      BY AlphabetFacts, OneElement
    <3>2. o = <<"<speak>">> /\ "<speak>" \notin Marks
      BY <2>1, AlphabetFacts
    <3> QED
      BY <3>1, <3>2
  <2>2. CASE m # "text"
    <3>1. o = <<>>
      BY <2>2
    <3> HIDE DEF o
    <3>2. o \in Seq(Alphabet) /\ DOMAIN o = {}
      BY <3>1
    <3> QED
      BY <3>2
  <2> QED
    BY <2>1, <2>2
<1>2. ss \in Seq(Seq(Alphabet)) /\ Len(ss) = Len(t)
  BY MarkedFacts
<1>3. ASSUME NEW i \in DOMAIN t
      PROVE  \E w \in Seq(Alphabet) :
                /\ \A j \in DOMAIN w : w[j] \notin Marks
                /\ IF EndsSentence(t, i, m) THEN ss[i] = Append(w, Mark(N(i))) ELSE ss[i] = w
  <2> DEFINE w == Markup(t, i, m)
  <2>1. IsMarkup(w, t, i, m)
    BY MarkupFacts
  <2>2. w \in Seq(Alphabet) /\ \A j \in DOMAIN w : w[j] \in Marks => m # "text" /\ j = 1
    BY <2>1 DEF IsMarkup
  <2>3. ASSUME m # "text" PROVE w[1] \notin Marks
    <3>1. w = <<t[i]>> /\ t \in Seq(Alphabet \ Marks)
      BY <2>3 DEF Markup
    <3>2. t[i] \notin Marks
      BY <3>1
    <3> QED
      BY <3>1, <3>2
  <2>4. IF EndsSentence(t, i, m) THEN ss[i] = Append(w, Mark(N(i))) ELSE ss[i] = w
    BY MarkedFacts
  <2> HIDE DEF w, ss, N
  <2>5. \A j \in DOMAIN w : w[j] \notin Marks
    BY <2>2, <2>3
  <2> QED
    BY <2>2, <2>4, <2>5
<1>4. PICK P : IsJoin(P, Alphabet, ss)
  BY <1>2, JoinExists
<1>5. /\ P \in [0..Len(t) -> Seq(Alphabet)] /\ P[0] = <<>>
      /\ \A i \in 1..Len(t) : P[i] = P[i - 1] \o ss[i]
      /\ FlattenSeq(ss) = P[Len(t)]
  BY <1>2, <1>4 DEF IsJoin
<1>6. insert_index_marks(t, m) = IF m = "text" THEN o \o P[Len(t)] \o <<"</speak>">>
                                 ELSE P[Len(t)]
  BY <1>5, InsertIsMarked
<1>7. m # "text" => o = <<>>
  OBVIOUS
<1>8. \A i \in DOMAIN t :
         /\ N(i) \in Nat
         /\ EndsSentence(t, i, m) => Mark(N(i)) \in Marks /\ N(i + 1) = N(i) + 1
         /\ ~EndsSentence(t, i, m) => N(i + 1) = N(i)
  <2> SUFFICES ASSUME NEW i \in DOMAIN t
               PROVE  /\ N(i) \in Nat
                      /\ EndsSentence(t, i, m) => Mark(N(i)) \in Marks /\ N(i + 1) = N(i) + 1
                      /\ ~EndsSentence(t, i, m) => N(i + 1) = N(i)
    OBVIOUS
  <2>1. i \in DOMAIN t
    OBVIOUS
  <2> QED
    BY <2>1, NumberFacts
<1>9. N(1) = 0
  <2>1. EndsBefore(t, 1, m) = {}
    BY DEF EndsBefore
  <2> QED
    BY <2>1, FS_EmptySet
<1> HIDE DEF o, ss, N
<1> DEFINE I == {i \in 0..Len(t) : Counts(o \o P[i], N(i + 1))}
<1>10. 0 \in I
  <2>1. Counts(o, 0)
    BY <1>1, CountsNone
  <2>2. o \o P[0] = o
    BY <1>1, <1>5, ConcatEmptySeq
  <2>3. N(0 + 1) = 0 /\ 0 \in 0..Len(t)
    BY <1>0, <1>9
  <2> QED
    BY <2>1, <2>2, <2>3
<1>11. ASSUME NEW i \in 1..Len(t), i - 1 \in I PROVE i \in I
  <2>1. i \in 0..Len(t) /\ i - 1 \in 0..Len(t) /\ i \in DOMAIN t /\ (i - 1) + 1 = i
    BY <1>0
  <2> DEFINE q == P[i - 1]
             x == o \o q
  <2>2. Counts(x, N(i))
    BY <1>11, <2>1
  <2>3. q \in Seq(Alphabet) /\ P[i] = q \o ss[i]
    BY <1>5, <2>1
  <2> HIDE DEF q
  <2>4. x \in Seq(Alphabet)
    BY <1>1, <2>3
  <2>5. PICK w \in Seq(Alphabet) :
           /\ \A j \in DOMAIN w : w[j] \notin Marks
           /\ IF EndsSentence(t, i, m) THEN ss[i] = Append(w, Mark(N(i))) ELSE ss[i] = w
    BY <1>3, <2>1
  <2> DEFINE z == x \o w
  <2>6. z = o \o (q \o w) /\ z \in Seq(Alphabet)
    <3>1. o \in Seq(Alphabet) /\ q \in Seq(Alphabet) /\ w \in Seq(Alphabet)
      BY <1>1, <2>3
    <3>2. (o \o q) \o w = o \o (q \o w) /\ (o \o q) \o w \in Seq(Alphabet)
      BY <3>1, ThreeParts
    <3> QED
      BY <3>2
  <2> HIDE DEF x
  <2>7. Counts(z, N(i))
    BY <2>2, <2>4, <2>5, CountsPlain
  <2>8. CASE EndsSentence(t, i, m)
    <3> DEFINE c == Mark(N(i))
    <3>1. c \in Marks /\ c \in Alphabet /\ N(i + 1) = N(i) + 1
      BY <1>8, <2>1, <2>8, AlphabetFacts
    <3>2. ss[i] = Append(w, c)
      BY <2>5, <2>8
    <3>3. o \o P[i] = Append(z, c)
      <4> HIDE DEF z, c
      <4>1. ss[i] = w \o <<c>>
        BY <2>5, <3>1, <3>2, AppendFacts
      <4>2. o \o (q \o (w \o <<c>>)) = (o \o (q \o w)) \o <<c>>
        <5>1. o \in Seq(Alphabet) /\ q \in Seq(Alphabet) /\ w \in Seq(Alphabet) /\ c \in Alphabet
          BY <1>1, <2>3, <3>1
        <5> QED
          BY <5>1, FourParts
      <4>3. Append(z, c) = z \o <<c>>
        BY <2>6, <3>1, AppendFacts
      <4> QED
        BY <2>3, <2>6, <4>1, <4>2, <4>3, Zenon
    <3> HIDE DEF z
    <3>4. Counts(Append(z, c), N(i) + 1)
      BY <2>6, <2>7, <3>1, CountsAppend
    <3>5. Counts(o \o P[i], N(i + 1))
      BY <3>1, <3>3, <3>4
    <3> QED
      BY <2>1, <3>5
  <2>9. CASE ~EndsSentence(t, i, m)
    <3>1. o \o P[i] = z /\ N(i + 1) = N(i)
      BY <1>8, <2>1, <2>3, <2>5, <2>6, <2>9
    <3> QED
      BY <2>1, <2>7, <3>1
  <2> QED
    BY <2>8, <2>9
<1> HIDE DEF I
<1>12. \A i \in 0..Len(t) : i \in I
  BY <1>0, <1>10, <1>11, UpTo
<1>13. Counts(o \o P[Len(t)], N(Len(t) + 1)) /\ P[Len(t)] \in Seq(Alphabet)
  <2>1. Len(t) \in I /\ Len(t) \in 0..Len(t)
    BY <1>0, <1>12
  <2> QED
    BY <1>5, <2>1 DEF I
<1>14. CASE m = "text"
  <2> DEFINE c == <<"</speak>">>
             x == o \o P[Len(t)]
  <2>1. c \in Seq(Alphabet) /\ \A i \in DOMAIN c : c[i] \notin Marks
    <3>1. c \in Seq(Alphabet) /\ c[1] = "</speak>" /\ \A i \in DOMAIN c : i = 1
      BY AlphabetFacts, OneElement
    <3>2. "</speak>" \notin Marks
      BY AlphabetFacts
    <3> HIDE DEF c
    <3> QED
      BY <3>1, <3>2
  <2>2. x \in Seq(Alphabet) /\ Counts(x, N(Len(t) + 1))
    BY <1>1, <1>13
  <2>3. insert_index_marks(t, m) = x \o c
    BY <1>6, <1>14
  <2> HIDE DEF c, x
  <2>4. Counts(x \o c, N(Len(t) + 1))
    BY <2>1, <2>2, CountsPlain
  <2> QED
    BY <2>3, <2>4 DEF Counts
<1>15. CASE m # "text"
  <2>1. o \o P[Len(t)] = P[Len(t)]
    BY <1>7, <1>13, <1>15, ConcatEmptySeq
  <2>2. insert_index_marks(t, m) = P[Len(t)]
    BY <1>6, <1>15
  <2> QED
    BY <1>13, <2>1, <2>2 DEF Counts
<1> QED
  BY <1>14, <1>15

\* Dots are doubled, the marks stay in their order.
LEMMA escape_dotInOrder ==
  ASSUME NEW t \in Seq(Alphabet), InOrder(t)
  PROVE  InOrder(escape_dot(t))
<1> DEFINE ss == Escaped(t)
           N(i) == Cardinality(MarksBefore(t, i))
<1>0. Len(t) \in Nat /\ DOMAIN t = 1..Len(t) /\ \A i \in 1..Len(t) : t[i] \in Alphabet
  BY SeqFacts
<1>1. ss \in Seq(Seq(Alphabet)) /\ Len(ss) = Len(t)
  BY EscapedFacts
<1>2. \A i \in DOMAIN t : ss[i] = <<t[i]>> \/ (t[i] = "." /\ ss[i] = <<t[i], ".">>)
  BY EscapedFacts
<1>3. escape_dot(t) = FlattenSeq(ss)
  BY EscapeIsFlatten
<1> HIDE DEF ss
<1>4. PICK P : IsJoin(P, Alphabet, ss)
  BY <1>1, JoinExists
<1>5. /\ P \in [0..Len(t) -> Seq(Alphabet)] /\ P[0] = <<>>
      /\ \A i \in 1..Len(t) : P[i] = P[i - 1] \o ss[i]
      /\ FlattenSeq(ss) = P[Len(t)]
  BY <1>1, <1>4 DEF IsJoin
<1>6. \A i \in 1..Len(t) : N(i + 1) = IF t[i] \in Marks THEN N(i) + 1 ELSE N(i)
  <2>1. \A i \in 1..Len(t) : i \in Nat \ {0}
    BY <1>0
  <2> QED
    BY <2>1, MarksBeforeFacts
<1>7. N(1) = 0
  <2>1. MarksBefore(t, 1) = {}
    BY DEF MarksBefore
  <2> QED
    BY <2>1, FS_EmptySet
<1>8. \A i \in 1..Len(t) : t[i] \in Marks => t[i] = Mark(N(i))
  BY <1>0 DEF InOrder
<1> HIDE DEF N
<1> DEFINE I == {i \in 0..Len(t) : Counts(P[i], N(i + 1))}
<1>10. 0 \in I
  <2>1. N(0 + 1) = 0 /\ 0 \in 0..Len(t)
    BY <1>0, <1>7
  <2>2. P[0] \in Seq(Alphabet) /\ DOMAIN P[0] = {}
    BY <1>5
  <2>3. Counts(P[0], 0)
    BY <2>2, CountsNone
  <2> QED
    BY <2>1, <2>3
<1>11. ASSUME NEW i \in 1..Len(t), i - 1 \in I PROVE i \in I
  <2>1. i \in 0..Len(t) /\ i - 1 \in 0..Len(t) /\ i \in DOMAIN t /\ (i - 1) + 1 = i
    BY <1>0
  <2> DEFINE q == P[i - 1]
             c == t[i]
  <2>2. Counts(q, N(i)) /\ q \in Seq(Alphabet)
    BY <1>5, <1>11, <2>1
  <2>3. P[i] = q \o ss[i] /\ c \in Alphabet /\ (c \in Marks => c = Mark(N(i)))
    BY <1>0, <1>5, <1>8
  <2>4. N(i + 1) = IF c \in Marks THEN N(i) + 1 ELSE N(i)
    BY <1>6
  <2>5. ss[i] = <<c>> \/ (c = "." /\ ss[i] = <<c, ".">>)
    BY <1>2, <2>1
  <2> HIDE DEF q, c, I
  <2>6. CASE ss[i] = <<c>>
    <3>1. P[i] = q \o <<c>>
      BY <2>3, <2>6, Zenon
    <3>2. Append(q, c) = q \o <<c>>
      BY <2>2, <2>3, AppendFacts
    <3>3. Counts(Append(q, c), IF c \in Marks THEN N(i) + 1 ELSE N(i))
      BY <2>2, <2>3, CountsAppend
    <3>4. Counts(P[i], N(i + 1))
      BY <2>4, <3>1, <3>2, <3>3, Zenon
    <3> QED
      BY <2>1, <3>4 DEF I
  <2>7. CASE c = "." /\ ss[i] = <<c, ".">>
    <3> DEFINE w == <<c, ".">>
    <3>1. c \notin Marks
      BY <2>7, AlphabetFacts
    <3>2. w \in Seq(Alphabet) /\ \A j \in DOMAIN w : w[j] \in {c, "."}
      BY <2>3, AlphabetFacts, TwoElements
    <3> HIDE DEF w
    <3>3. \A j \in DOMAIN w : w[j] \notin Marks
      BY <2>7, <3>1, <3>2
    <3>4. Counts(q \o w, N(i))
      BY <2>2, <3>2, <3>3, CountsPlain
    <3>5. Counts(P[i], N(i + 1))
      BY <2>3, <2>4, <2>7, <3>1, <3>4 DEF w
    <3> QED
      BY <2>1, <3>5 DEF I
  <2> QED
    BY <2>5, <2>6, <2>7
<1> HIDE DEF I
<1>12. \A i \in 0..Len(t) : i \in I
  BY <1>0, <1>10, <1>11, UpTo
<1>13. Len(t) \in I
  BY <1>0, <1>12
<1> QED
  BY <1>3, <1>5, <1>13 DEF I, Counts

LEMMA CleanInOrder ==
  ASSUME NEW t \in Seq(Alphabet), InOrder(t), Clean(t, Marks)
  PROVE  Numbered(t)
<1>1. \A i \in DOMAIN t : i \in Nat
  BY SeqFacts
<1>2. ASSUME NEW i \in DOMAIN t, t[i] \in Marks PROVE ~InsideTag(t, i)
  BY <1>1, <1>2, InsideIsOpen DEF Clean
<1> QED
  BY <1>2 DEF Numbered, InOrder

\* A plain text has no tag but those the server writes.
LEMMA InsertNoTag ==
  ASSUME NEW t \in Seq(Alphabet), Room(t, "text")
  PROVE  insert_index_marks(t, "text") \in Seq(Alphabet \ {"<"})
<1> DEFINE A  == Alphabet \ {"<"}
           ss == Marked(t, "text")
           o  == <<"<speak>">>
           e  == <<"</speak>">>
<1>0. Len(t) \in Nat /\ DOMAIN t = 1..Len(t)
  BY SeqFacts
<1>1. insert_index_marks(t, "text") = o \o FlattenSeq(ss) \o e
  BY InsertIsMarked
<1>2. "<speak>" \in A /\ "</speak>" \in A
  BY AlphabetFacts
<1>3. o \in Seq(A) /\ e \in Seq(A)
  <2> HIDE DEF A
  <2> QED
    BY <1>2, OneElement
<1>4. ss \in Seq(Seq(Alphabet)) /\ Len(ss) = Len(t)
  BY MarkedFacts
<1>5. ASSUME NEW i \in DOMAIN t PROVE ss[i] \in Seq(A)
  <2> DEFINE w == Markup(t, i, "text")
             c == Mark(Cardinality(EndsBefore(t, i, "text")))
  <2>1. w \in Seq(Alphabet) /\ \A j \in DOMAIN w : w[j] # "<"
    BY MarkupFacts DEF IsMarkup
  <2>2. IF EndsSentence(t, i, "text") THEN c \in Marks /\ ss[i] = Append(w, c) ELSE ss[i] = w
    BY MarkedFacts
  <2>3. c \in Marks => c \in A
    BY AlphabetFacts
  <2> HIDE DEF w, c, ss
  <2>4. w \in Seq(A)
    <3>1. Len(w) \in Nat /\ DOMAIN w = 1..Len(w)
      BY <2>1, SeqFacts
    <3>2. \A j \in 1..Len(w) : w[j] \in A
      BY <2>1, <3>1
    <3> HIDE DEF A
    <3>3. w = [j \in 1..Len(w) |-> w[j]]
      BY <2>1
    <3> QED
      BY <3>1, <3>2, <3>3
  <2> HIDE DEF A
  <2>5. c \in Marks => Append(w, c) \in Seq(A)
    BY <2>3, <2>4, AppendFacts
  <2> QED
    BY <2>2, <2>4, <2>5
<1> HIDE DEF ss, o, e, A
<1>6. ss \in Seq(Seq(A))
  <2>1. ss = [j \in 1..Len(t) |-> ss[j]]
    BY <1>4
  <2>2. ss \in [1..Len(t) -> Seq(A)]
    BY <1>0, <1>5, <2>1
  <2> QED
    BY <1>0, <2>2
<1>7. FlattenSeq(ss) \in Seq(A)
  BY <1>6, FlattenType
<1>8. o \o FlattenSeq(ss) \o e \in Seq(A)
  BY <1>3, <1>7
<1> QED
  BY <1>1, <1>8 DEF A

LEMMA NoTagClean ==
  ASSUME NEW t \in Seq(Alphabet \ {"<"}), NEW S
  PROVE  t \in Seq(Alphabet) /\ Clean(t, S)
<1>1. DOMAIN t = 1..Len(t) /\ Len(t) \in Nat /\ \A i \in 1..Len(t) : t[i] # "<"
  OBVIOUS
<1>2. ASSUME NEW i \in DOMAIN t PROVE ~Open(t, i - 1)
  <2>1. \A j \in 1..(i - 1) : j \in 1..Len(t)
    BY <1>1
  <2> QED
    BY <1>1, <2>1 DEF Open
<1> QED
  BY <1>2 DEF Clean

-----------------------------------------------------------------------------
(***************************************************************************)
(* The invariant.                                                          *)
(***************************************************************************)

TextsTypes ==
  /\ mode \in {"text", "ssml"}
  /\ text \in Seq(Chars) /\ buf \in Seq(Alphabet)
  /\ stage \in {"client", "lines", "queued", "marked", "received", "spoken", "paused", "lost"}
  /\ index_mark \in Int /\ resumes \in Nat /\ spoiled \in BOOLEAN

\* The text on its way to the server.
Sent ==
  /\ stage = "client" => buf = text
  /\ stage = "lines" => buf = EscapeDots(text) \o <<"crlf", ".", "crlf">>

\* No dot of SSML is in a tag once the server has it, and none ends a line once
\* the marks are in: what the module reads has a lone dot only at its end.
Undotted ==
  ~RawDots =>
    /\ stage \notin {"client", "lines"} /\ mode = "ssml" => Clean(buf, {"."})
    /\ stage = "marked" => NoDotLine(buf)

\* The marks of a message that is sent again are those of this time: those of
\* the last time are gone, unless nothing was cut off it.
Orderly == ~spoiled /\ (mode = "ssml" => index_mark # -1 \/ resumes = 0)
Ordered ==
  /\ stage = "queued" /\ Orderly => buf \in Seq(Alphabet \ Marks)
  /\ stage \in {"marked", "received"} /\ Orderly => InOrder(buf) /\ Clean(buf, Marks)
  /\ stage = "paused" /\ ~spoiled => mode = "ssml" \/ index_mark # -1

TextsInv == TextsTypes /\ Sent /\ Undotted /\ Ordered /\ StaysInStep

\* SSML of which ~RawDots holds.
LEMMA TextClean ==
  ASSUME TextsTypes, mode = "ssml", ~RawDots
  PROVE  Clean(text, {"."})
<1>1. Len(text) \in Nat /\ DOMAIN text = 1..Len(text) /\ \A i \in 1..Len(text) : text[i] \in Chars
  BY SeqFacts DEF TextsTypes
<1>2. ASSUME NEW i \in DOMAIN text, text[i] = ".", Open(text, i - 1) PROVE FALSE
  <2>1. PICK j \in 1..(i - 1) :
           text[j] = "<" /\ \A k \in (j + 1)..(i - 1) : text[k] \notin Closers
    BY <1>2 DEF Open
  <2>2. \A k \in (j + 1)..(i - 1) : k \in 1..Len(text)
    BY <1>1, <2>1
  <2>3. \A k \in (j + 1)..(i - 1) : text[k] \notin {">"} \cup Tags
    BY <1>1, <2>1, <2>2, AlphabetFacts DEF Closers
  <2>4. InsideTag(text, i)
    BY <2>1, <2>3 DEF InsideTag
  <2> QED
    BY <1>2, <2>4 DEF RawDots
<1> QED
  BY <1>2 DEF Clean

LEMMA NoMarkClean ==
  ASSUME NEW t \in Seq(Alphabet \ Marks)
  PROVE  t \in Seq(Alphabet) /\ Clean(t, Marks)
<1>1. DOMAIN t = 1..Len(t) /\ \A i \in 1..Len(t) : t[i] \notin Marks
  OBVIOUS
<1> QED
  BY <1>1 DEF Clean

LEMMA SameText ==
  ASSUME UNCHANGED <<mode, text>>
  PROVE  RawDots' <=> RawDots
BY DEF RawDots, InsideTag, StartsLine

LEMMA TextsInitial == TextsInit => TextsInv
<1> SUFFICES ASSUME TextsInit PROVE TextsInv
  OBVIOUS
<1>0. /\ mode \in Modes /\ stage = "client" /\ buf = text /\ leftover = <<>>
      /\ index_mark = -1 /\ resumes = 0 /\ spoiled = FALSE
  BY DEF TextsInit
<1>1. PICK n \in 0..MaxLength : text \in [1..n -> Chars]
  BY DEF TextsInit
<1>2. text \in Seq(Chars)
  <2>1. n \in Nat
    BY <1>1
  <2> QED
    BY <1>1, <2>1
<1>3. mode \in {"text", "ssml"} /\ Chars \subseteq Alphabet
  BY <1>0, TextsAssumption, AlphabetFacts
<1>4. buf \in Seq(Alphabet)
  BY <1>0, <1>2, <1>3
<1>5. TextsTypes
  <2>1. index_mark \in Int /\ resumes \in Nat /\ spoiled \in BOOLEAN
    <3>1. index_mark \in Int /\ resumes \in Nat
      <4>1. index_mark = -1 /\ resumes = 0
        BY <1>0, Zenon
      <4> QED
        BY <4>1
    <3>2. spoiled \in BOOLEAN
      BY <1>0, Zenon
    <3> QED
      BY <3>1, <3>2, Zenon
  <2>2. stage \in {"client", "lines", "queued", "marked", "received", "spoken", "paused", "lost"}
    BY <1>0
  <2> QED
    BY <1>2, <1>3, <1>4, <2>1, <2>2, Zenon DEF TextsTypes
<1> QED
  BY <1>0, <1>5 DEF TextsInv, Sent, Undotted, Ordered, StaysInStep

LEMMA LineEnd ==
  ASSUME NEW A, {".", "crlf"} \subseteq A, NEW e \in Seq(A)
  PROVE  e \o <<"crlf", ".", "crlf">> \in Seq(A)
<1> DEFINE d == <<"crlf", ".", "crlf">>
<1>1. d \in Seq(A)
  BY ThreeElements
<1> HIDE DEF d
<1>2. e \o d \in Seq(A)
  BY <1>1
<1> QED
  BY <1>2 DEF d

\* What the client library makes of the text.
LEMMA EscapedText ==
  ASSUME TextsTypes, NEW A, {".", "crlf"} \subseteq A, Chars \subseteq A
  PROVE  /\ EscapeDots(text) \in Seq(A)
         /\ Clean(text, Marks) /\ Clean(EscapeDots(text), Marks)
         /\ mode = "ssml" /\ ~RawDots => Clean(EscapeDots(text), {"."})
<1>1. Len(text) \in Nat /\ DOMAIN text = 1..Len(text) /\ \A i \in 1..Len(text) : text[i] \in Chars
  BY SeqFacts DEF TextsTypes
<1>2. Clean(text, Marks)
  <2>1. \A i \in DOMAIN text : text[i] \notin Marks
    BY <1>1, AlphabetFacts DEF Tags
  <2> QED
    BY <2>1 DEF Clean
<1>3. text \in Seq(A)
  BY DEF TextsTypes
<1>4. EscapeDots(text) \in Seq(A) /\ Clean(EscapeDots(text), Marks)
  <2>1. Marks \in {{"."}, Marks}
    OBVIOUS
  <2> QED
    BY <1>2, <1>3, <2>1, EscapeDotsClean
<1>5. ASSUME mode = "ssml", ~RawDots PROVE Clean(EscapeDots(text), {"."})
  <2>1. {"."} \in {{"."}, Marks} /\ Clean(text, {"."})
    BY <1>5, TextClean
  <2> QED
    BY <1>3, <2>1, EscapeDotsClean
<1> QED
  BY <1>2, <1>4, <1>5

LEMMA InvSpdSay == TextsInv /\ spd_say => TextsInv'
<1> SUFFICES ASSUME TextsInv, spd_say PROVE TextsInv'
  OBVIOUS
<1>1. /\ stage = "client" /\ stage' = "lines" /\ buf = text
      /\ buf' = EscapeDots(text) \o <<"crlf", ".", "crlf">>
  BY DEF spd_say, Step, TextsInv, Sent
<1>2. UNCHANGED <<mode, text, received, leftover, index_mark, heard, resumes, spoiled>>
  BY DEF spd_say, Step
<1>3. RawDots' <=> RawDots
  BY <1>2, SameText
<1>4. EscapeDots(text) \in Seq(Alphabet)
  BY EscapedText, AlphabetFacts DEF TextsInv
<1>5. buf' \in Seq(Alphabet)
  BY <1>1, <1>4, LineEnd, AlphabetFacts
<1>6. TextsTypes'
  BY <1>1, <1>2, <1>5 DEF TextsInv, TextsTypes
<1>7. Sent'
  <2>1. EscapeDots(text)' = EscapeDots(text)
    BY <1>2
  <2> QED
    BY <1>1, <2>1 DEF Sent
<1>8. Undotted' /\ Ordered'
  BY <1>1 DEF Undotted, Ordered
<1>9. StaysInStep'
  BY <1>2, <1>3 DEF TextsInv, StaysInStep
<1> QED
  BY <1>6, <1>7, <1>8, <1>9 DEF TextsInv

LEMMA InvParse == TextsInv /\ parse => TextsInv'
<1> SUFFICES ASSUME TextsInv, parse PROVE TextsInv'
  OBVIOUS
<1> DEFINE e == EscapeDots(text)
           d == DataOf(buf)
           A == Alphabet \ Marks
<1>1. /\ stage = "lines" /\ stage' = "queued" /\ buf = e \o <<"crlf", ".", "crlf">>
      /\ buf' = deescape_dot(d)
  BY DEF parse, Step, TextsInv, Sent
<1>2. UNCHANGED <<mode, text, received, leftover, index_mark, heard, resumes, spoiled>>
  BY DEF parse, Step
<1>3. RawDots' <=> RawDots
  BY <1>2, SameText
<1>4. {".", "crlf"} \subseteq A /\ Chars \subseteq A
  BY AlphabetFacts DEF Tags
<1> HIDE DEF A
<1>5. /\ e \in Seq(A) /\ Clean(e, Marks)
      /\ mode = "ssml" /\ ~RawDots => Clean(e, {"."})
  BY <1>4, EscapedText DEF TextsInv
<1> HIDE DEF e, d
<1>6. d \in Seq(A)
  <2>1. Marks \in {{"."}, Marks}
    OBVIOUS
  <2> QED
    BY <1>1, <1>4, <1>5, <2>1, DataOfClean DEF d
<1>7. buf' \in Seq(A)
  <2>1. Clean(d, {})
    BY DEF Clean
  <2> QED
    BY <1>1, <1>6, <2>1, deescape_dotClean
<1>8. ASSUME mode = "ssml", ~RawDots PROVE Clean(buf', {"."})
  <2>1. {"."} \in {{"."}, Marks}
    OBVIOUS
  <2>2. Clean(d, {"."})
    BY <1>1, <1>4, <1>5, <1>8, <2>1, DataOfClean DEF d
  <2> QED
    BY <1>1, <1>6, <2>2, deescape_dotClean
<1>9. buf' \in Seq(Alphabet)
  BY <1>7, NoMarkClean DEF A
<1>10. TextsTypes'
  BY <1>1, <1>2, <1>9 DEF TextsInv, TextsTypes
<1>11. Sent' /\ Ordered'
  BY <1>1, <1>7 DEF Sent, Ordered, A
<1>12. Undotted'
  BY <1>1, <1>2, <1>3, <1>8 DEF Undotted
<1>13. StaysInStep'
  BY <1>2, <1>3 DEF TextsInv, StaysInStep
<1> QED
  BY <1>10, <1>11, <1>12, <1>13 DEF TextsInv

LEMMA InvSpeak == TextsInv /\ speak => TextsInv'
<1> SUFFICES ASSUME TextsInv, speak PROVE TextsInv'
  OBVIOUS
<1>1. /\ stage = "queued" /\ stage' = "marked" /\ Room(buf, mode)
      /\ buf' = insert_index_marks(buf, mode)
  BY DEF speak, Step, Room
<1>2. UNCHANGED <<mode, text, received, leftover, index_mark, heard, resumes, spoiled>>
  BY DEF speak, Step
<1>3. RawDots' <=> RawDots
  BY <1>2, SameText
<1>4. buf \in Seq(Alphabet) /\ mode \in {"text", "ssml"}
  BY DEF TextsInv, TextsTypes
<1>5. buf' \in Seq(Alphabet)
  BY <1>1, <1>4, InsertType
<1>6. TextsTypes'
  BY <1>1, <1>2, <1>5 DEF TextsInv, TextsTypes
<1>7. ASSUME ~RawDots PROVE (mode = "ssml" => Clean(buf', {"."})) /\ NoDotLine(buf')
  <2>1. mode = "ssml" => Clean(buf, {"."})
    BY <1>1, <1>7 DEF TextsInv, Undotted
  <2>2. NoDotLine(buf')
    BY <1>1, <1>4, <2>1, InsertNoDotLine
  <2>3. ASSUME mode = "ssml" PROVE Clean(buf', {"."})
    <3>1. {"."} \in {{"."}, Marks} /\ mode # "text" /\ {"."} # Marks
      BY <2>3, AlphabetFacts
    <3> QED
      BY <1>1, <1>4, <2>1, <2>3, <3>1, InsertClean
  <2> QED
    BY <2>2, <2>3
<1>8. ASSUME Orderly PROVE InOrder(buf') /\ Clean(buf', Marks)
  <2>1. buf \in Seq(Alphabet \ Marks)
    BY <1>1, <1>8 DEF TextsInv, Ordered
  <2>2. InOrder(buf')
    BY <1>1, <1>4, <2>1, InsertInOrder
  <2>3. CASE mode = "text"
    <3>1. buf' \in Seq(Alphabet \ {"<"})
      BY <1>1, <1>4, <2>3, InsertNoTag
    <3> QED
      BY <2>2, <3>1, NoTagClean
  <2>4. CASE mode = "ssml"
    <3>1. mode # "text" /\ Marks \in {{"."}, Marks} /\ Clean(buf, Marks)
      BY <2>1, <2>4, NoMarkClean
    <3>2. \A i \in DOMAIN buf : buf[i] \notin Marks
      BY <2>1
    <3>3. Clean(buf', Marks)
      BY <1>1, <1>4, <2>4, <3>1, <3>2, InsertClean
    <3> QED
      BY <2>2, <3>3
  <2> QED
    BY <1>4, <2>3, <2>4
<1>9. Orderly' <=> Orderly
  BY <1>2 DEF Orderly
<1>10. Sent' /\ Ordered'
  BY <1>1, <1>8, <1>9 DEF Sent, Ordered
<1>11. Undotted'
  BY <1>1, <1>2, <1>3, <1>7 DEF Undotted
<1>12. StaysInStep'
  BY <1>2, <1>3 DEF TextsInv, StaysInStep
<1> QED
  BY <1>6, <1>10, <1>11, <1>12 DEF TextsInv

LEMMA InvOutputSpeak == TextsInv /\ output_speak => TextsInv'
<1> SUFFICES ASSUME TextsInv, output_speak PROVE TextsInv'
  OBVIOUS
<1>1. /\ stage = "marked" /\ stage' = "received" /\ buf' = escape_dot(buf)
      /\ leftover' = do_message(escape_dot(buf) \o <<"lf", ".", "lf">>).rest
  BY DEF output_speak, Step
<1>2. UNCHANGED <<mode, text, index_mark, heard, resumes, spoiled>>
  BY DEF output_speak, Step
<1>3. RawDots' <=> RawDots
  BY <1>2, SameText
<1>4. buf \in Seq(Alphabet) /\ mode \in {"text", "ssml"}
  BY DEF TextsInv, TextsTypes
<1>5. buf' \in Seq(Alphabet)
  <2>1. escape_dot(buf) = FlattenSeq(Escaped(buf)) /\ Escaped(buf) \in Seq(Seq(Alphabet))
    BY <1>4, EscapedFacts, EscapeIsFlatten
  <2> QED
    BY <1>1, <2>1, FlattenType
<1>6. TextsTypes'
  BY <1>1, <1>2, <1>5 DEF TextsInv, TextsTypes
<1>7. ASSUME ~RawDots PROVE (mode = "ssml" => Clean(buf', {"."})) /\ leftover' = <<>>
  <2>1. NoDotLine(buf) /\ (mode = "ssml" => Clean(buf, {"."}))
    BY <1>1, <1>7 DEF TextsInv, Undotted
  <2>2. {"."} \in {{"."}, Marks}
    OBVIOUS
  <2>3. mode = "ssml" => Clean(buf', {"."})
    BY <1>1, <1>4, <2>1, <2>2, escape_dotClean
  <2>4. leftover' = <<>>
    BY <1>1, <1>4, <2>1, MarkedReadWhole
  <2> QED
    BY <2>3, <2>4
<1>8. ASSUME Orderly PROVE InOrder(buf') /\ Clean(buf', Marks)
  <2>1. InOrder(buf) /\ Clean(buf, Marks) /\ Marks \in {{"."}, Marks}
    BY <1>1, <1>8 DEF TextsInv, Ordered
  <2> QED
    BY <1>1, <1>4, <2>1, escape_dotInOrder, escape_dotClean
<1>9. Orderly' <=> Orderly
  BY <1>2 DEF Orderly
<1>10. Sent' /\ Ordered'
  BY <1>1, <1>8, <1>9 DEF Sent, Ordered
<1>11. Undotted' /\ StaysInStep'
  BY <1>1, <1>2, <1>3, <1>7 DEF Undotted, StaysInStep
<1> QED
  BY <1>6, <1>10, <1>11 DEF TextsInv

\* The steps of the module leave the text of the server alone.
LEMMA InvModule ==
  ASSUME TextsInv, stage = "received", stage' \in {"spoken", "paused"},
         UNCHANGED <<mode, text, buf, leftover, resumes>>,
         index_mark' \in Int, spoiled' \in BOOLEAN,
         stage' = "paused" /\ ~spoiled' => mode = "ssml" \/ index_mark' # -1
  PROVE  TextsInv'
<1>1. RawDots' <=> RawDots
  BY SameText
<1>2. TextsTypes'
  BY DEF TextsInv, TextsTypes
<1>3. Sent' /\ Ordered'
  BY DEF Sent, Ordered
<1>4. Undotted' /\ StaysInStep'
  BY <1>1 DEF TextsInv, Undotted, StaysInStep
<1> QED
  BY <1>2, <1>3, <1>4 DEF TextsInv

LEMMA InvSpeaksAll == TextsInv /\ SpeaksAll => TextsInv'
<1> SUFFICES ASSUME TextsInv, SpeaksAll PROVE TextsInv'
  OBVIOUS
<1>1. /\ stage = "received" /\ stage' = "spoken"
      /\ UNCHANGED <<mode, text, buf, leftover, resumes, index_mark, spoiled>>
  BY DEF SpeaksAll, Step
<1>2. index_mark' \in Int /\ spoiled' \in BOOLEAN
  BY <1>1 DEF TextsInv, TextsTypes
<1> QED
  BY <1>1, <1>2, InvModule

LEMMA InvPauses == TextsInv /\ Pauses => TextsInv'
<1> SUFFICES ASSUME TextsInv, Pauses PROVE TextsInv'
  OBVIOUS
<1>1. /\ stage = "received" /\ stage' = "paused"
      /\ UNCHANGED <<mode, text, buf, leftover, resumes, index_mark>>
      /\ spoiled' = (spoiled \/ Spoils(FALSE, <<>>))
  BY DEF Pauses, Step
<1>2. index_mark' \in Int /\ spoiled' \in BOOLEAN /\ mode \in {"text", "ssml"}
  BY <1>1 DEF TextsInv, TextsTypes
<1>3. ~spoiled' => mode = "ssml"
  BY <1>1, <1>2 DEF Spoils
<1> QED
  BY <1>1, <1>2, <1>3, InvModule

LEMMA InvPausesAtMark ==
  ASSUME NEW n \in 0..(Len(MarkNames) - 1), TextsInv, PausesAtMark(n)
  PROVE  TextsInv'
<1>1. /\ stage = "received" /\ stage' = "paused" /\ index_mark' = n
      /\ UNCHANGED <<mode, text, buf, leftover, resumes>>
      /\ spoiled' = (spoiled \/ Spoils(TRUE, find_index_mark(buf, n)))
  BY DEF PausesAtMark, Step
<1>2. index_mark' \in Int /\ index_mark' # -1
  <2>1. Len(MarkNames) \in Nat
    BY TextsAssumption
  <2>2. n \in Int /\ n # -1
    BY <2>1
  <2> QED
    BY <1>1, <2>2
<1>3. spoiled' \in BOOLEAN
  BY <1>1 DEF TextsInv, TextsTypes
<1> QED
  BY <1>1, <1>2, <1>3, InvModule

\* What is put on the queue again, whole or after a mark.
LEMMA InvReload == TextsInv /\ reload_message => TextsInv'
<1> SUFFICES ASSUME TextsInv, reload_message PROVE TextsInv'
  OBVIOUS
<1> DEFINE rest == find_index_mark(buf, index_mark)
<1>1. /\ stage = "paused" /\ resumes' = resumes + 1
      /\ UNCHANGED <<mode, text, received, leftover, index_mark, heard, spoiled>>
  BY DEF reload_message
<1>2. \/ index_mark = -1 /\ stage' = "queued" /\ buf' = buf
      \/ stage' = "lost" /\ buf' = buf
      \/ /\ rest # <<"?">> /\ stage' = "queued"
         /\ buf' = strip_index_marks(rest, mode)
  BY DEF reload_message
<1>3. RawDots' <=> RawDots
  BY <1>1, SameText
<1>4. /\ buf \in Seq(Alphabet) /\ mode \in {"text", "ssml"} /\ resumes \in Nat
      /\ mode = "ssml" /\ ~RawDots => Clean(buf, {"."})
  BY <1>1 DEF TextsInv, TextsTypes, Undotted
<1>5. resumes' \in Nat /\ resumes' # 0
  BY <1>1, <1>4
<1>6. ASSUME buf' = strip_index_marks(rest, mode), rest # <<"?">>
      PROVE  /\ buf' \in Seq(Alphabet \ Marks) /\ buf' \in Seq(Alphabet)
             /\ mode = "ssml" /\ ~RawDots => Clean(buf', {"."})
  <2>1. PICK a \in Nat \ {0} : rest = SubSeq(buf, a, Len(buf))
    BY <1>4, <1>6, FoundIsRest
  <2> HIDE DEF rest
  <2>2. rest \in Seq(Alphabet)
    BY <1>4, <2>1
  <2>3. mode = "ssml" /\ ~RawDots => Clean(rest, {"."})
    BY <1>4, <2>1, CleanPart
  <2>4. buf' \in Seq(Alphabet \ Marks)
    BY <1>6, <2>2, StripFacts
  <2>5. mode = "ssml" /\ ~RawDots => Clean(buf', {"."})
    BY <1>6, <2>2, <2>3, StripFacts
  <2> QED
    BY <2>4, <2>5, NoMarkClean
<1> HIDE DEF rest
<1>7. TextsTypes'
  BY <1>1, <1>2, <1>4, <1>5, <1>6 DEF TextsInv, TextsTypes
<1>8. Undotted'
  BY <1>1, <1>2, <1>3, <1>4, <1>6 DEF Undotted
<1>9. Sent' /\ Ordered'
  <2>1. ASSUME stage' = "queued", Orderly' PROVE buf' \in Seq(Alphabet \ Marks)
    <3>1. index_mark # -1
      BY <1>1, <1>5, <2>1 DEF TextsInv, Ordered, Orderly
    <3> QED
      BY <1>2, <1>6, <2>1, <3>1
  <2> QED
    BY <1>2, <2>1 DEF Sent, Ordered
<1>10. StaysInStep'
  BY <1>1, <1>3 DEF TextsInv, StaysInStep
<1> QED
  BY <1>7, <1>8, <1>9, <1>10 DEF TextsInv

-----------------------------------------------------------------------------
\* The text is of its kind at every stage; without the dots of RawDots no dot is
\* in a tag and, once insert_index_marks() has run, none ends a line; and the
\* marks in it are those of this time, counted from the first.
THEOREM TextsInvariant == TextsSpec => []TextsInv
<1>1. TextsInv /\ [TextsNext]_texts_vars => TextsInv'
  <2> SUFFICES ASSUME TextsInv, [TextsNext]_texts_vars PROVE TextsInv'
    OBVIOUS
  <2>1. CASE spd_say
    BY <2>1, InvSpdSay
  <2>2. CASE parse
    BY <2>2, InvParse
  <2>3. CASE speak
    BY <2>3, InvSpeak
  <2>4. CASE output_speak
    BY <2>4, InvOutputSpeak
  <2>5. CASE SpeaksAll
    BY <2>5, InvSpeaksAll
  <2>6. CASE Pauses
    BY <2>6, InvPauses
  <2>7. CASE \E n \in 0..(Len(MarkNames) - 1) : PausesAtMark(n)
    BY <2>7, InvPausesAtMark
  <2>8. CASE reload_message
    BY <2>8, InvReload
  <2>9. CASE UNCHANGED texts_vars
    <3>1. UNCHANGED <<mode, text, stage, buf, leftover, index_mark, resumes, spoiled>>
      BY <2>9 DEF texts_vars
    <3>2. (RawDots' <=> RawDots) /\ (Orderly' <=> Orderly) /\ EscapeDots(text)' = EscapeDots(text)
      BY <3>1, SameText DEF Orderly
    <3> QED
      BY <3>1, <3>2 DEF TextsInv, TextsTypes, Sent, Undotted, Ordered, StaysInStep
  <2> QED
    BY <2>1, <2>2, <2>3, <2>4, <2>5, <2>6, <2>7, <2>8, <2>9 DEF TextsNext
<1> QED
  BY <1>1, TextsInitial, PTL DEF TextsSpec

\* A text without the dots of RawDots is read by do_message() to its end, whatever
\* its characters and however often it is paused: the lone dot that ends it is the
\* first one the module finds, and nothing is left to be taken for a command.
THEOREM TextsStaysInStep == TextsSpec => []StaysInStep
<1>1. TextsInv => StaysInStep
  BY DEF TextsInv
<1> QED
  BY <1>1, TextsInvariant, PTL

\* In a text that is sent the marks are in their order, and none is inside a tag.
THEOREM TextsMarksInOrder == TextsSpec => []MarksInOrder
<1>1. TextsInv => MarksInOrder
  <2> SUFFICES ASSUME TextsInv, stage = "received", Orderly PROVE Numbered(buf)
    BY DEF MarksInOrder, Orderly
  <2>1. buf \in Seq(Alphabet) /\ InOrder(buf) /\ Clean(buf, Marks)
    BY DEF TextsInv, TextsTypes, Ordered
  <2> QED
    BY <2>1, CleanInOrder
<1> QED
  BY <1>1, TextsInvariant, PTL

-----------------------------------------------------------------------------
(***************************************************************************)
(* What is heard of a text that is put together from pieces.               *)
(***************************************************************************)

Associate(x, y, z) == (x \o y) \o z = x \o (y \o z)

LEMMA Associates ==
  ASSUME NEW A, NEW x \in Seq(A), NEW y \in Seq(A), NEW z \in Seq(A)
  PROVE  Associate(x, y, z)
BY ThreeParts DEF Associate

LEMMA FlattenUnique ==
  ASSUME NEW A, NEW ss \in Seq(Seq(A)), NEW n, n = Len(ss),
         NEW Q \in [0..n -> Seq(A)], Q[0] = <<>>,
         \A i \in 1..n : Q[i] = Q[i - 1] \o ss[i]
  PROVE  FlattenSeq(ss) = Q[n]
<1>1. PICK P : IsJoin(P, A, ss)
  BY JoinExists
<1>2. /\ P[0] = <<>> /\ \A i \in 1..n : P[i] = P[i - 1] \o ss[i]
      /\ FlattenSeq(ss) = P[n] /\ n \in Nat
  BY <1>1, SeqFacts DEF IsJoin
<1> DEFINE I == {i \in 0..n : P[i] = Q[i]}
<1>3. 0 \in I
  BY <1>2
<1>4. ASSUME NEW i \in 1..n, i - 1 \in I PROVE i \in I
  <2>1. P[i - 1] = Q[i - 1]
    BY <1>4
  <2>2. P[i] = P[i - 1] \o ss[i] /\ Q[i] = Q[i - 1] \o ss[i]
    BY <1>2
  <2>3. P[i] = Q[i]
    BY <2>1, <2>2, Zenon
  <2>4. i \in 0..n
    BY <1>2
  <2> QED
    BY <2>3, <2>4
<1> HIDE DEF I
<1>5. \A i \in 0..n : i \in I
  BY <1>2, <1>3, <1>4, UpTo
<1>6. n \in I
  BY <1>2, <1>5
<1> QED
  BY <1>2, <1>6 DEF I

Joining(Q, A, ss, n) == /\ n = Len(ss) /\ Q \in [0..n -> Seq(A)] /\ Q[0] = <<>>
                        /\ \A i \in 1..n : Q[i] = Q[i - 1] \o ss[i]

LEMMA FlattenJoining ==
  ASSUME NEW A, NEW ss \in Seq(Seq(A)), NEW n, NEW Q, Joining(Q, A, ss, n)
  PROVE  FlattenSeq(ss) = Q[n]
BY FlattenUnique DEF Joining

LEMMA FlattenConcat ==
  ASSUME NEW A, NEW ss \in Seq(Seq(A)), NEW rr \in Seq(Seq(A))
  PROVE  FlattenSeq(ss \o rr) = FlattenSeq(ss) \o FlattenSeq(rr)
<1>1. PICK P : IsJoin(P, A, ss)
  BY JoinExists
<1>2. PICK R : IsJoin(R, A, rr)
  BY JoinExists
<1>3. PICK a : a = Len(ss)
  OBVIOUS
<1>4. PICK b : b = Len(rr)
  OBVIOUS
<1>5. PICK tt : tt = ss \o rr
  OBVIOUS
<1>6. a \in Nat /\ b \in Nat
  BY <1>3, <1>4
<1>7. /\ tt \in Seq(Seq(A)) /\ Len(tt) = a + b
      /\ \A i \in 1..(a + b) : tt[i] = IF i <= a THEN ss[i] ELSE rr[i - a]
  BY <1>3, <1>4, <1>5, ConcatProperties
<1>8. /\ P \in [0..a -> Seq(A)] /\ P[0] = <<>> /\ \A i \in 1..a : P[i] = P[i - 1] \o ss[i]
      /\ FlattenSeq(ss) = P[a]
  BY <1>1, <1>3 DEF IsJoin
<1>9. /\ R \in [0..b -> Seq(A)] /\ R[0] = <<>> /\ \A i \in 1..b : R[i] = R[i - 1] \o rr[i]
      /\ FlattenSeq(rr) = R[b]
  BY <1>2, <1>4 DEF IsJoin
<1>10. PICK p \in Seq(A) : p = P[a]
  BY <1>6, <1>8
<1> DEFINE Q == [i \in 0..(a + b) |-> IF i <= a THEN P[i] ELSE p \o R[i - a]]
<1>11. ASSUME NEW i \in 0..(a + b) PROVE Q[i] \in Seq(A)
  <2>1. CASE i <= a
    <3>1. i \in 0..a
      BY <1>6, <2>1
    <3> QED
      BY <1>8, <2>1, <3>1
  <2>2. CASE ~(i <= a)
    <3>1. i - a \in 0..b
      BY <1>6, <2>2
    <3>2. R[i - a] \in Seq(A)
      BY <1>9, <3>1
    <3>3. p \o R[i - a] \in Seq(A)
      BY <3>2
    <3> QED
      BY <2>2, <3>3
  <2> QED
    BY <2>1, <2>2
<1>12. \A i \in 0..b : Q[a + i] = p \o R[i]
  <2>1. SUFFICES ASSUME NEW i \in 0..b PROVE Q[a + i] = p \o R[i]
    OBVIOUS
  <2>2. CASE i = 0
    <3>1. a + i = a /\ a \in 0..(a + b)
      BY <1>6, <2>2
    <3>2. p \o <<>> = p
      BY ConcatEmptySeq
    <3>3. Q[a] = P[a]
      BY <1>6, <3>1
    <3> HIDE DEF Q
    <3> QED
      BY <1>9, <1>10, <2>2, <3>1, <3>2, <3>3, Zenon
  <2>3. CASE i # 0
    <3>1. ~(a + i <= a) /\ (a + i) - a = i /\ a + i \in 0..(a + b)
      BY <1>6, <2>3
    <3> QED
      BY <3>1
  <2> QED
    BY <2>2, <2>3
<1>13. \A i \in 0..a : Q[i] = P[i]
  BY <1>6
<1>14. Q \in [0..(a + b) -> Seq(A)]
  BY <1>11
<1> HIDE DEF Q
<1>15. ASSUME NEW i \in 1..(a + b) PROVE Q[i] = Q[i - 1] \o tt[i]
  <2>1. CASE i <= a
    <3>1. i \in 1..a /\ i \in 0..a /\ i - 1 \in 0..a
      BY <1>6, <2>1
    <3>2. Q[i] = P[i] /\ Q[i - 1] = P[i - 1] /\ tt[i] = ss[i] /\ P[i] = P[i - 1] \o ss[i]
      BY <1>7, <1>8, <1>13, <2>1, <3>1
    <3> QED
      BY <3>2, Zenon
  <2>2. CASE ~(i <= a)
    <3>1. PICK j \in 1..b : i = a + j
      <4>1. i - a \in 1..b /\ i = a + (i - a)
        BY <1>6, <2>2
      <4> QED
        BY <4>1
    <3>2. j \in 0..b /\ j - 1 \in 0..b /\ i - 1 = a + (j - 1) /\ i - a = j
      BY <1>6, <3>1
    <3>3. Q[i] = p \o R[j] /\ Q[i - 1] = p \o R[j - 1] /\ tt[i] = rr[j]
      BY <1>7, <1>12, <2>2, <3>1, <3>2
    <3>4. PICK x \in Seq(A) : x = R[j - 1]
      BY <1>9, <3>2
    <3>5. PICK w \in Seq(A) : w = rr[j]
      BY <1>4
    <3>6. R[j] = x \o w
      BY <1>9, <3>4, <3>5, Zenon
    <3>7. Associate(p, x, w)
      BY Associates, Zenon
    <3> QED
      BY <3>3, <3>4, <3>5, <3>6, <3>7, Zenon DEF Associate
  <2> QED
    BY <2>1, <2>2
<1>16. Q[0] = <<>> /\ Q[a + b] = p \o R[b]
  <2>1. 0 \in 0..a /\ b \in 0..b
    BY <1>6
  <2> QED
    BY <1>8, <1>12, <1>13, <2>1
<1>17. FlattenSeq(tt) = Q[a + b]
  <2>1. PICK n \in Nat : n = a + b
    BY <1>6
  <2>2. n = Len(tt)
    BY <1>7, <2>1
  <2>3. Q \in [0..n -> Seq(A)]
    BY <1>14, <2>1, Zenon
  <2>4. \A i \in 1..n : Q[i] = Q[i - 1] \o tt[i]
    BY <1>15, <2>1, Zenon
  <2>5. Q[0] = <<>> /\ tt \in Seq(Seq(A))
    BY <1>7, <1>16
  <2>6. Joining(Q, A, tt, n)
    BY <2>2, <2>3, <2>4, <2>5, Zenon DEF Joining
  <2>7. FlattenSeq(tt) = Q[n]
    BY <2>5, <2>6, FlattenJoining
  <2> QED
    BY <2>1, <2>7, Zenon
<1> QED
  BY <1>5, <1>8, <1>9, <1>10, <1>16, <1>17, Zenon

LEMMA FlattenOne ==
  ASSUME NEW A, NEW w \in Seq(A) PROVE FlattenSeq(<<w>>) = w
<1> DEFINE Q == [i \in 0..1 |-> IF i = 0 THEN <<>> ELSE w]
<1>1. PICK B : B = Seq(A)
  OBVIOUS
<1>2. PICK ss : ss = <<w>>
  OBVIOUS
<1>3. ss \in Seq(B) /\ Len(ss) = 1 /\ ss[1] = w
  BY <1>1, <1>2, OneElement
<1>4. Q \in [0..1 -> Seq(A)] /\ Q[0] = <<>> /\ Q[1] = w
  <2>1. <<>> \in Seq(A) /\ w \in Seq(A)
    OBVIOUS
  <2> QED
    BY <2>1
<1> HIDE DEF Q
<1>5. \A i \in 1..1 : Q[i] = Q[i - 1] \o ss[i]
  <2>1. \A i \in 1..1 : i = 1 /\ i - 1 = 0
    OBVIOUS
  <2>2. <<>> \o w = w
    BY ConcatEmptySeq
  <2> QED
    BY <1>3, <1>4, <2>1, <2>2
<1>6. FlattenSeq(ss) = Q[1]
  BY <1>1, <1>3, <1>4, <1>5, FlattenUnique
<1> QED
  BY <1>2, <1>4, <1>6

\* What is left of one character, and of a text: for the ear in "text" and in "ssml";
\* for the "server", which removes the marks only.
Ear(c, m) ==
  IF m = "server" THEN IF c \in Marks THEN <<>> ELSE <<c>>
  ELSE IF m = "text"
  THEN IF c = "&lt" THEN <<"<">> ELSE IF c = "&gt" THEN <<">">> ELSE IF c = "&amp" THEN <<"&">>
       ELSE IF c \in Tags \cup {"<", ">"} THEN <<>> ELSE <<c>>
  ELSE IF c \in Tags THEN <<>> ELSE <<c>>
Ears(t, m)    == [i \in DOMAIN t |-> Ear(t[i], m)]
Audible(t, m) == FlattenSeq(Ears(t, m))

LEMMA EarType ==
  ASSUME NEW c \in Alphabet, NEW m PROVE Ear(c, m) \in Seq(Alphabet)
<1>1. PICK B : B = Alphabet
  OBVIOUS
<1>2. "<" \in B /\ ">" \in B /\ "&" \in B /\ c \in B
  BY <1>1, AlphabetFacts
<1>3. \A d \in B : <<d>> \in Seq(B)
  BY OneElement
<1>4. <<>> \in Seq(B)
  OBVIOUS
<1>5. \/ Ear(c, m) = <<>> \/ Ear(c, m) = <<c>> \/ Ear(c, m) = <<"<">>
      \/ Ear(c, m) = <<">">> \/ Ear(c, m) = <<"&">>
  BY Zenon DEF Ear
<1> QED
  BY <1>1, <1>2, <1>3, <1>4, <1>5, Zenon

LEMMA EarsType ==
  ASSUME NEW t \in Seq(Alphabet), NEW m
  PROVE  /\ Ears(t, m) \in Seq(Seq(Alphabet)) /\ Len(Ears(t, m)) = Len(t)
         /\ \A i \in 1..Len(t) : Ears(t, m)[i] = Ear(t[i], m)
<1>1. PICK n \in Nat : n = Len(t)
  BY SeqFacts
<1>2. DOMAIN t = 1..n /\ \A i \in 1..n : t[i] \in Alphabet
  BY <1>1
<1>3. PICK ss : ss = Ears(t, m)
  OBVIOUS
<1>4. ss = [i \in 1..n |-> Ear(t[i], m)]
  BY <1>2, <1>3 DEF Ears
<1>5. \A i \in 1..n : Ear(t[i], m) \in Seq(Alphabet)
  BY <1>2, EarType
<1>6. PICK B : B = Seq(Alphabet)
  OBVIOUS
<1>7. ss \in [1..n -> B]
  BY <1>4, <1>5, <1>6
<1>8. ss \in Seq(B) /\ Len(ss) = n
  BY <1>7
<1>9. \A i \in 1..n : ss[i] = Ear(t[i], m)
  BY <1>4
<1> QED
  BY <1>1, <1>3, <1>6, <1>8, <1>9

LEMMA AudibleType ==
  ASSUME NEW t \in Seq(Alphabet), NEW m PROVE Audible(t, m) \in Seq(Alphabet)
BY EarsType, FlattenType DEF Audible

LEMMA AudibleConcat ==
  ASSUME NEW x \in Seq(Alphabet), NEW y \in Seq(Alphabet), NEW m
  PROVE  Audible(x \o y, m) = Audible(x, m) \o Audible(y, m)
<1>1. PICK z : z = x \o y
  OBVIOUS
<1>2. PICK p : p = Ears(x, m)
  OBVIOUS
<1>3. PICK q : q = Ears(y, m)
  OBVIOUS
<1>4. PICK r : r = Ears(z, m)
  OBVIOUS
<1>5. PICK a \in Nat : a = Len(x)
  BY SeqFacts
<1>6. PICK b \in Nat : b = Len(y)
  BY SeqFacts
<1>7. /\ z \in Seq(Alphabet) /\ Len(z) = a + b
      /\ \A i \in 1..(a + b) : z[i] = IF i <= a THEN x[i] ELSE y[i - a]
  BY <1>1, <1>5, <1>6, ConcatProperties
<1>8. PICK B : B = Seq(Alphabet)
  OBVIOUS
<1>9. p \in Seq(B) /\ Len(p) = a /\ \A i \in 1..a : p[i] = Ear(x[i], m)
  BY <1>2, <1>5, <1>8, EarsType
<1>10. q \in Seq(B) /\ Len(q) = b /\ \A i \in 1..b : q[i] = Ear(y[i], m)
  BY <1>3, <1>6, <1>8, EarsType
<1>11. r \in Seq(B) /\ Len(r) = a + b /\ \A i \in 1..(a + b) : r[i] = Ear(z[i], m)
  BY <1>4, <1>7, <1>8, EarsType
<1>12. PICK s : s = p \o q
  OBVIOUS
<1>13. /\ s \in Seq(B) /\ Len(s) = a + b
       /\ \A i \in 1..(a + b) : s[i] = IF i <= a THEN p[i] ELSE q[i - a]
  BY <1>9, <1>10, <1>12, ConcatProperties
<1>14. ASSUME NEW i \in 1..(a + b) PROVE r[i] = s[i]
  <2>1. CASE i <= a
    <3>1. i \in 1..a
      BY <2>1
    <3> QED
      BY <1>7, <1>9, <1>11, <1>13, <2>1, <3>1
  <2>2. CASE ~(i <= a)
    <3>1. i - a \in 1..b
      BY <2>2
    <3> QED
      BY <1>7, <1>10, <1>11, <1>13, <2>2, <3>1
  <2> QED
    BY <2>1, <2>2
<1>15. r = s
  BY <1>11, <1>13, <1>14, SeqEqual
<1>16. FlattenSeq(s) = FlattenSeq(p) \o FlattenSeq(q)
  BY <1>8, <1>9, <1>10, <1>12, FlattenConcat
<1> QED
  BY <1>1, <1>2, <1>3, <1>4, <1>15, <1>16 DEF Audible

LEMMA AudibleNone == ASSUME NEW m PROVE Audible(<<>>, m) = <<>>
<1>1. PICK P : IsJoin(P, Alphabet, <<>>)
  <2>1. <<>> \in Seq(Seq(Alphabet))
    OBVIOUS
  <2> QED
    BY <2>1, JoinExists
<1>2. FlattenSeq(<<>>) = <<>>
  BY <1>1 DEF IsJoin
<1>3. Ears(<<>>, m) = <<>>
  BY DEF Ears
<1> QED
  BY <1>2, <1>3 DEF Audible

LEMMA AudibleOne ==
  ASSUME NEW c \in Alphabet, NEW m PROVE Audible(<<c>>, m) = Ear(c, m)
<1>1. PICK x : x = <<c>>
  OBVIOUS
<1>2. x \in Seq(Alphabet) /\ Len(x) = 1 /\ x[1] = c
  BY <1>1, OneElement
<1>3. PICK ss : ss = Ears(x, m)
  OBVIOUS
<1>4. PICK w : w = Ear(c, m)
  OBVIOUS
<1>5. PICK B : B = Seq(Alphabet)
  OBVIOUS
<1>6. w \in B /\ ss \in Seq(B) /\ Len(ss) = 1 /\ ss[1] = w
  <2>1. 1 \in 1..1
    OBVIOUS
  <2> QED
    BY <1>2, <1>3, <1>4, <1>5, <2>1, EarsType, EarType
<1>7. PICK rr : rr = <<w>>
  OBVIOUS
<1>8. rr \in Seq(B) /\ Len(rr) = 1 /\ rr[1] = w
  BY <1>6, <1>7, OneElement
<1>9. ss = rr
  <2>1. \A i \in 1..Len(ss) : ss[i] = rr[i]
    <3>1. \A i \in 1..1 : i = 1
      OBVIOUS
    <3> QED
      BY <1>6, <1>8, <3>1
  <2> QED
    BY <1>6, <1>8, <2>1, SeqEqual
<1>10. FlattenSeq(<<w>>) = w
  BY <1>5, <1>6, FlattenOne
<1> QED
  BY <1>1, <1>3, <1>4, <1>7, <1>9, <1>10 DEF Audible

LEMMA AudibleAppend ==
  ASSUME NEW x \in Seq(Alphabet), NEW c \in Alphabet, NEW m
  PROVE  Audible(Append(x, c), m) = Audible(x, m) \o Ear(c, m)
<1>1. PICK w : w = <<c>>
  OBVIOUS
<1>2. w \in Seq(Alphabet) /\ Append(x, c) = x \o w
  BY <1>1, OneElement, AppendFacts
<1>3. Audible(x \o w, m) = Audible(x, m) \o Audible(w, m)
  BY <1>2, AudibleConcat
<1>4. Audible(w, m) = Ear(c, m)
  BY <1>1, AudibleOne
<1> QED
  BY <1>2, <1>3, <1>4, Zenon

\* Of a text put together from pieces.
LEMMA AudibleFlatten ==
  ASSUME NEW ss \in Seq(Seq(Alphabet)), NEW m, NEW hh \in Seq(Seq(Alphabet)),
         Len(hh) = Len(ss), \A i \in 1..Len(ss) : hh[i] = Audible(ss[i], m)
  PROVE  Audible(FlattenSeq(ss), m) = FlattenSeq(hh)
<1>1. PICK n \in Nat : n = Len(ss)
  BY SeqFacts
<1>2. PICK P : IsJoin(P, Alphabet, ss)
  BY JoinExists
<1>3. /\ P \in [0..n -> Seq(Alphabet)] /\ P[0] = <<>>
      /\ \A i \in 1..n : P[i] = P[i - 1] \o ss[i]
      /\ FlattenSeq(ss) = P[n]
  BY <1>1, <1>2 DEF IsJoin
<1>4. PICK Q : Q = [i \in 0..n |-> Audible(P[i], m)]
  OBVIOUS
<1>5. Q \in [0..n -> Seq(Alphabet)]
  BY <1>3, <1>4, AudibleType
<1>6. 0 \in 0..n /\ n \in 0..n
  OBVIOUS
<1>7. Q[0] = <<>> /\ Q[n] = Audible(P[n], m)
  BY <1>3, <1>4, <1>6, AudibleNone
<1>8. ASSUME NEW i \in 1..n PROVE Q[i] = Q[i - 1] \o hh[i]
  <2>1. i \in 0..n /\ i - 1 \in 0..n
    OBVIOUS
  <2>2. Q[i] = Audible(P[i], m) /\ Q[i - 1] = Audible(P[i - 1], m)
    BY <1>4, <2>1
  <2>3. PICK x \in Seq(Alphabet) : x = P[i - 1]
    BY <1>3, <2>1
  <2>4. PICK w \in Seq(Alphabet) : w = ss[i]
    BY <1>1
  <2>5. P[i] = x \o w /\ hh[i] = Audible(w, m)
    BY <1>1, <1>3, <2>3, <2>4
  <2>6. Audible(x \o w, m) = Audible(x, m) \o Audible(w, m)
    BY AudibleConcat
  <2> QED
    BY <2>2, <2>3, <2>5, <2>6, Zenon
<1>9. FlattenSeq(hh) = Q[n]
  BY <1>1, <1>5, <1>7, <1>8, FlattenUnique
<1> QED
  BY <1>3, <1>7, <1>9, Zenon

\* Of a text that is cut in two.
LEMMA Halves ==
  ASSUME NEW A, NEW t \in Seq(A), NEW k \in 0..Len(t)
  PROVE  /\ SubSeq(t, 1, k) \in Seq(A) /\ SubSeq(t, k + 1, Len(t)) \in Seq(A)
         /\ Len(SubSeq(t, 1, k)) = k /\ Len(SubSeq(t, k + 1, Len(t))) = Len(t) - k
         /\ \A i \in 1..k : SubSeq(t, 1, k)[i] = t[i]
         /\ \A i \in 1..(Len(t) - k) : SubSeq(t, k + 1, Len(t))[i] = t[k + i]
         /\ t = SubSeq(t, 1, k) \o SubSeq(t, k + 1, Len(t))
<1>1. PICK n \in Nat : n = Len(t)
  BY SeqFacts
<1>2. k \in Nat /\ k <= n
  BY <1>1
<1>3. \A i \in 1..n : t[i] \in A
  BY <1>1
<1>4. PICK x : x = SubSeq(t, 1, k)
  OBVIOUS
<1>5. PICK y : y = SubSeq(t, k + 1, n)
  OBVIOUS
<1>6. x \in Seq(A) /\ Len(x) = k /\ \A i \in 1..k : x[i] = t[i]
  <2>1. \A i \in 1..k : t[i] \in A
    BY <1>2, <1>3
  <2> QED
    BY <1>2, <1>4, <2>1, PrefixFacts
<1>7. y \in Seq(A) /\ Len(y) = n - k /\ \A i \in 1..(n - k) : y[i] = t[k + i]
  <2>1. k + 1 \in Int /\ n \in Int /\ \A i \in (k + 1)..n : t[i] \in A
    BY <1>2, <1>3
  <2>2. /\ y \in Seq(A) /\ Len(y) = IF k + 1 <= n THEN n - (k + 1) + 1 ELSE 0
        /\ \A i \in 1..(n - (k + 1) + 1) : y[i] = t[(k + 1) + i - 1]
    BY <1>5, <2>1, SubSeqProperties
  <2>3. (IF k + 1 <= n THEN n - (k + 1) + 1 ELSE 0) = n - k /\ n - (k + 1) + 1 = n - k
    BY <1>2
  <2>4. \A i \in 1..(n - k) : (k + 1) + i - 1 = k + i
    BY <1>2
  <2> QED
    BY <2>2, <2>3, <2>4
<1>8. PICK z : z = x \o y
  OBVIOUS
<1>9. /\ z \in Seq(A) /\ Len(z) = k + (n - k)
      /\ \A i \in 1..(k + (n - k)) : z[i] = IF i <= k THEN x[i] ELSE y[i - k]
  BY <1>6, <1>7, <1>8, ConcatProperties
<1>10. Len(z) = n
  BY <1>2, <1>9
<1>11. ASSUME NEW i \in 1..n PROVE t[i] = z[i]
  <2>1. i \in 1..(k + (n - k))
    BY <1>2
  <2>2. CASE i <= k
    <3>1. i \in 1..k
      BY <1>2, <2>2
    <3> QED
      BY <1>6, <1>9, <2>1, <2>2, <3>1
  <2>3. CASE ~(i <= k)
    <3>1. i - k \in 1..(n - k) /\ k + (i - k) = i
      BY <1>2, <2>3
    <3> QED
      BY <1>7, <1>9, <2>1, <2>3, <3>1
  <2> QED
    BY <2>2, <2>3
<1>12. t = z
  BY <1>1, <1>9, <1>10, <1>11, SeqEqual
<1> QED
  BY <1>1, <1>4, <1>5, <1>6, <1>7, <1>8, <1>12

LEMMA AudibleHalves ==
  ASSUME NEW t \in Seq(Alphabet), NEW k \in 0..Len(t), NEW m
  PROVE  Audible(t, m) = Audible(SubSeq(t, 1, k), m) \o Audible(SubSeq(t, k + 1, Len(t)), m)
<1>1. PICK x : x = SubSeq(t, 1, k)
  OBVIOUS
<1>2. PICK y : y = SubSeq(t, k + 1, Len(t))
  OBVIOUS
<1>3. x \in Seq(Alphabet) /\ y \in Seq(Alphabet) /\ t = x \o y
  BY <1>1, <1>2, Halves
<1>4. Audible(x \o y, m) = Audible(x, m) \o Audible(y, m)
  BY <1>3, AudibleConcat
<1> QED
  BY <1>1, <1>2, <1>3, <1>4, Zenon

-----------------------------------------------------------------------------
\* The dots of the library.  A dot that starts a line is followed by another one.
Paired(t) == \A i \in DOMAIN t : t[i] = "." /\ StartsLine(t, i, {"crlf"})
                                 => i < Len(t) /\ t[i + 1] = "."

Halved(t, i) == i > 1 /\ t[i] = "." /\ t[i - 1] = "." /\ StartsLine(t, i - 1, {"crlf"})
Undotting(t) == [i \in DOMAIN t |-> IF Halved(t, i) THEN <<>> ELSE <<t[i]>>]

LEMMA deescapeIsFlatten ==
  ASSUME NEW t PROVE deescape_dot(t) = FlattenSeq(Undotting(t))
BY DEF deescape_dot, Replaced, Undotting, Halved

LEMMA UndottingType ==
  ASSUME NEW A, NEW t \in Seq(A)
  PROVE  /\ Undotting(t) \in Seq(Seq(A)) /\ Len(Undotting(t)) = Len(t)
         /\ \A i \in 1..Len(t) : Undotting(t)[i] = IF Halved(t, i) THEN <<>> ELSE <<t[i]>>
<1>1. PICK ss : ss = Undotting(t)
  OBVIOUS
<1>2. DOMAIN t = 1..Len(t)
  BY SeqFacts
<1>3. DOMAIN ss = DOMAIN t /\ ss = [i \in DOMAIN ss |-> ss[i]]
  BY <1>1 DEF Undotting
<1>4. \A i \in 1..Len(t) : ss[i] = IF Halved(t, i) THEN <<>> ELSE <<t[i]>>
  BY <1>1, <1>2 DEF Undotting
<1>5. \A i \in DOMAIN t : \/ ss[i] = <<>> \/ ss[i] = <<t[i]>>
                         \/ \E c \in A : ss[i] = <<t[i], c>>
  BY <1>2, <1>4, Zenon
<1>6. ss \in Seq(Seq(A)) /\ Len(ss) = Len(t)
  BY <1>3, <1>5, Pieces
<1> QED
  BY <1>1, <1>4, <1>6

\* deescape_dot() looks back only.
LEMMA deescapeAppend ==
  ASSUME NEW A, NEW x \in Seq(A), NEW c \in A, NEW y, y = Append(x, c)
  PROVE  deescape_dot(y) = deescape_dot(x) \o (IF Halved(y, Len(x) + 1) THEN <<>> ELSE <<c>>)
<1>1. PICK n \in Nat : n = Len(x)
  BY SeqFacts
<1>2. y \in Seq(A) /\ Len(y) = n + 1 /\ y[n + 1] = c /\ \A i \in 1..n : y[i] = x[i]
  BY <1>1, AppendFacts
<1>3. PICK B : B = Seq(A)
  OBVIOUS
<1>4. PICK p : p = Undotting(x)
  OBVIOUS
<1>5. PICK r : r = Undotting(y)
  OBVIOUS
<1>6. /\ p \in Seq(B) /\ Len(p) = n
      /\ \A i \in 1..n : p[i] = IF Halved(x, i) THEN <<>> ELSE <<x[i]>>
  BY <1>1, <1>3, <1>4, UndottingType
<1>7. /\ r \in Seq(B) /\ Len(r) = n + 1
      /\ \A i \in 1..(n + 1) : r[i] = IF Halved(y, i) THEN <<>> ELSE <<y[i]>>
  BY <1>2, <1>3, <1>5, UndottingType
<1>8. PICK w : w = IF Halved(y, n + 1) THEN <<>> ELSE <<c>>
  OBVIOUS
<1>9. w \in B /\ r[n + 1] = w
  <2>1. n + 1 \in 1..(n + 1)
    OBVIOUS
  <2>2. r[n + 1] = w
    BY <1>2, <1>7, <1>8, <2>1, Zenon
  <2>3. <<>> \in B /\ <<c>> \in B
    BY <1>3
  <2> QED
    BY <1>8, <2>2, <2>3, Zenon
<1>10. PICK q : q = <<w>>
  OBVIOUS
<1>11. q \in Seq(B) /\ Len(q) = 1 /\ q[1] = w
  BY <1>9, <1>10, OneElement
<1>12. PICK s : s = p \o q
  OBVIOUS
<1>13. /\ s \in Seq(B) /\ Len(s) = n + 1
       /\ \A i \in 1..(n + 1) : s[i] = IF i <= n THEN p[i] ELSE q[i - n]
  <2>1. /\ s \in Seq(B) /\ Len(s) = Len(p) + Len(q)
        /\ \A i \in 1..(Len(p) + Len(q)) : s[i] = IF i <= Len(p) THEN p[i] ELSE q[i - Len(p)]
    BY <1>6, <1>11, <1>12, ConcatProperties
  <2>2. Len(p) = n /\ Len(q) = 1
    BY <1>6, <1>11
  <2> QED
    BY <2>1, <2>2
<1>14. ASSUME NEW i \in 1..(n + 1) PROVE r[i] = s[i]
  <2>1. CASE i = n + 1
    <3>1. i - n = 1 /\ ~(i <= n)
      BY <2>1
    <3> QED
      BY <1>9, <1>11, <1>13, <2>1, <3>1
  <2>2. CASE i # n + 1
    <3>1. i \in 1..n /\ i <= n /\ (i > 1 => i - 1 \in 1..n)
      BY <2>2
    <3>2. y[i] = x[i] /\ (i > 1 => y[i - 1] = x[i - 1])
      BY <1>2, <3>1
    <3>3. i > 1 /\ i - 1 # 1 => (i - 1) - 1 \in 1..n
      BY <3>1
    <3>4. i > 1 => (StartsLine(y, i - 1, {"crlf"}) <=> StartsLine(x, i - 1, {"crlf"}))
      BY <1>2, <3>1, <3>3 DEF StartsLine
    <3>5. Halved(y, i) <=> Halved(x, i)
      BY <3>2, <3>4 DEF Halved
    <3>6. r[i] = p[i]
      BY <1>6, <1>7, <3>1, <3>2, <3>5, Zenon
    <3> QED
      BY <1>13, <3>1, <3>6, Zenon
  <2> QED
    BY <2>1, <2>2
<1>15. r = s
  BY <1>7, <1>13, <1>14, SeqEqual
<1>16. FlattenSeq(s) = FlattenSeq(p) \o FlattenSeq(q)
  BY <1>3, <1>6, <1>11, <1>12, FlattenConcat
<1>17. FlattenSeq(q) = w
  BY <1>3, <1>9, <1>10, FlattenOne
<1>18. deescape_dot(y) = FlattenSeq(r) /\ deescape_dot(x) = FlattenSeq(p)
  BY <1>4, <1>5, deescapeIsFlatten
<1> QED
  BY <1>1, <1>8, <1>15, <1>16, <1>17, <1>18, Zenon

\* t has been escaped as far as i, giving x.
Undone(x, t, i) ==
  /\ Paired(x) /\ deescape_dot(x) = SubSeq(t, 1, i)
  /\ IF i = 0 THEN x = <<>> ELSE x # <<>> /\ x[Len(x)] = t[i]

LEMMA StartFacts ==
  ASSUME NEW A, NEW x \in Seq(A), NEW c \in A, NEW y, y = Append(x, c), Paired(x),
         ~(c = "." /\ (x = <<>> \/ x[Len(x)] = "crlf"))
  PROVE  Paired(y) /\ ~Halved(y, Len(x) + 1)
<1>1. PICK n \in Nat : n = Len(x)
  BY SeqFacts
<1>2. /\ y \in Seq(A) /\ Len(y) = n + 1 /\ y[n + 1] = c /\ \A i \in 1..n : y[i] = x[i]
      /\ DOMAIN x = 1..n
  BY <1>1, AppendFacts
<1>3. DOMAIN y = 1..(n + 1)
  BY <1>2
<1>4. \A i \in 1..n : StartsLine(y, i, {"crlf"}) <=> StartsLine(x, i, {"crlf"})
  <2>1. \A i \in 1..n : i = 1 \/ i - 1 \in 1..n
    BY <1>1
  <2> QED
    BY <1>2, <2>1 DEF StartsLine
<1>5. n = 0 <=> x = <<>>
  BY <1>1
<1>6. ~(y[n + 1] = "." /\ StartsLine(y, n + 1, {"crlf"}))
  <2>1. n = 0 \/ (n \in 1..n /\ (n + 1) - 1 = n /\ n + 1 # 1)
    BY <1>1
  <2> QED
    BY <1>1, <1>2, <1>5, <2>1 DEF StartsLine
<1>7. ASSUME NEW i \in 1..n, x[i] = ".", StartsLine(x, i, {"crlf"})
      PROVE  i < n /\ x[i + 1] = "." /\ i + 1 \in 1..n
  <2>1. i < n /\ x[i + 1] = "."
    BY <1>1, <1>2, <1>7 DEF Paired
  <2> QED
    BY <1>1, <2>1
<1>8. Paired(y)
  <2>1. ASSUME NEW i \in 1..(n + 1), y[i] = ".", StartsLine(y, i, {"crlf"})
        PROVE  i < n + 1 /\ y[i + 1] = "."
    <3>1. i \in 1..n
      BY <1>1, <1>6, <2>1
    <3>2. x[i] = "." /\ StartsLine(x, i, {"crlf"})
      BY <1>2, <1>4, <2>1, <3>1
    <3>3. i < n /\ x[i + 1] = "." /\ i + 1 \in 1..n
      BY <1>7, <3>1, <3>2
    <3> QED
      BY <1>2, <3>1, <3>3
  <2> QED
    BY <1>2, <1>3, <2>1 DEF Paired
<1>9. ~Halved(y, n + 1)
  <2>1. SUFFICES ASSUME n + 1 > 1, y[n + 1] = ".", y[(n + 1) - 1] = ".",
                        StartsLine(y, (n + 1) - 1, {"crlf"})
                 PROVE  FALSE
    BY DEF Halved
  <2>2. n \in 1..n /\ (n + 1) - 1 = n
    BY <1>1, <2>1
  <2>3. x[n] = "." /\ StartsLine(x, n, {"crlf"})
    BY <1>2, <1>4, <2>1, <2>2
  <2>4. n < n
    BY <1>7, <2>2, <2>3
  <2> QED
    BY <1>1, <2>4
<1> QED
  BY <1>1, <1>8, <1>9

LEMMA AppendTwo ==
  ASSUME NEW A, NEW x \in Seq(A), NEW c \in A, NEW d \in A
  PROVE  x \o <<c, d>> = Append(Append(x, c), d)
<1>1. PICK w : w = <<c>>
  OBVIOUS
<1>2. PICK v : v = <<d>>
  OBVIOUS
<1>3. w \in Seq(A) /\ v \in Seq(A)
  BY <1>1, <1>2, OneElement
<1>4. PICK y : y = Append(x, c)
  OBVIOUS
<1>5. y \in Seq(A) /\ y = x \o w /\ Append(y, d) = y \o v /\ Append(w, d) = w \o v
  <2>1. y \in Seq(A) /\ y = x \o w
    BY <1>1, <1>4, AppendFacts
  <2> QED
    BY <1>2, <1>3, <2>1, AppendFacts
<1>6. Append(w, d) = <<c, d>>
  BY <1>1, AppendPair
<1>7. (x \o w) \o v = x \o (w \o v)
  BY <1>3, ThreeParts
<1> QED
  BY <1>4, <1>5, <1>6, <1>7, Zenon

LEMMA PrefixNext ==
  ASSUME NEW A, NEW t \in Seq(A), NEW i \in 1..Len(t)
  PROVE  SubSeq(t, 1, i) = SubSeq(t, 1, i - 1) \o <<t[i]>>
<1>1. 1 \in 1..Len(t)
  BY SeqFacts
<1> QED
  BY <1>1, SubSeqRecursiveSecond

\* A dot at the start of a line is written twice.
LEMMA StartDoubled ==
  ASSUME NEW A, "." \in A, NEW x \in Seq(A), Paired(x), x = <<>> \/ x[Len(x)] = "crlf",
         NEW y, y = Append(x, "."), NEW z, z = Append(y, ".")
  PROVE  Paired(z) /\ ~Halved(y, Len(x) + 1) /\ Halved(z, Len(y) + 1)
<1>1. PICK n \in Nat : n = Len(x)
  BY SeqFacts
<1>2. /\ y \in Seq(A) /\ Len(y) = n + 1 /\ y[n + 1] = "." /\ \A i \in 1..n : y[i] = x[i]
      /\ DOMAIN x = 1..n
  BY <1>1, AppendFacts
<1>3. /\ z \in Seq(A) /\ Len(z) = n + 2 /\ z[n + 2] = "." /\ \A i \in 1..(n + 1) : z[i] = y[i]
  <2>1. /\ z \in Seq(A) /\ Len(z) = Len(y) + 1 /\ z[Len(y) + 1] = "."
        /\ \A i \in 1..Len(y) : z[i] = y[i]
    BY <1>2, AppendFacts
  <2>2. Len(y) + 1 = n + 2 /\ Len(y) = n + 1
    BY <1>2
  <2> QED
    BY <2>1, <2>2
<1>4. DOMAIN z = 1..(n + 2)
  BY <1>3
<1>5. z[n + 1] = "." /\ \A i \in 1..n : z[i] = x[i]
  <2>1. n + 1 \in 1..(n + 1) /\ \A i \in 1..n : i \in 1..(n + 1)
    BY <1>1
  <2> QED
    BY <1>2, <1>3, <2>1
<1>6. n = 0 <=> x = <<>>
  BY <1>1
<1>7. n # 0 => x[n] = "crlf" /\ n \in 1..n
  BY <1>1, <1>6
<1>8. StartsLine(z, n + 1, {"crlf"})
  <2>1. n + 1 = 1 \/ (n # 0 /\ (n + 1) - 1 = n)
    BY <1>1
  <2> QED
    BY <1>5, <1>7, <2>1 DEF StartsLine
<1>9. Halved(z, n + 2)
  <2>1. n + 2 > 1 /\ (n + 2) - 1 = n + 1
    BY <1>1
  <2> QED
    BY <1>3, <1>5, <1>8, <2>1 DEF Halved
<1>10. ~Halved(y, n + 1)
  <2>1. SUFFICES ASSUME n + 1 > 1, y[(n + 1) - 1] = "." PROVE FALSE
    BY DEF Halved
  <2>2. n # 0 /\ (n + 1) - 1 = n
    BY <1>1, <2>1
  <2> QED
    BY <1>2, <1>7, <2>1, <2>2
<1>11. \A i \in 1..n : StartsLine(z, i, {"crlf"}) <=> StartsLine(x, i, {"crlf"})
  <2>1. \A i \in 1..n : i = 1 \/ i - 1 \in 1..n
    BY <1>1
  <2> QED
    BY <1>5, <2>1 DEF StartsLine
<1>12. ASSUME NEW i \in 1..(n + 2), z[i] = ".", StartsLine(z, i, {"crlf"})
       PROVE  i < n + 2 /\ z[i + 1] = "."
  <2>1. CASE i = n + 2
    <3>1. i # 1 /\ i - 1 = n + 1
      BY <1>1, <2>1
    <3> QED
      BY <1>5, <1>12, <3>1 DEF StartsLine
  <2>2. CASE i = n + 1
    <3>1. i < n + 2 /\ i + 1 = n + 2
      BY <1>1, <2>2
    <3> QED
      BY <1>3, <3>1
  <2>3. CASE i # n + 2 /\ i # n + 1
    <3>1. i \in 1..n
      BY <1>1, <2>3
    <3>2. x[i] = "." /\ StartsLine(x, i, {"crlf"})
      BY <1>5, <1>11, <1>12, <3>1
    <3>3. i < n /\ x[i + 1] = "."
      BY <1>1, <1>2, <3>1, <3>2 DEF Paired
    <3>4. i + 1 \in 1..n /\ i < n + 2
      BY <1>1, <3>1, <3>3
    <3> QED
      BY <1>5, <3>3, <3>4
  <2> QED
    BY <2>1, <2>2, <2>3
<1>13. Paired(z)
  BY <1>3, <1>4, <1>12 DEF Paired
<1>14. Len(x) + 1 = n + 1 /\ Len(y) + 1 = n + 2
  BY <1>1, <1>2
<1> QED
  BY <1>9, <1>10, <1>13, <1>14

Dotted(t) == [i \in DOMAIN t |-> IF t[i] = "." /\ StartsLine(t, i, {"crlf"})
                                 THEN <<".", ".">> ELSE <<t[i]>>]

LEMMA UndoneNext ==
  ASSUME NEW A, "." \in A, NEW t \in Seq(A), NEW i \in 1..Len(t), NEW x \in Seq(A),
         Undone(x, t, i - 1), NEW w, w = Dotted(t)[i], NEW z, z = x \o w
  PROVE  z \in Seq(A) /\ Undone(z, t, i)
<1>0. PICK n \in Nat : n = Len(x)
  BY SeqFacts
<1>1. t[i] \in A /\ i \in Nat /\ i # 0 /\ DOMAIN t = 1..Len(t)
  BY SeqFacts
<1>2. /\ Paired(x) /\ deescape_dot(x) = SubSeq(t, 1, i - 1)
      /\ IF i = 1 THEN x = <<>> ELSE x # <<>> /\ x[Len(x)] = t[i - 1]
  <2>1. i - 1 = 0 <=> i = 1
    BY <1>1
  <2> QED
    BY <2>1, Zenon DEF Undone
<1>3. PICK p \in Seq(A) : p = SubSeq(t, 1, i - 1)
  <2>1. i - 1 \in 0..Len(t)
    BY <1>1
  <2> QED
    BY <2>1, Halves
<1>4. SubSeq(t, 1, i) = p \o <<t[i]>>
  BY <1>3, PrefixNext
<1>5. CASE ~(t[i] = "." /\ StartsLine(t, i, {"crlf"}))
  <2>1. w = <<t[i]>>
    BY <1>1, <1>5 DEF Dotted
  <2>2. PICK y : y = Append(x, t[i])
    OBVIOUS
  <2>3. z = y /\ y \in Seq(A) /\ Len(y) = n + 1 /\ y[n + 1] = t[i]
    BY <1>0, <1>1, <2>1, <2>2, AppendFacts
  <2>4. ~(t[i] = "." /\ (x = <<>> \/ x[Len(x)] = "crlf"))
    BY <1>2, <1>5 DEF StartsLine
  <2>5. Paired(y) /\ ~Halved(y, Len(x) + 1)
    BY <1>1, <1>2, <2>2, <2>4, StartFacts
  <2>6. deescape_dot(y) = deescape_dot(x) \o (IF Halved(y, Len(x) + 1) THEN <<>> ELSE <<t[i]>>)
    BY <1>1, <2>2, deescapeAppend
  <2>7. deescape_dot(y) = SubSeq(t, 1, i)
    BY <1>2, <1>3, <1>4, <2>5, <2>6, Zenon
  <2>8. y # <<>> /\ y[Len(y)] = t[i]
    BY <2>3
  <2> QED
    BY <1>1, <2>3, <2>5, <2>7, <2>8 DEF Undone
<1>6. CASE t[i] = "." /\ StartsLine(t, i, {"crlf"})
  <2>1. w = <<".", ".">>
    BY <1>1, <1>6 DEF Dotted
  <2>2. PICK y : y = Append(x, ".")
    OBVIOUS
  <2>3. PICK v : v = Append(y, ".")
    OBVIOUS
  <2>4. z = v
    <3>1. x \o <<".", ".">> = Append(Append(x, "."), ".")
      BY AppendTwo
    <3> QED
      BY <2>1, <2>2, <2>3, <3>1, Zenon
  <2>5. y \in Seq(A)
    BY <2>2, AppendFacts
  <2>6. v \in Seq(A) /\ Len(v) = Len(y) + 1 /\ v[Len(y) + 1] = "."
    BY <2>3, <2>5, AppendFacts
  <2>7. x = <<>> \/ x[Len(x)] = "crlf"
    BY <1>2, <1>6 DEF StartsLine
  <2>8. Paired(v) /\ ~Halved(y, Len(x) + 1) /\ Halved(v, Len(y) + 1)
    BY <1>2, <2>2, <2>3, <2>7, StartDoubled
  <2>9. deescape_dot(y) = deescape_dot(x) \o (IF Halved(y, Len(x) + 1) THEN <<>> ELSE <<".">>)
    BY <2>2, deescapeAppend
  <2>10. deescape_dot(v) = deescape_dot(y) \o (IF Halved(v, Len(y) + 1) THEN <<>> ELSE <<".">>)
    BY <2>3, <2>5, deescapeAppend
  <2>11. deescape_dot(y) = SubSeq(t, 1, i)
    BY <1>2, <1>3, <1>4, <1>6, <2>8, <2>9, Zenon
  <2>12. PICK q \in Seq(A) : q = SubSeq(t, 1, i)
    <3>1. i \in 0..Len(t)
      BY <1>1
    <3> QED
      BY <3>1, Halves
  <2>13. deescape_dot(v) = q \o <<>>
    BY <2>8, <2>10, <2>11, <2>12, Zenon
  <2>14. q \o <<>> = q
    BY <2>12, ConcatEmptySeq
  <2>15. v # <<>> /\ v[Len(v)] = t[i]
    BY <1>6, <2>5, <2>6
  <2> QED
    BY <1>1, <2>4, <2>6, <2>8, <2>12, <2>13, <2>14, <2>15 DEF Undone
<1> QED
  BY <1>5, <1>6

LEMMA EscapeDotsUndone ==
  ASSUME NEW A, "." \in A, NEW t \in Seq(A)
  PROVE  EscapeDots(t) \in Seq(A) /\ Undone(EscapeDots(t), t, Len(t))
<1>1. PICK ss : ss = Dotted(t)
  OBVIOUS
<1>2. PICK n \in Nat : n = Len(t)
  BY SeqFacts
<1>3. EscapeDots(t) = FlattenSeq(ss)
  BY <1>1 DEF EscapeDots, Replaced, Dotted
<1>4. ss \in Seq(Seq(A)) /\ Len(ss) = n
  <2>1. DOMAIN ss = DOMAIN t /\ ss = [i \in DOMAIN ss |-> ss[i]]
    BY <1>1 DEF Dotted
  <2>2. \A i \in DOMAIN t : \/ ss[i] = <<>> \/ ss[i] = <<t[i]>>
                           \/ \E c \in A : ss[i] = <<t[i], c>>
    <3>1. SUFFICES ASSUME NEW i \in DOMAIN t
                   PROVE  ss[i] = <<t[i]>> \/ \E c \in A : ss[i] = <<t[i], c>>
      OBVIOUS
    <3>2. ss[i] = <<t[i]>> \/ (t[i] = "." /\ ss[i] = <<".", ".">>)
      BY <1>1 DEF Dotted
    <3> QED
      BY <3>2, Zenon
  <2> QED
    BY <1>2, <2>1, <2>2, Pieces
<1>5. PICK P : IsJoin(P, A, ss)
  BY <1>4, JoinExists
<1>6. /\ P \in [0..n -> Seq(A)] /\ P[0] = <<>>
      /\ \A i \in 1..n : P[i] = P[i - 1] \o ss[i]
      /\ FlattenSeq(ss) = P[n]
  BY <1>4, <1>5 DEF IsJoin
<1> DEFINE I == {i \in 0..n : Undone(P[i], t, i)}
<1>7. 0 \in I
  <2>1. deescape_dot(<<>>) = <<>>
    <3>1. Undotting(<<>>) = <<>> /\ <<>> \in Seq(Seq(A))
      BY DEF Undotting
    <3>2. PICK R : IsJoin(R, A, <<>>)
      BY <3>1, JoinExists
    <3>3. FlattenSeq(<<>>) = <<>>
      BY <3>2 DEF IsJoin
    <3> QED
      BY <3>1, <3>3, deescapeIsFlatten
  <2>2. SubSeq(t, 1, 0) = <<>>
    <3>1. 0 \in Int /\ 1 \in Int /\ 0 < 1
      OBVIOUS
    <3> QED
      BY <3>1, SubSeqEmpty
  <2>3. Paired(<<>>)
    BY DEF Paired
  <2>4. Undone(<<>>, t, 0)
    BY <2>1, <2>2, <2>3, Zenon DEF Undone
  <2> QED
    BY <1>6, <2>4
<1>8. ASSUME NEW i \in 1..n, i - 1 \in I PROVE i \in I
  <2>1. i \in 0..n /\ i - 1 \in 0..n /\ i \in 1..Len(t)
    BY <1>2
  <2>2. PICK x \in Seq(A) : x = P[i - 1]
    BY <1>6, <2>1
  <2>3. Undone(x, t, i - 1) /\ P[i] = x \o ss[i] /\ ss[i] = Dotted(t)[i]
    BY <1>1, <1>6, <1>8, <2>2
  <2>4. Undone(P[i], t, i)
    BY <2>1, <2>3, UndoneNext
  <2> QED
    BY <2>1, <2>4
<1> HIDE DEF I
<1>9. \A i \in 0..n : i \in I
  BY <1>7, <1>8, UpTo
<1>10. n \in I /\ n \in 0..n
  BY <1>9
<1>11. Undone(P[n], t, n) /\ P[n] \in Seq(A)
  BY <1>6, <1>10 DEF I
<1> QED
  BY <1>2, <1>3, <1>6, <1>11, Zenon

LEMMA NoElement ==
  ASSUME NEW A, NEW t \in Seq(A)
  PROVE  t = <<>> <=> Len(t) = 0
OBVIOUS

\* The data end at the dot of the library: the dots of the text are doubled.
LEMMA DataOfPaired ==
  ASSUME NEW A, {".", "crlf"} \subseteq A, NEW e \in Seq(A), Paired(e),
         NEW t, t = e \o <<"crlf", ".", "crlf">>
  PROVE  DataOf(t) = IF e = <<>> THEN <<"crlf">> ELSE e
<1>1. PICK n \in Nat : n = Len(e)
  BY SeqFacts
<1>2. PICK d : d = <<"crlf", ".", "crlf">>
  OBVIOUS
<1>3. d \in Seq(A) /\ Len(d) = 3 /\ d[1] = "crlf" /\ d[2] = "." /\ d[3] = "crlf"
  <2>1. d \in Seq(A) /\ Len(d) = 3
    BY <1>2, ThreeElements
  <2> QED
    BY <1>2, <2>1
<1>4. /\ t \in Seq(A) /\ Len(t) = n + 3
      /\ \A i \in 1..(n + 3) : t[i] = IF i <= n THEN e[i] ELSE d[i - n]
  <2>1. /\ t \in Seq(A) /\ Len(t) = Len(e) + Len(d)
        /\ \A i \in 1..(Len(e) + Len(d)) : t[i] = IF i <= Len(e) THEN e[i] ELSE d[i - Len(e)]
    BY <1>2, <1>3, ConcatProperties
  <2>2. Len(d) = 3
    BY <1>3
  <2> QED
    BY <1>1, <2>1, <2>2
<1>5. /\ \A i \in 1..n : t[i] = e[i]
      /\ t[n + 1] = "crlf" /\ t[n + 2] = "." /\ t[n + 3] = "crlf"
      /\ DOMAIN t = 1..(n + 3) /\ DOMAIN e = 1..n
  <2>1. t[n + 1] = d[1] /\ t[n + 2] = d[2] /\ t[n + 3] = d[3]
    <3>1. /\ n + 1 \in 1..(n + 3) /\ ~(n + 1 <= n) /\ (n + 1) - n = 1
          /\ n + 2 \in 1..(n + 3) /\ ~(n + 2 <= n) /\ (n + 2) - n = 2
          /\ n + 3 \in 1..(n + 3) /\ ~(n + 3 <= n) /\ (n + 3) - n = 3
      OBVIOUS
    <3> QED
      BY <1>4, <3>1
  <2>2. \A i \in 1..n : i \in 1..(n + 3) /\ i <= n
    OBVIOUS
  <2>3. \A i \in 1..n : t[i] = e[i]
    BY <1>4, <2>2
  <2>4. DOMAIN t = 1..(n + 3) /\ DOMAIN e = 1..n
    BY <1>1, <1>4, SeqFacts
  <2> QED
    BY <1>3, <2>1, <2>3, <2>4
<1>6. EndsData(t, n + 2)
  <2>1. (n + 2) - 1 = n + 1 /\ (n + 2) + 1 = n + 3 /\ n + 2 < n + 3
    OBVIOUS
  <2> QED
    BY <1>4, <1>5, <2>1 DEF EndsData, StartsLine
<1>7. ASSUME NEW i \in 1..(n + 1) PROVE ~EndsData(t, i)
  <2>1. CASE i = n + 1
    BY <1>5, <2>1 DEF EndsData
  <2>2. CASE i # n + 1
    <3>1. i \in 1..n /\ (i # 1 => i - 1 \in 1..n)
      BY <2>2
    <3>2. SUFFICES ASSUME EndsData(t, i) PROVE FALSE
      OBVIOUS
    <3>3. e[i] = "." /\ StartsLine(e, i, {"crlf"})
      BY <1>5, <3>1, <3>2 DEF EndsData, StartsLine
    <3>4. i < n /\ e[i + 1] = "."
      BY <1>1, <1>5, <3>1, <3>3 DEF Paired
    <3>5. i + 1 \in 1..n
      BY <3>1, <3>4
    <3>6. t[i + 1] = "."
      BY <1>5, <3>4, <3>5
    <3> QED
      BY <3>2, <3>6 DEF EndsData
  <2> QED
    BY <2>1, <2>2
<1>8. DataEnd(t) = n + 2
  <2>1. n + 2 \in DOMAIN t /\ \A j \in 1..((n + 2) - 1) : j \in 1..(n + 1)
    BY <1>5
  <2>2. ASSUME NEW i \in DOMAIN t, EndsData(t, i), \A j \in 1..(i - 1) : ~EndsData(t, j)
        PROVE  i = n + 2
    <3>1. ~(i \in 1..(n + 1)) /\ ~(n + 2 \in 1..(i - 1))
      BY <1>6, <1>7, <2>2
    <3> QED
      BY <1>5, <3>1
  <2> QED
    BY <1>6, <1>7, <2>1, <2>2 DEF DataEnd
<1>9. PICK x : x = Append(e, "crlf")
  OBVIOUS
<1>10. x \in Seq(A) /\ Len(x) = n + 1 /\ x[n + 1] = "crlf" /\ \A i \in 1..n : x[i] = e[i]
  BY <1>1, <1>9, AppendFacts
<1>11. SubSeq(t, 1, n + 1) = x
  <2>1. n + 1 \in 0..Len(t)
    BY <1>4
  <2>2. PICK z : z = SubSeq(t, 1, n + 1)
    OBVIOUS
  <2>3. z \in Seq(A) /\ Len(z) = n + 1 /\ \A i \in 1..(n + 1) : z[i] = t[i]
    BY <1>4, <2>1, <2>2, Halves
  <2>4. ASSUME NEW i \in 1..(n + 1) PROVE z[i] = x[i]
    <3>1. i = n + 1 \/ i \in 1..n
      OBVIOUS
    <3> QED
      BY <1>5, <1>10, <2>3, <3>1
  <2>5. z = x
    BY <1>10, <2>3, <2>4, SeqEqual
  <2> QED
    BY <2>2, <2>5
<1>12. DataOf(t) = IF Len(x) > 1 THEN Front(x) ELSE x
  <2>1. DataEnd(t) - 1 = n + 1
    BY <1>8
  <2> QED
    BY <1>11, <2>1, DataIsPrefix
<1>13. CASE n = 0
  <2>1. e = <<>> /\ ~(Len(x) > 1)
    <3>1. e = <<>>
      BY <1>1, <1>13, NoElement
    <3>2. Len(x) = 1
      BY <1>10, <1>13
    <3> QED
      BY <3>1, <3>2
  <2>2. x = <<"crlf">>
    <3>1. PICK y : y = <<"crlf">>
      OBVIOUS
    <3>2. y \in Seq(A) /\ Len(y) = 1 /\ y[1] = "crlf"
      BY <3>1, OneElement
    <3>3. Len(x) = 1 /\ x[1] = "crlf"
      BY <1>10, <1>13
    <3>4. \A i \in 1..Len(x) : x[i] = y[i]
      <4>1. \A i \in 1..1 : i = 1
        OBVIOUS
      <4> QED
        BY <3>2, <3>3, <4>1
    <3>5. x = y
      BY <1>10, <3>2, <3>3, <3>4, SeqEqual
    <3> QED
      BY <3>1, <3>5
  <2> QED
    BY <1>12, <2>1, <2>2
<1>14. CASE n # 0
  <2>1. e # <<>> /\ Len(x) > 1 /\ Len(x) - 1 = n /\ n \in 0..Len(x)
    BY <1>1, <1>10, <1>14
  <2>2. Front(x) = SubSeq(x, 1, n)
    BY <2>1 DEF Front
  <2>3. PICK z : z = SubSeq(x, 1, n)
    OBVIOUS
  <2>4. z \in Seq(A) /\ Len(z) = n /\ \A i \in 1..n : z[i] = x[i]
    BY <1>10, <2>1, <2>3, Halves
  <2>5. z = e
    <3>1. \A i \in 1..Len(z) : z[i] = e[i]
      BY <1>10, <2>4
    <3> QED
      BY <1>1, <2>4, <3>1, SeqEqual
  <2> QED
    BY <1>12, <2>1, <2>2, <2>3, <2>5
<1> QED
  BY <1>13, <1>14

\* What the server reads is what the client wrote.
LEMMA ReadAsWritten ==
  ASSUME NEW A, {".", "crlf"} \subseteq A, NEW t \in Seq(A)
  PROVE  deescape_dot(DataOf(EscapeDots(t) \o <<"crlf", ".", "crlf">>))
            = IF t = <<>> THEN <<"crlf">> ELSE t
<1>1. PICK e : e = EscapeDots(t)
  OBVIOUS
<1>2. PICK n \in Nat : n = Len(t)
  BY SeqFacts
<1>3. e \in Seq(A) /\ Undone(e, t, n)
  BY <1>1, <1>2, EscapeDotsUndone
<1>4. PICK z : z = e \o <<"crlf", ".", "crlf">>
  OBVIOUS
<1>5. DataOf(z) = IF e = <<>> THEN <<"crlf">> ELSE e
  BY <1>3, <1>4, DataOfPaired DEF Undone
<1>6. CASE n = 0
  <2>1. t = <<>> /\ e = <<>>
    <3>1. t = <<>>
      BY <1>2, <1>6, NoElement
    <3>2. e = <<>>
      BY <1>3, <1>6, Zenon DEF Undone
    <3> QED
      BY <3>1, <3>2
  <2>2. PICK x : x = <<>>
    OBVIOUS
  <2>3. PICK y : y = Append(x, "crlf")
    OBVIOUS
  <2>4. x \in Seq(A) /\ Len(x) = 0 /\ y = <<"crlf">>
    BY <2>2, <2>3
  <2>5. "crlf" \in A
    OBVIOUS
  <2>6. deescape_dot(y) = deescape_dot(x) \o (IF Halved(y, Len(x) + 1) THEN <<>> ELSE <<"crlf">>)
    BY <2>3, <2>4, <2>5, deescapeAppend
  <2>7. ~Halved(y, Len(x) + 1)
    BY <2>4 DEF Halved
  <2>8. deescape_dot(x) = <<>>
    <3>1. SubSeq(t, 1, 0) = <<>>
      <4>1. 0 \in Int /\ 1 \in Int /\ 0 < 1
        OBVIOUS
      <4> QED
        BY <4>1, SubSeqEmpty
    <3> QED
      BY <1>3, <1>6, <2>1, <2>2, <3>1 DEF Undone
  <2>9. deescape_dot(y) = <<>> \o <<"crlf">>
    BY <2>6, <2>7, <2>8, Zenon
  <2>10. <<>> \o <<"crlf">> = <<"crlf">>
    OBVIOUS
  <2>11. DataOf(z) = y
    BY <1>5, <2>1, <2>4
  <2> QED
    BY <1>1, <1>4, <2>1, <2>9, <2>10, <2>11, Zenon
<1>7. CASE n # 0
  <2>1. t # <<>> /\ e # <<>> /\ deescape_dot(e) = SubSeq(t, 1, n)
    BY <1>2, <1>3, <1>7 DEF Undone
  <2>2. SubSeq(t, 1, n) = t
    BY <1>2, SubSeqFull
  <2> QED
    BY <1>1, <1>4, <1>5, <2>1, <2>2, Zenon
<1> QED
  BY <1>6, <1>7

-----------------------------------------------------------------------------
(***************************************************************************)
(* What the module speaks.                                                 *)
(***************************************************************************)

PartEnds(t, pos, i) ==
  LET p == pos + i - 1
  IN  \/ i = PartLength \/ p = Len(t)
      \/ /\ Len(t) - i > 2 /\ t[p + 1] \in Newlines
         /\ t[p] = "." \/ (t[p] = "lf" /\ t[p + 1] = "lf")
            \/ (Len(t) - i > 4 /\ t[p] = "crlf" /\ t[p + 1] = "crlf")
PartSize(t, pos) == CHOOSE i \in 1..PartLength :
                      PartEnds(t, pos, i) /\ \A j \in 1..(i - 1) : ~PartEnds(t, pos, j)
PartsFrom(f, t, pos) ==
  IF pos > Len(t) THEN <<>>
  ELSE <<SubSeq(t, pos, pos + PartSize(t, pos) - 1)>> \o f[pos + PartSize(t, pos)]
Parted(f, t) == f = [pos \in 1..(Len(t) + 1) |-> PartsFrom(f, t, pos)]

LEMMA MessagePartsAreParted ==
  ASSUME NEW t PROVE MessageParts(t) = (CHOOSE f : Parted(f, t))[1]
BY DEF MessageParts, Parted, PartsFrom, PartSize, PartEnds

\* A part is not empty and does not go beyond the end.
LEMMA PartSizeFits ==
  ASSUME NEW A, NEW t \in Seq(A), NEW pos \in 1..Len(t)
  PROVE  PartSize(t, pos) \in 1..(Len(t) + 1 - pos)
<1>1. PICK n \in Nat : n = Len(t)
  BY SeqFacts
<1>2. PICK k : k = n + 1 - pos
  OBVIOUS
<1>3. k \in Nat /\ k >= 1 /\ pos + k - 1 = n
  BY <1>1, <1>2
<1>4. PartLength \in Nat /\ PartLength >= 1
  BY TextsAssumption
<1> DEFINE I == {i \in 1..PartLength : PartEnds(t, pos, i)}
<1>5. \E i \in I : i <= k
  <2>1. CASE k <= PartLength
    <3>1. PartEnds(t, pos, k)
      BY <1>1, <1>3 DEF PartEnds
    <3>2. k \in 1..PartLength /\ k <= k
      BY <1>3, <1>4, <2>1
    <3> QED
      BY <3>1, <3>2
  <2>2. CASE ~(k <= PartLength)
    <3>1. PartEnds(t, pos, PartLength)
      BY DEF PartEnds
    <3>2. PartLength \in 1..PartLength /\ PartLength <= k
      BY <1>3, <1>4, <2>2
    <3> QED
      BY <3>1, <3>2
  <2> QED
    BY <2>1, <2>2
<1>6. I \subseteq Nat /\ I \subseteq 1..PartLength
  OBVIOUS
<1>7. \A i \in 1..PartLength : i \in I <=> PartEnds(t, pos, i)
  OBVIOUS
<1> HIDE DEF I
<1>8. PICK i \in I : \A j \in I : i <= j
  <2>1. I # {}
    BY <1>5
  <2> QED
    BY <1>6, <2>1, LeastNumber
<1>9. i \in 1..PartLength /\ PartEnds(t, pos, i) /\ \A j \in 1..(i - 1) : ~PartEnds(t, pos, j)
  <2>1. i \in 1..PartLength /\ PartEnds(t, pos, i)
    BY <1>6, <1>7, <1>8
  <2>2. ASSUME NEW j \in 1..(i - 1), PartEnds(t, pos, j) PROVE FALSE
    <3>1. j \in 1..PartLength /\ ~(i <= j)
      BY <1>4, <2>1
    <3>2. j \in I
      BY <1>7, <2>2, <3>1
    <3> QED
      BY <1>8, <3>1, <3>2
  <2> QED
    BY <2>1, <2>2
<1>10. PICK s : s = PartSize(t, pos)
  OBVIOUS
<1>11. s \in 1..PartLength /\ PartEnds(t, pos, s) /\ \A j \in 1..(s - 1) : ~PartEnds(t, pos, j)
  BY <1>9, <1>10 DEF PartSize
<1>12. ASSUME NEW j \in I PROVE s <= j
  <2>1. j \in 1..PartLength /\ PartEnds(t, pos, j)
    BY <1>6, <1>7
  <2>2. ~(j \in 1..(s - 1))
    BY <1>11, <2>1
  <2> QED
    BY <1>4, <1>11, <2>1, <2>2
<1>13. s <= k
  <2>1. PICK j \in I : j <= k
    BY <1>5
  <2>2. s <= j /\ j \in Nat
    BY <1>6, <1>12
  <2> QED
    BY <1>3, <1>11, <2>1, <2>2
<1>14. s \in 1..k
  BY <1>3, <1>4, <1>11, <1>13
<1> QED
  BY <1>1, <1>2, <1>10, <1>14

\* The parts from m on.
LEMMA PartsExist ==
  ASSUME NEW A, NEW t \in Seq(A)
  PROVE  \E f : Parted(f, t)
<1>1. PICK n \in Nat : n = Len(t)
  BY SeqFacts
<1>2. \A pos \in 1..n : PartSize(t, pos) \in 1..(n + 1 - pos)
  BY <1>1, PartSizeFits
<1> DEFINE From(f, m) == /\ f = [pos \in 1..(n + 1) |-> f[pos]]
                         /\ \A pos \in m..(n + 1) : f[pos] = PartsFrom(f, t, pos)
           I == {i \in 0..n : \E f : From(f, n + 1 - i)}
<1>3. 0 \in I
  <2>1. PICK f : f = [pos \in 1..(n + 1) |-> <<>>]
    OBVIOUS
  <2>2. f = [pos \in 1..(n + 1) |-> f[pos]]
    BY <2>1
  <2>3. \A pos \in (n + 1 - 0)..(n + 1) : pos = n + 1
    OBVIOUS
  <2>4. f[n + 1] = PartsFrom(f, t, n + 1)
    <3>1. n + 1 \in 1..(n + 1) /\ n + 1 > n
      OBVIOUS
    <3> QED
      BY <1>1, <2>1, <3>1 DEF PartsFrom
  <2>5. From(f, n + 1 - 0)
    BY <2>2, <2>3, <2>4
  <2>6. 0 \in 0..n
    OBVIOUS
  <2> HIDE DEF From
  <2> QED
    BY <2>5, <2>6
<1>4. ASSUME NEW i \in 1..n, i - 1 \in I PROVE i \in I
  <2>1. PICK m : m = n + 1 - i
    OBVIOUS
  <2>2. m \in 1..n /\ n + 1 - (i - 1) = m + 1 /\ i \in 0..n
    BY <2>1
  <2>3. PICK f : From(f, m + 1)
    BY <1>4, <2>2
  <2>4. PICK w : w = PartsFrom(f, t, m)
    OBVIOUS
  <2>5. PICK g : g = [pos \in 1..(n + 1) |-> IF pos = m THEN w ELSE f[pos]]
    OBVIOUS
  <2>6. /\ g = [pos \in 1..(n + 1) |-> g[pos]] /\ g[m] = w
        /\ \A pos \in (m + 1)..(n + 1) : g[pos] = f[pos]
    <3>1. m \in 1..(n + 1) /\ \A pos \in (m + 1)..(n + 1) : pos \in 1..(n + 1) /\ pos # m
      BY <2>2
    <3>2. g = [pos \in 1..(n + 1) |-> g[pos]]
      BY <2>5
    <3> HIDE DEF From
    <3> QED
      BY <2>5, <3>1, <3>2
  <2>7. ASSUME NEW pos \in m..(n + 1) PROVE g[pos] = PartsFrom(g, t, pos)
    <3>1. PartsFrom(g, t, pos) = PartsFrom(f, t, pos)
      <4>1. CASE pos > n
        BY <1>1, <4>1 DEF PartsFrom
      <4>2. CASE ~(pos > n)
        <5>1. pos \in 1..n
          BY <2>2, <4>2
        <5>2. PICK s \in 1..(n + 1 - pos) : s = PartSize(t, pos)
          BY <1>2, <5>1
        <5>3. pos + s \in (m + 1)..(n + 1)
          BY <2>2, <5>1, <5>2
        <5>4. g[pos + s] = f[pos + s]
          BY <2>6, <5>3
        <5> QED
          BY <5>2, <5>4, Zenon DEF PartsFrom
      <4> QED
        BY <4>1, <4>2
    <3>2. CASE pos = m
      BY <2>4, <2>6, <3>1, <3>2
    <3>3. CASE pos # m
      <4>1. pos \in (m + 1)..(n + 1)
        BY <2>2, <3>3
      <4>2. f[pos] = PartsFrom(f, t, pos)
        BY <2>3, <4>1
      <4> QED
        BY <2>6, <3>1, <4>1, <4>2, Zenon
    <3> QED
      BY <3>2, <3>3
  <2>8. From(g, m)
    BY <2>6, <2>7
  <2> HIDE DEF From
  <2> QED
    BY <2>1, <2>2, <2>8
<1> HIDE DEF I, From
<1>5. \A i \in 0..n : i \in I
  BY <1>3, <1>4, UpTo
<1>6. n \in I /\ n + 1 - n = 1
  BY <1>5
<1>7. PICK f : From(f, 1)
  BY <1>6 DEF I
<1>8. f = [pos \in 1..(n + 1) |-> PartsFrom(f, t, pos)]
  <2>1. PICK h : h = [pos \in 1..(n + 1) |-> PartsFrom(f, t, pos)]
    OBVIOUS
  <2>2. \A pos \in 1..(n + 1) : f[pos] = h[pos]
    BY <1>7, <2>1 DEF From
  <2>3. f = [pos \in 1..(n + 1) |-> f[pos]] /\ h = [pos \in 1..(n + 1) |-> h[pos]]
    BY <1>7, <2>1 DEF From
  <2>4. f = h
    BY <2>2, <2>3
  <2> QED
    BY <2>1, <2>4
<1> QED
  BY <1>1, <1>8 DEF Parted

\* Part by part the whole text is spoken.
LEMMA PartsAreAll ==
  ASSUME NEW A, NEW t \in Seq(A)
  PROVE  FlattenSeq(MessageParts(t)) = t
<1>1. PICK n \in Nat : n = Len(t)
  BY SeqFacts
<1>2. PICK f : f = CHOOSE g : Parted(g, t)
  OBVIOUS
<1>3. Parted(f, t)
  BY <1>2, PartsExist
<1>4. \A pos \in 1..(n + 1) : f[pos] = PartsFrom(f, t, pos)
  BY <1>1, <1>3 DEF Parted
<1>5. PICK B : B = Seq(A)
  OBVIOUS
<1> DEFINE Good(pos) == f[pos] \in Seq(B) /\ FlattenSeq(f[pos]) = SubSeq(t, pos, n)
           I == {i \in 0..n : \A pos \in (n + 1 - i)..(n + 1) : Good(pos)}
<1>6. 0 \in I
  <2>1. \A pos \in (n + 1 - 0)..(n + 1) : pos = n + 1
    OBVIOUS
  <2>2. f[n + 1] = <<>>
    <3>1. n + 1 \in 1..(n + 1) /\ n + 1 > n
      OBVIOUS
    <3> QED
      BY <1>1, <1>4, <3>1 DEF PartsFrom
  <2>3. FlattenSeq(<<>>) = <<>>
    <3>1. <<>> \in Seq(Seq(A))
      OBVIOUS
    <3>2. PICK R : IsJoin(R, A, <<>>)
      BY <3>1, JoinExists
    <3> QED
      BY <3>2 DEF IsJoin
  <2>4. SubSeq(t, n + 1, n) = <<>>
    <3>1. n + 1 \in Int /\ n \in Int /\ n < n + 1
      OBVIOUS
    <3> QED
      BY <3>1, SubSeqEmpty
  <2>5. <<>> \in Seq(B)
    OBVIOUS
  <2>6. Good(n + 1)
    BY <2>2, <2>3, <2>4, <2>5
  <2>7. 0 \in 0..n
    OBVIOUS
  <2> HIDE DEF Good
  <2> QED
    BY <2>1, <2>6, <2>7
<1>7. ASSUME NEW i \in 1..n, i - 1 \in I PROVE i \in I
  <2>1. PICK m : m = n + 1 - i
    OBVIOUS
  <2>2. m \in 1..n /\ n + 1 - (i - 1) = m + 1 /\ i \in 0..n /\ m \in 1..(n + 1) /\ ~(m > n)
    BY <2>1
  <2>3. \A pos \in (m + 1)..(n + 1) : Good(pos)
    BY <1>7, <2>2
  <2>4. PICK s \in 1..(n + 1 - m) : s = PartSize(t, m)
    BY <1>1, <2>2, PartSizeFits
  <2>5. PICK k : k = m + s - 1
    OBVIOUS
  <2>6. /\ k \in m..n /\ m + s = k + 1 /\ m + s \in (m + 1)..(n + 1)
        /\ m \in 1..(n + 1) /\ k \in (m - 1)..n /\ n \in k..n
    BY <2>2, <2>4, <2>5
  <2>7. PICK r : r = f[k + 1]
    OBVIOUS
  <2>8. r \in Seq(B) /\ FlattenSeq(r) = SubSeq(t, k + 1, n)
    BY <2>3, <2>6, <2>7
  <2>9. PICK w : w = SubSeq(t, m, k)
    OBVIOUS
  <2>10. w \in B
    <3>1. m \in Int /\ k \in Int /\ \A j \in m..k : t[j] \in A
      BY <1>1, <2>2, <2>6
    <3> QED
      BY <1>5, <2>9, <3>1, SubSeqProperties
  <2>11. f[m] = <<w>> \o r
    BY <1>1, <1>4, <2>2, <2>4, <2>5, <2>6, <2>7, <2>9 DEF PartsFrom
  <2>12. PICK v : v = <<w>>
    OBVIOUS
  <2>13. v \in Seq(B) /\ FlattenSeq(v) = w
    BY <1>5, <2>10, <2>12, OneElement, FlattenOne
  <2>14. PICK u : u = v \o r
    OBVIOUS
  <2>15. u \in Seq(B)
    BY <2>8, <2>13, <2>14
  <2>16. FlattenSeq(u) = w \o SubSeq(t, k + 1, n)
    <3>1. FlattenSeq(v \o r) = FlattenSeq(v) \o FlattenSeq(r)
      BY <1>5, <2>8, <2>13, FlattenConcat
    <3> QED
      BY <2>8, <2>13, <2>14, <3>1, Zenon
  <2>17. SubSeq(t, m, k) \o SubSeq(t, k + 1, n) = SubSeq(t, m, n)
    BY <1>1, <2>6, ConcatAdjacentSubSeq
  <2>18. Good(m)
    BY <2>9, <2>11, <2>12, <2>14, <2>15, <2>16, <2>17, Zenon
  <2> HIDE DEF Good
  <2>19. \A pos \in m..(n + 1) : pos = m \/ pos \in (m + 1)..(n + 1)
    BY <2>2
  <2> QED
    BY <2>1, <2>2, <2>3, <2>18, <2>19
<1> HIDE DEF I, Good
<1>8. \A i \in 0..n : i \in I
  BY <1>6, <1>7, UpTo
<1>9. n \in I /\ n + 1 - n = 1 /\ 1 \in 1..(n + 1)
  BY <1>8
<1>10. Good(1)
  BY <1>9 DEF I
<1>11. MessageParts(t) = f[1]
  BY <1>2, MessagePartsAreParted
<1>12. SubSeq(t, 1, n) = t
  BY <1>1, SubSeqFull
<1> QED
  BY <1>10, <1>11, <1>12 DEF Good

LEMMA WithoutMarks ==
  ASSUME NEW t PROVE Without(t, Marks) = Audible(t, "server")
<1>1. PICK x : x = [i \in DOMAIN t |-> IF t[i] \in Marks THEN <<>> ELSE <<t[i]>>]
  OBVIOUS
<1>2. \A i \in DOMAIN t : Ear(t[i], "server") = IF t[i] \in Marks THEN <<>> ELSE <<t[i]>>
  BY DEF Ear
<1>3. Ears(t, "server") = x
  BY <1>1, <1>2 DEF Ears
<1>4. Without(t, Marks) = FlattenSeq(x)
  BY <1>1 DEF Without, Replaced
<1> QED
  BY <1>3, <1>4 DEF Audible

LEMMA WithoutTags ==
  ASSUME NEW t PROVE Without(t, Tags) = Audible(t, "ssml")
<1>1. PICK x : x = [i \in DOMAIN t |-> IF t[i] \in Tags THEN <<>> ELSE <<t[i]>>]
  OBVIOUS
<1>2. \A i \in DOMAIN t : Ear(t[i], "ssml") = IF t[i] \in Tags THEN <<>> ELSE <<t[i]>>
  BY DEF Ear
<1>3. Ears(t, "ssml") = x
  BY <1>1, <1>2 DEF Ears
<1>4. Without(t, Tags) = FlattenSeq(x)
  BY <1>1 DEF Without, Replaced
<1> QED
  BY <1>3, <1>4 DEF Audible

\* Without a "<" there is nothing inside a tag.
LEMMA StripIsAudible ==
  ASSUME NEW t \in Seq(Alphabet \ {"<"})
  PROVE  module_strip_ssml(t) = Audible(t, "text")
<1>1. \A i \in DOMAIN t : t[i] # "<" /\ t[i] \in Alphabet
  OBVIOUS
<1>2. ASSUME NEW i \in DOMAIN t PROVE ~InsideTag(t, i)
  <2>1. SUFFICES ASSUME NEW j \in 1..(i - 1), t[j] = "<" PROVE FALSE
    BY DEF InsideTag
  <2>2. j \in DOMAIN t
    OBVIOUS
  <2> QED
    BY <1>1, <2>1, <2>2
<1> DEFINE by(i) == CASE t[i] = "&lt" -> <<"<">> [] t[i] = "&gt" -> <<">">>
                      [] t[i] = "&amp" -> <<"&">>
                      [] t[i] \in Tags \cup {"<", ">"} \/ InsideTag(t, i) -> <<>>
                      [] OTHER -> <<t[i]>>
<1>3. "&lt" \notin Tags /\ "&gt" \notin Tags /\ "&amp" \notin Tags
  BY AlphabetFacts DEF Tags
<1>4. ASSUME NEW i \in DOMAIN t PROVE by(i) = Ear(t[i], "text")
  <2>0. ~InsideTag(t, i)
    BY <1>2
  <2>1. CASE t[i] = "&lt"
    BY <1>3, <2>0, <2>1 DEF Ear
  <2>2. CASE t[i] = "&gt"
    BY <1>3, <2>0, <2>2 DEF Ear
  <2>3. CASE t[i] = "&amp"
    BY <1>3, <2>0, <2>3 DEF Ear
  <2>4. CASE t[i] \in Tags \cup {"<", ">"}
    <3>1. t[i] # "&lt" /\ t[i] # "&gt" /\ t[i] # "&amp"
      BY <1>3, <2>4
    <3> QED
      BY <2>4, <3>1 DEF Ear
  <2>5. CASE t[i] \notin {"&lt", "&gt", "&amp"} \cup Tags \cup {"<", ">"}
    BY <2>0, <2>5 DEF Ear
  <2> QED
    BY <2>1, <2>2, <2>3, <2>4, <2>5
<1>5. PICK x : x = [i \in DOMAIN t |-> by(i)]
  OBVIOUS
<1>6. module_strip_ssml(t) = FlattenSeq(x)
  BY <1>5 DEF module_strip_ssml, Replaced
<1> HIDE DEF by
<1>7. Ears(t, "text") = x
  BY <1>4, <1>5 DEF Ears
<1> QED
  BY <1>6, <1>7 DEF Audible

\* The synthesiser speaks what is for the ear.
LEMMA SpokenIsAudible ==
  ASSUME NEW t \in Seq(Alphabet), NEW m \in {"text", "ssml"},
         m = "text" => t \in Seq(Alphabet \ {"<"})
  PROVE  Spoken(t, m) = Audible(t, m)
<1>1. CASE m = "text"
  <2>1. PICK x : x = module_strip_ssml(t)
    OBVIOUS
  <2>2. x = Audible(t, "text")
    BY <1>1, <2>1, StripIsAudible
  <2>3. x \in Seq(Alphabet)
    BY <2>2, AudibleType
  <2>4. FlattenSeq(MessageParts(x)) = x
    BY <2>3, PartsAreAll
  <2> QED
    BY <1>1, <2>1, <2>2, <2>4 DEF Spoken
<1>2. CASE m = "ssml"
  BY <1>2, WithoutTags DEF Spoken
<1> QED
  BY <1>1, <1>2

-----------------------------------------------------------------------------
(***************************************************************************)
(* The dot that output.c has added at the end of a message, and that the   *)
(* module takes off again.                                                 *)
(***************************************************************************)

EndsDoubled(t) == /\ Len(t) >= 2 /\ t[Len(t)] = "." /\ t[Len(t) - 1] = "."
                  /\ StartsLine(t, Len(t) - 1, Newlines)
Fixed(t) == IF EndsDoubled(t) THEN SubSeq(t, 1, Len(t) - 1) ELSE t

LEMMA FixedType ==
  ASSUME NEW A, NEW t \in Seq(A)
  PROVE  /\ Fixed(t) \in Seq(A)
         /\ EndsDoubled(t) => /\ Len(Fixed(t)) = Len(t) - 1 /\ "." \in A
                              /\ t = Append(Fixed(t), ".")
         /\ \A i \in 1..Len(Fixed(t)) : i \in 1..Len(t) /\ Fixed(t)[i] = t[i]
<1>1. PICK n \in Nat : n = Len(t)
  BY SeqFacts
<1>2. CASE EndsDoubled(t)
  <2>1. n >= 2 /\ t[n] = "." /\ n \in 1..n /\ n - 1 \in 0..n
    BY <1>1, <1>2 DEF EndsDoubled
  <2>2. PICK x : x = SubSeq(t, 1, n - 1)
    OBVIOUS
  <2>3. x \in Seq(A) /\ Len(x) = n - 1 /\ \A i \in 1..(n - 1) : x[i] = t[i]
    BY <1>1, <2>1, <2>2, Halves
  <2>4. t = x \o <<t[n]>>
    <3>1. SubSeq(t, 1, n) = SubSeq(t, 1, n - 1) \o <<t[n]>>
      BY <1>1, <2>1, PrefixNext
    <3>2. SubSeq(t, 1, n) = t
      BY <1>1, SubSeqFull
    <3> QED
      BY <2>2, <3>1, <3>2
  <2>5. "." \in A
    BY <1>1, <2>1, SeqFacts
  <2>6. t = Append(x, ".")
    BY <2>1, <2>3, <2>4, <2>5, AppendFacts
  <2>7. Fixed(t) = x
    BY <1>1, <1>2, <2>2 DEF Fixed
  <2>8. \A i \in 1..(n - 1) : i \in 1..n
    OBVIOUS
  <2> QED
    BY <1>1, <2>3, <2>5, <2>6, <2>7, <2>8
<1>3. CASE ~EndsDoubled(t)
  BY <1>3 DEF Fixed
<1> QED
  BY <1>2, <1>3

LEMMA FrontAppend ==
  ASSUME NEW A, NEW x \in Seq(A), NEW c \in A, NEW y, y = Append(x, c)
  PROVE  Front(y) = x /\ y # <<>>
<1>1. PICK n \in Nat : n = Len(x)
  BY SeqFacts
<1>2. y \in Seq(A) /\ Len(y) = n + 1 /\ \A i \in 1..n : y[i] = x[i]
  BY <1>1, AppendFacts
<1>3. PICK z : z = SubSeq(y, 1, n)
  OBVIOUS
<1>4. z \in Seq(A) /\ Len(z) = n /\ \A i \in 1..n : z[i] = y[i]
  <2>1. n \in 0..Len(y)
    BY <1>2
  <2> QED
    BY <1>2, <1>3, <2>1, Halves
<1>5. z = x
  <2>1. \A i \in 1..Len(z) : z[i] = x[i]
    BY <1>2, <1>4
  <2> QED
    BY <1>1, <1>4, <2>1, SeqEqual
<1>6. Front(y) = SubSeq(y, 1, n)
  <2>1. Len(y) - 1 = n
    BY <1>2
  <2> QED
    BY <2>1 DEF Front
<1>7. y # <<>>
  BY <1>2
<1> QED
  BY <1>3, <1>5, <1>6, <1>7

Undoubles(t, i) == /\ i > 1 /\ t[i - 1] = "." /\ StartsLine(t, i - 1, Newlines)
                   /\ t[i] = "." /\ t[i + 1] = "lf"
Undoubled(t, u) == [i \in DOMAIN u |-> IF Undoubles(t, i) THEN <<>> ELSE <<t[i]>>]

LEMMA MessageIsRead ==
  ASSUME NEW t, NEW u, u = SubSeq(t, 1, EndOf(t) - 1), NEW v, v = FlattenSeq(Undoubled(t, u))
  PROVE  do_message(t).msg = IF v = <<>> THEN v ELSE Front(v)
BY DEF do_message, EndOf, EndsMessage, Undoubled, Undoubles, Replaced

\* escape_dot() of a text with marks.
LEMMA EscapeFixed ==
  ASSUME NEW x \in Seq(Alphabet), NoDotLine(x)
  PROVE  /\ escape_dot(x) \in Seq(Alphabet) /\ Fixed(escape_dot(x)) = Fixed(x)
         /\ escape_dot(x) = x \/ (EndsInLoneDot(x) /\ escape_dot(x) = Append(x, "."))
         /\ \A i \in 1..(Len(escape_dot(x)) - 1) : ~(escape_dot(x)[i] = "." /\ escape_dot(x)[i + 1] = "lf")
<1>1. PICK e : e = escape_dot(x)
  OBVIOUS
<1>2. e = IF EndsInLoneDot(x) THEN Append(x, ".") ELSE x
  BY <1>1, EscapeOnce
<1>3. PICK n \in Nat : n = Len(x)
  BY SeqFacts
<1>4. "." \in Alphabet
  BY AlphabetFacts
<1>5. \A i \in 1..(n - 1) : ~(x[i] = "." /\ x[i + 1] = "lf")
  BY <1>3 DEF NoDotLine, Newlines
<1>6. CASE ~EndsInLoneDot(x)
  BY <1>1, <1>2, <1>3, <1>5, <1>6
<1>7. CASE EndsInLoneDot(x)
  <2>1. e = Append(x, ".") /\ n # 0 /\ x[n] = "." /\ StartsLine(x, n, Newlines)
    BY <1>2, <1>3, <1>7 DEF EndsInLoneDot, LoneLine
  <2>2. e \in Seq(Alphabet) /\ Len(e) = n + 1 /\ e[n + 1] = "." /\ \A i \in 1..n : e[i] = x[i]
    BY <1>3, <1>4, <2>1, AppendFacts
  <2>3. n \in 1..n /\ (n # 1 => n - 1 \in 1..n) /\ (n + 1) - 1 = n /\ n + 1 >= 2
    BY <2>1
  <2>4. EndsDoubled(e)
    BY <2>1, <2>2, <2>3 DEF EndsDoubled, StartsLine
  <2>5. ~EndsDoubled(x)
    <3>1. SUFFICES ASSUME EndsDoubled(x) PROVE FALSE
      OBVIOUS
    <3>2. n # 1 /\ x[n - 1] = "."
      BY <1>3, <3>1 DEF EndsDoubled
    <3> QED
      BY <2>1, <3>2 DEF StartsLine, Newlines
  <2>6. Fixed(x) = x
    BY <2>5 DEF Fixed
  <2>7. Fixed(e) = x
    <3>1. PICK y : y = Fixed(e)
      OBVIOUS
    <3>2. y \in Seq(Alphabet) /\ Len(y) = n /\ \A i \in 1..n : y[i] = e[i]
      <4>1. y \in Seq(Alphabet) /\ Len(y) = Len(e) - 1 /\ \A i \in 1..Len(y) : y[i] = e[i]
        BY <2>2, <2>4, <3>1, FixedType
      <4> QED
        BY <2>2, <4>1
    <3>3. \A i \in 1..Len(y) : y[i] = x[i]
      BY <2>2, <3>2
    <3>4. y = x
      BY <1>3, <3>2, <3>3, SeqEqual
    <3> QED
      BY <3>1, <3>4
  <2>8. ASSUME NEW i \in 1..(Len(e) - 1) PROVE ~(e[i] = "." /\ e[i + 1] = "lf")
    <3>1. CASE i = n
      BY <2>2, <3>1
    <3>2. CASE i # n
      <4>1. i \in 1..(n - 1) /\ i \in 1..n /\ i + 1 \in 1..n
        BY <2>2, <3>2
      <4> QED
        BY <1>5, <2>2, <4>1
    <3> QED
      BY <3>1, <3>2
  <2> QED
    BY <1>1, <1>7, <2>1, <2>2, <2>6, <2>7, <2>8
<1> QED
  BY <1>6, <1>7

\* The module reads the message without the dot that was added.
LEMMA ReadIsFixed ==
  ASSUME NEW x \in Seq(Alphabet), NoDotLine(x)
  PROVE  do_message(escape_dot(x) \o <<"lf", ".", "lf">>).msg = Fixed(escape_dot(x))
<1>1. PICK e : e = escape_dot(x)
  OBVIOUS
<1>2. /\ e \in Seq(Alphabet)
      /\ \A i \in 1..(Len(e) - 1) : ~(e[i] = "." /\ e[i + 1] = "lf")
  BY <1>1, EscapeFixed
<1>3. PICK n \in Nat : n = Len(e)
  BY <1>2, SeqFacts
<1>4. PICK d : d = <<"lf", ".", "lf">>
  OBVIOUS
<1>5. d \in Seq(Alphabet) /\ Len(d) = 3 /\ d[1] = "lf"
  <2>1. "." \in Alphabet /\ "lf" \in Alphabet
    BY AlphabetFacts
  <2>2. d \in Seq(Alphabet) /\ Len(d) = 3
    BY <1>4, <2>1, ThreeElements
  <2> QED
    BY <1>4, <2>2
<1>6. PICK t : t = e \o d
  OBVIOUS
<1>7. EndOf(t) = n + 2
  BY <1>1, <1>3, <1>4, <1>6, MarkedReadWhole
<1>8. /\ t \in Seq(Alphabet) /\ Len(t) = n + 3 /\ t[n + 1] = "lf" /\ \A i \in 1..n : t[i] = e[i]
  <2>1. /\ t \in Seq(Alphabet) /\ Len(t) = Len(e) + Len(d)
        /\ \A i \in 1..(Len(e) + Len(d)) : t[i] = IF i <= Len(e) THEN e[i] ELSE d[i - Len(e)]
    BY <1>2, <1>5, <1>6, ConcatProperties
  <2>2. Len(t) = n + 3 /\ \A i \in 1..(n + 3) : t[i] = IF i <= n THEN e[i] ELSE d[i - n]
    BY <1>3, <1>5, <2>1
  <2>3. /\ n + 1 \in 1..(n + 3) /\ ~(n + 1 <= n) /\ (n + 1) - n = 1
        /\ \A i \in 1..n : i \in 1..(n + 3) /\ i <= n
    OBVIOUS
  <2>4. t[n + 1] = d[1] /\ \A i \in 1..n : t[i] = e[i]
    BY <2>2, <2>3
  <2> QED
    BY <1>5, <2>1, <2>2, <2>4
<1>9. PICK u : u = SubSeq(t, 1, n + 1)
  OBVIOUS
<1>10. u \in Seq(Alphabet) /\ Len(u) = n + 1 /\ \A i \in 1..(n + 1) : u[i] = t[i]
  <2>1. n + 1 \in 0..Len(t)
    BY <1>8
  <2> QED
    BY <1>8, <1>9, <2>1, Halves
<1>11. u = SubSeq(t, 1, EndOf(t) - 1)
  <2>1. EndOf(t) - 1 = n + 1
    BY <1>7
  <2> QED
    BY <1>9, <2>1
<1>12. PICK ss : ss = Undoubled(t, u)
  OBVIOUS
<1>13. DOMAIN u = 1..(n + 1)
  BY <1>10
<1>14. \A i \in 1..(n + 1) : ss[i] = IF Undoubles(t, i) THEN <<>> ELSE <<u[i]>>
  BY <1>10, <1>12, <1>13 DEF Undoubled
<1>15. ss \in Seq(Seq(Alphabet)) /\ Len(ss) = n + 1
  <2>1. DOMAIN ss = DOMAIN u /\ ss = [i \in DOMAIN ss |-> ss[i]]
    BY <1>12 DEF Undoubled
  <2>2. \A i \in DOMAIN u : \/ ss[i] = <<>> \/ ss[i] = <<u[i]>>
                           \/ \E c \in Alphabet : ss[i] = <<u[i], c>>
    BY <1>13, <1>14, Zenon
  <2> QED
    BY <1>10, <2>1, <2>2, Pieces
<1>16. ASSUME NEW i \in 1..(n + 1), Undoubles(t, i) PROVE i = n /\ EndsDoubled(e)
  <2>1. i # n + 1
    BY <1>8, <1>16 DEF Undoubles
  <2>2. i \in 1..n /\ i > 1 /\ i - 1 \in 1..n /\ (i - 1 # 1 => (i - 1) - 1 \in 1..n)
    BY <1>16, <2>1 DEF Undoubles
  <2>3. e[i] = "." /\ e[i - 1] = "." /\ StartsLine(e, i - 1, Newlines)
    BY <1>8, <1>16, <2>2 DEF Undoubles, StartsLine
  <2>4. i = n
    <3>1. SUFFICES ASSUME i # n PROVE FALSE
      OBVIOUS
    <3>2. i \in 1..(n - 1) /\ i + 1 \in 1..n
      BY <2>2, <3>1
    <3>3. e[i + 1] = "lf"
      BY <1>8, <1>16, <3>2 DEF Undoubles
    <3> QED
      BY <1>2, <1>3, <2>3, <3>2, <3>3
  <2>5. n >= 2
    BY <2>2, <2>4
  <2> QED
    BY <1>3, <2>3, <2>4, <2>5 DEF EndsDoubled
<1>17. ASSUME EndsDoubled(e) PROVE Undoubles(t, n) /\ n >= 2
  <2>1. n >= 2 /\ e[n] = "." /\ e[n - 1] = "." /\ StartsLine(e, n - 1, Newlines)
    BY <1>3, <1>17 DEF EndsDoubled
  <2>2. n \in 1..n /\ n > 1 /\ n - 1 \in 1..n /\ (n - 1 # 1 => (n - 1) - 1 \in 1..n)
    BY <2>1
  <2>3. t[n] = "." /\ t[n - 1] = "." /\ StartsLine(t, n - 1, Newlines)
    BY <1>8, <2>1, <2>2 DEF StartsLine
  <2> QED
    BY <1>8, <2>1, <2>2, <2>3 DEF Undoubles
<1>18. PICK P : IsJoin(P, Alphabet, ss)
  BY <1>15, JoinExists
<1>19. /\ P \in [0..(n + 1) -> Seq(Alphabet)] /\ \A i \in 1..(n + 1) : P[i] = P[i - 1] \o ss[i]
       /\ FlattenSeq(ss) = P[n + 1]
  BY <1>15, <1>18 DEF IsJoin
<1>20. PICK k \in 0..n : k = IF EndsDoubled(e) THEN n - 1 ELSE n
  <2>1. EndsDoubled(e) => n - 1 \in 0..n
    BY <1>17
  <2> QED
    BY <2>1
<1>21. PICK y : y = SubSeq(u, 1, k)
  OBVIOUS
<1>22. y \in Seq(Alphabet) /\ P[k] = y
  <2>1. ASSUME NEW i \in 1..k PROVE ss[i] = <<u[i]>>
    <3>1. i \in 1..(n + 1)
      BY <1>20
    <3>2. ~Undoubles(t, i)
      BY <1>16, <1>17, <1>20, <3>1
    <3> QED
      BY <1>14, <3>1, <3>2
  <2>2. k \in 0..Len(u)
    BY <1>10, <1>20
  <2>3. P[k] = SubSeq(u, 1, k)
    <3>1. Len(ss) = Len(u)
      BY <1>10, <1>15, Zenon
    <3>2. u \in Seq(Alphabet) /\ \A i \in 1..k : ss[i] = <<u[i]>>
      BY <1>10, <2>1
    <3> QED
      BY <1>18, <2>2, <3>1, <3>2, JoinSame
  <2>4. y \in Seq(Alphabet)
    BY <1>10, <1>21, <2>2, Halves
  <2> QED
    BY <1>21, <2>3, <2>4
<1>23. P[n] = y
  <2>1. CASE EndsDoubled(e)
    <3>1. n \in 1..(n + 1) /\ n - 1 = k
      BY <1>17, <1>20, <2>1
    <3>2. ss[n] = <<>>
      BY <1>14, <1>17, <2>1, <3>1
    <3>3. P[n] = y \o <<>>
      BY <1>19, <1>22, <3>1, <3>2, Zenon
    <3>4. y \o <<>> = y
      BY <1>22, ConcatEmptySeq
    <3> QED
      BY <3>3, <3>4
  <2>2. CASE ~EndsDoubled(e)
    BY <1>20, <1>22, <2>2
  <2> QED
    BY <2>1, <2>2
<1>24. PICK v : v = Append(y, "lf")
  OBVIOUS
<1>25. FlattenSeq(ss) = v
  <2>1. n + 1 \in 1..(n + 1) /\ (n + 1) - 1 = n /\ n + 1 # n
    OBVIOUS
  <2>2. ss[n + 1] = <<u[n + 1]>>
    <3>1. ~Undoubles(t, n + 1)
      BY <1>16, <2>1
    <3> QED
      BY <1>14, <2>1, <3>1, Zenon
  <2>3. u[n + 1] = "lf"
    BY <1>8, <1>10, <2>1
  <2>4. P[n + 1] = y \o <<"lf">>
    BY <1>19, <1>23, <2>1, <2>2, <2>3, Zenon
  <2>5. y \o <<"lf">> = v
    BY <1>22, <1>24, AlphabetFacts, AppendFacts
  <2> QED
    BY <1>19, <2>4, <2>5, Zenon
<1>26. Front(v) = y /\ v # <<>>
  BY <1>22, <1>24, AlphabetFacts, FrontAppend
<1>27. do_message(t).msg = y
  <2>1. v = FlattenSeq(Undoubled(t, u))
    BY <1>12, <1>25
  <2>2. do_message(t).msg = IF v = <<>> THEN v ELSE Front(v)
    BY <1>11, <2>1, MessageIsRead
  <2> QED
    BY <1>26, <2>2
<1>28. y = Fixed(e)
  <2>1. PICK z : z = Fixed(e)
    OBVIOUS
  <2>2. z \in Seq(Alphabet) /\ Len(z) = k /\ \A i \in 1..k : z[i] = e[i]
    <3>1. z \in Seq(Alphabet) /\ \A i \in 1..Len(z) : z[i] = e[i]
      BY <1>2, <2>1, FixedType
    <3>2. Len(z) = k
      <4>1. EndsDoubled(e) => Len(z) = Len(e) - 1
        BY <1>2, <2>1, FixedType
      <4>2. ~EndsDoubled(e) => z = e
        BY <2>1 DEF Fixed
      <4> QED
        BY <1>3, <1>20, <4>1, <4>2
    <3> QED
      BY <3>1, <3>2
  <2>3. Len(y) = k /\ \A i \in 1..k : y[i] = u[i]
    <3>1. k \in 0..Len(u)
      BY <1>10, <1>20
    <3> QED
      BY <1>10, <1>21, <3>1, Halves
  <2>4. ASSUME NEW i \in 1..k PROVE y[i] = z[i]
    <3>1. i \in 1..n /\ i \in 1..(n + 1)
      BY <1>20
    <3> QED
      BY <1>8, <1>10, <2>2, <2>3, <3>1
  <2>5. y = z
    BY <1>22, <2>2, <2>3, <2>4, SeqEqual
  <2> QED
    BY <2>1, <2>5
<1> QED
  BY <1>1, <1>4, <1>6, <1>27, <1>28

LEMMA SplitLast ==
  ASSUME NEW A, NEW t \in Seq(A), t # <<>>
  PROVE  \E x \in Seq(A), c \in A : /\ t = Append(x, c) /\ c = t[Len(t)] /\ Len(t) = Len(x) + 1
                                   /\ \A i \in 1..Len(x) : x[i] = t[i]
<1>1. PICK n \in Nat : n = Len(t)
  BY SeqFacts
<1>2. n # 0
  BY <1>1, NoElement
<1>3. n \in 1..n /\ n - 1 \in 0..n /\ n - 1 \in Nat
  BY <1>2
<1>4. PICK x : x = SubSeq(t, 1, n - 1)
  OBVIOUS
<1>5. x \in Seq(A) /\ Len(x) = n - 1 /\ \A i \in 1..(n - 1) : x[i] = t[i]
  BY <1>1, <1>3, <1>4, Halves
<1>6. PICK c \in A : c = t[n]
  BY <1>1, <1>3, SeqFacts
<1>7. SubSeq(t, 1, n) = x \o <<c>>
  BY <1>1, <1>3, <1>4, <1>6, PrefixNext
<1>8. SubSeq(t, 1, n) = t
  BY <1>1, SubSeqFull
<1>9. Append(x, c) = x \o <<c>>
  BY <1>5, AppendFacts
<1>10. t = Append(x, c) /\ c = t[Len(t)] /\ Len(t) = Len(x) + 1
  BY <1>1, <1>3, <1>5, <1>6, <1>7, <1>8, <1>9
<1> QED
  BY <1>5, <1>10

LEMMA FlattenLast ==
  ASSUME NEW A, NEW ss \in Seq(Seq(A)), NEW n \in Nat, n = Len(ss), n # 0,
         NEW w \in Seq(A), w = ss[n], w # <<>>, NEW z, z = FlattenSeq(ss)
  PROVE  z # <<>> /\ z[Len(z)] = w[Len(w)]
<1>1. PICK P : IsJoin(P, A, ss)
  BY JoinExists
<1>2. n \in 1..n /\ n - 1 \in 0..n
  OBVIOUS
<1>3. z = P[n - 1] \o ss[n] /\ P[n - 1] \in Seq(A)
  BY <1>1, <1>2 DEF IsJoin
<1>4. PICK p \in Seq(A) : p = P[n - 1]
  BY <1>3
<1>5. z = p \o w
  BY <1>3, <1>4
<1>6. PICK k \in Nat : k = Len(p)
  BY SeqFacts
<1>7. PICK m \in Nat : m = Len(w)
  BY SeqFacts
<1>8. m # 0
  BY <1>7, NoElement
<1>9. /\ z \in Seq(A) /\ Len(z) = k + m
      /\ \A i \in 1..(k + m) : z[i] = IF i <= k THEN p[i] ELSE w[i - k]
  BY <1>5, <1>6, <1>7, ConcatProperties
<1>10. k + m \in 1..(k + m) /\ ~(k + m <= k) /\ (k + m) - k = m
  BY <1>8
<1>11. z[k + m] = w[m]
  BY <1>9, <1>10
<1>12. z # <<>>
  BY <1>8, <1>9, NoElement
<1> QED
  BY <1>7, <1>9, <1>11, <1>12

\* No mark is the last character, or before a dot.
MarkFollowed(t) == NoPair(t, Marks, {"."}) /\ (t # <<>> => t[Len(t)] \notin Marks)

LEMMA DotsAppended ==
  ASSUME NEW A, NEW y \in Seq(A), NEW d \in A, NEW c \in A, NEW t, t = Append(Append(y, d), c)
  PROVE  EndsDoubled(t) <=> c = "." /\ d = "." /\ (y = <<>> \/ y[Len(y)] \in Newlines)
<1>1. PICK n \in Nat : n = Len(y)
  BY SeqFacts
<1>2. PICK x : x = Append(y, d)
  OBVIOUS
<1>3. x \in Seq(A) /\ Len(x) = n + 1 /\ x[n + 1] = d /\ \A i \in 1..n : x[i] = y[i]
  BY <1>1, <1>2, AppendFacts
<1>4. /\ t \in Seq(A) /\ Len(t) = n + 2 /\ t[n + 2] = c /\ t[n + 1] = d
      /\ \A i \in 1..n : t[i] = y[i]
  <2>1. /\ t \in Seq(A) /\ Len(t) = Len(x) + 1 /\ t[Len(x) + 1] = c
        /\ \A i \in 1..Len(x) : t[i] = x[i]
    BY <1>2, <1>3, AppendFacts
  <2>2. Len(x) + 1 = n + 2 /\ n + 1 \in 1..Len(x) /\ \A i \in 1..n : i \in 1..Len(x)
    BY <1>3
  <2> QED
    BY <1>3, <2>1, <2>2
<1>5. Len(t) >= 2 /\ Len(t) - 1 = n + 1
  BY <1>4
<1>6. StartsLine(t, n + 1, Newlines) <=> y = <<>> \/ y[Len(y)] \in Newlines
  <2>1. CASE n = 0
    <3>1. y = <<>> /\ n + 1 = 1
      <4>1. y = <<>>
        BY <1>1, <2>1, NoElement
      <4>2. n + 1 = 1
        BY <2>1
      <4> QED
        BY <4>1, <4>2
    <3> QED
      BY <3>1 DEF StartsLine
  <2>2. CASE n # 0
    <3>1. y # <<>> /\ n + 1 # 1 /\ (n + 1) - 1 = n /\ n \in 1..n
      BY <1>1, <2>2, NoElement
    <3> QED
      BY <1>1, <1>4, <3>1 DEF StartsLine
  <2> QED
    BY <2>1, <2>2
<1> QED
  BY <1>4, <1>5, <1>6 DEF EndsDoubled

LEMMA FixedAppended ==
  ASSUME NEW A, NEW x \in Seq(A), NEW c \in A, NEW t, t = Append(x, c)
  PROVE  Fixed(t) = IF EndsDoubled(t) THEN x ELSE t
<1>1. Front(t) = x
  BY FrontAppend
<1> QED
  BY <1>1 DEF Fixed, Front

LEMMA NotDoubled ==
  ASSUME NEW A, NEW t \in Seq(A), t # <<>> => t[Len(t)] # "."
  PROVE  Fixed(t) = t
<1>1. ~EndsDoubled(t)
  <2>1. SUFFICES ASSUME EndsDoubled(t) PROVE FALSE
    OBVIOUS
  <2>2. Len(t) >= 2 /\ t[Len(t)] = "."
    BY <2>1 DEF EndsDoubled
  <2>3. t # <<>>
    BY <2>2, NoElement
  <2> QED
    BY <2>2, <2>3
<1> QED
  BY <1>1 DEF Fixed

LEMMA OneNotDoubled ==
  ASSUME NEW A, NEW c \in A, NEW x, x = <<>>, NEW t, t = Append(x, c)
  PROVE  Fixed(t) = t
<1>1. x \in Seq(A) /\ Len(x) = 0
  OBVIOUS
<1>2. Len(t) = 1
  <2>1. Len(t) = Len(x) + 1
    BY <1>1, AppendFacts
  <2> QED
    BY <1>1, <2>1
<1>3. ~EndsDoubled(t)
  BY <1>2 DEF EndsDoubled
<1> QED
  BY <1>3 DEF Fixed

\* Of a mark nothing is left, of the other characters all, in the server.
LEMMA ServerAppend ==
  ASSUME NEW x \in Seq(Alphabet), NEW c \in Alphabet \ Marks, NEW t, t = Append(x, c)
  PROVE  Audible(t, "server") = Append(Audible(x, "server"), c)
<1>1. PICK w \in Seq(Alphabet) : w = Audible(x, "server")
  BY AudibleType
<1>2. Audible(t, "server") = w \o Ear(c, "server")
  BY <1>1, AudibleAppend
<1>3. Ear(c, "server") = <<c>>
  BY DEF Ear
<1>4. Append(w, c) = w \o <<c>>
  BY AppendFacts
<1> QED
  BY <1>1, <1>2, <1>3, <1>4, Zenon

\* The marks can be removed before the dot at the end, or after it.
LEMMA FixedWithoutMarks ==
  ASSUME NEW t \in Seq(Alphabet), MarkFollowed(t)
  PROVE  Audible(Fixed(t), "server") = Fixed(Audible(t, "server"))
<1>1. CASE t = <<>>
  <2>1. Audible(t, "server") = <<>>
    BY <1>1, AudibleNone
  <2>2. Fixed(t) = t
    BY <1>1, NotDoubled
  <2> QED
    BY <1>1, <2>1, <2>2
<1>2. CASE t # <<>>
  <2>1. PICK x \in Seq(Alphabet), c \in Alphabet :
           /\ t = Append(x, c) /\ c = t[Len(t)] /\ Len(t) = Len(x) + 1
           /\ \A i \in 1..Len(x) : x[i] = t[i]
    BY <1>2, SplitLast
  <2>2. c \notin Marks
    BY <1>2, <2>1 DEF MarkFollowed
  <2>3. PICK u \in Seq(Alphabet) : u = Audible(x, "server")
    BY AudibleType
  <2>4. PICK v : v = Append(u, c)
    OBVIOUS
  <2>5. v \in Seq(Alphabet) /\ v = Audible(t, "server")
    BY <2>1, <2>2, <2>3, <2>4, ServerAppend, AppendFacts
  <2>6. \A i \in 1..Len(x) : x[i] \in Marks => i < Len(x) \/ c # "."
    <3>1. SUFFICES ASSUME NEW i \in 1..Len(x), x[i] \in Marks, ~(i < Len(x)) PROVE c # "."
      OBVIOUS
    <3>2. Len(x) \in Nat
      BY SeqFacts
    <3>3. i = Len(x) /\ i \in 1..(Len(t) - 1) /\ i + 1 = Len(t)
      BY <2>1, <3>1, <3>2
    <3>4. t[i] \in Marks
      BY <2>1, <3>1
    <3> QED
      BY <2>1, <3>3, <3>4 DEF MarkFollowed, NoPair
  <2>7. CASE x = <<>>
    <3>1. u = <<>>
      BY <2>3, <2>7, AudibleNone
    <3>2. Fixed(t) = t /\ Fixed(v) = v
      BY <2>1, <2>4, <2>7, <3>1, OneNotDoubled
    <3> QED
      BY <2>5, <3>2
  <2>8. CASE x # <<>> /\ c # "."
    <3>1. Fixed(t) = t
      BY <2>1, <2>8, NotDoubled
    <3>2. Fixed(v) = v
      <4>1. v[Len(v)] = c
        BY <2>3, <2>4, AppendFacts
      <4> QED
        BY <2>5, <2>8, <4>1, NotDoubled
    <3> QED
      BY <2>5, <3>1, <3>2
  <2>9. CASE x # <<>> /\ c = "."
    <3>1. PICK y \in Seq(Alphabet), d \in Alphabet :
             /\ x = Append(y, d) /\ d = x[Len(x)] /\ Len(x) = Len(y) + 1
             /\ \A i \in 1..Len(y) : y[i] = x[i]
      BY <2>9, SplitLast
    <3>2. Len(x) \in Nat /\ Len(y) \in Nat /\ Len(x) \in 1..Len(x)
      BY <3>1, SeqFacts
    <3>3. d \notin Marks
      BY <2>6, <2>9, <3>1, <3>2
    <3>4. PICK w \in Seq(Alphabet) : w = Audible(y, "server")
      BY AudibleType
    <3>5. u = Append(w, d)
      BY <2>3, <3>1, <3>3, <3>4, ServerAppend
    <3>6. EndsDoubled(t) <=> d = "." /\ (y = <<>> \/ y[Len(y)] \in Newlines)
      <4>1. t = Append(Append(y, d), c)
        BY <2>1, <3>1
      <4>2. EndsDoubled(t) <=> c = "." /\ d = "." /\ (y = <<>> \/ y[Len(y)] \in Newlines)
        BY <4>1, DotsAppended
      <4> QED
        BY <2>9, <4>2
    <3>7. EndsDoubled(v) <=> d = "." /\ (w = <<>> \/ w[Len(w)] \in Newlines)
      <4>1. v = Append(Append(w, d), c)
        BY <2>4, <3>5
      <4>2. EndsDoubled(v) <=> c = "." /\ d = "." /\ (w = <<>> \/ w[Len(w)] \in Newlines)
        BY <4>1, DotsAppended
      <4> QED
        BY <2>9, <4>2
    <3>8. ASSUME d = "." PROVE (y = <<>> \/ y[Len(y)] \in Newlines)
                               <=> (w = <<>> \/ w[Len(w)] \in Newlines)
      <4>1. CASE y = <<>>
        BY <3>4, <4>1, AudibleNone
      <4>2. CASE y # <<>>
        <5>1. PICK z \in Seq(Alphabet), e \in Alphabet :
                 /\ y = Append(z, e) /\ e = y[Len(y)] /\ Len(y) = Len(z) + 1
                 /\ \A i \in 1..Len(z) : z[i] = y[i]
          BY <4>2, SplitLast
        <5>2. e \notin Marks
          <6>1. PICK j : j = Len(y)
            OBVIOUS
          <6>2. j \in Nat /\ j \in 1..j /\ j + 1 = Len(x) /\ j \in 1..(Len(t) - 1)
                /\ j \in 1..Len(x) /\ j + 1 \in 1..Len(x)
            BY <2>1, <3>1, <3>2, <5>1, <6>1, SeqFacts
          <6>3. e = y[j] /\ y[j] = x[j] /\ x[j] = t[j] /\ x[j + 1] = t[j + 1] /\ x[j + 1] = d
            BY <2>1, <3>1, <5>1, <6>1, <6>2
          <6> QED
            BY <3>8, <6>2, <6>3 DEF MarkFollowed, NoPair
        <5>3. PICK q \in Seq(Alphabet) : q = Audible(z, "server")
          BY AudibleType
        <5>4. w = Append(q, e)
          BY <3>4, <5>1, <5>2, <5>3, ServerAppend
        <5>5. w # <<>> /\ w[Len(w)] = e
          <6>1. w # <<>>
            BY <5>4, FrontAppend
          <6>2. Len(w) = Len(q) + 1 /\ w[Len(q) + 1] = e
            BY <5>4, AppendFacts
          <6> QED
            BY <6>1, <6>2
        <5> QED
          BY <4>2, <5>1, <5>5
      <4> QED
        BY <4>1, <4>2
    <3>9. EndsDoubled(t) <=> EndsDoubled(v)
      BY <3>6, <3>7, <3>8
    <3>10. Fixed(t) = IF EndsDoubled(t) THEN x ELSE t
      BY <2>1, FixedAppended
    <3>11. Fixed(v) = IF EndsDoubled(v) THEN u ELSE v
      BY <2>3, <2>4, FixedAppended
    <3> QED
      BY <2>3, <2>5, <3>9, <3>10, <3>11, Zenon
  <2> QED
    BY <2>7, <2>8, <2>9
<1> QED
  BY <1>1, <1>2

\* Marks are not for the ear.
LEMMA AudibleInServer ==
  ASSUME NEW t \in Seq(Alphabet), NEW m \in {"text", "ssml"}
  PROVE  Audible(Audible(t, "server"), m) = Audible(t, m)
<1>1. PICK n \in Nat : n = Len(t)
  BY SeqFacts
<1>2. PICK ss : ss = Ears(t, "server")
  OBVIOUS
<1>3. PICK hh : hh = Ears(t, m)
  OBVIOUS
<1>4. /\ ss \in Seq(Seq(Alphabet)) /\ Len(ss) = n
      /\ \A i \in 1..n : ss[i] = Ear(t[i], "server")
  BY <1>1, <1>2, EarsType
<1>5. hh \in Seq(Seq(Alphabet)) /\ Len(hh) = n /\ \A i \in 1..n : hh[i] = Ear(t[i], m)
  BY <1>1, <1>3, EarsType
<1>6. ASSUME NEW i \in 1..n PROVE hh[i] = Audible(ss[i], m)
  <2>1. t[i] \in Alphabet
    BY <1>1
  <2>2. CASE t[i] \in Marks
    <3>1. ss[i] = <<>>
      BY <1>4, <2>2 DEF Ear
    <3>2. hh[i] = <<>>
      <4>1. t[i] \in Tags /\ t[i] # "&lt" /\ t[i] # "&gt" /\ t[i] # "&amp"
        BY <2>2, AlphabetFacts DEF Tags
      <4> QED
        BY <1>5, <4>1 DEF Ear
    <3> QED
      BY <3>1, <3>2, AudibleNone
  <2>3. CASE t[i] \notin Marks
    <3>1. ss[i] = <<t[i]>>
      BY <1>4, <2>3 DEF Ear
    <3>2. Audible(<<t[i]>>, m) = Ear(t[i], m)
      BY <2>1, AudibleOne
    <3> QED
      BY <1>5, <3>1, <3>2
  <2> QED
    BY <2>2, <2>3
<1>7. Audible(FlattenSeq(ss), m) = FlattenSeq(hh)
  <2>1. Len(hh) = Len(ss) /\ \A i \in 1..Len(ss) : hh[i] = Audible(ss[i], m)
    BY <1>4, <1>5, <1>6
  <2> QED
    BY <1>4, <1>5, <2>1, AudibleFlatten
<1> QED
  BY <1>2, <1>3, <1>7 DEF Audible

\* What is heard of SSML does not depend on its marks.
LEMMA HeardWithoutMarks ==
  ASSUME NEW t \in Seq(Alphabet), MarkFollowed(t)
  PROVE  Audible(Fixed(t), "ssml") = Audible(Fixed(Audible(t, "server")), "ssml")
<1>1. PICK x \in Seq(Alphabet) : x = Fixed(t)
  BY FixedType
<1>2. Audible(x, "server") = Fixed(Audible(t, "server"))
  BY <1>1, FixedWithoutMarks
<1>3. Audible(Audible(x, "server"), "ssml") = Audible(x, "ssml")
  BY AudibleInServer
<1> QED
  BY <1>1, <1>2, <1>3, Zenon

-----------------------------------------------------------------------------
(***************************************************************************)
(* The marks are not heard, and the entities are what they stand for.      *)
(***************************************************************************)

LEMMA MarkSkipped ==
  ASSUME NEW w \in Seq(Alphabet), NEW k \in Marks, NEW m
  PROVE  Audible(Append(w, k), m) = Audible(w, m)
<1>1. k \in Alphabet /\ k \in Tags /\ k # "&lt" /\ k # "&gt" /\ k # "&amp"
  BY AlphabetFacts DEF Tags
<1>2. Ear(k, m) = <<>>
  BY <1>1, Zenon DEF Ear
<1>3. PICK v \in Seq(Alphabet) : v = Audible(w, m)
  BY AudibleType
<1>4. Audible(Append(w, k), m) = Audible(w, m) \o Ear(k, m)
  BY <1>1, AudibleAppend
<1>5. v \o <<>> = v
  BY ConcatEmptySeq
<1> QED
  BY <1>2, <1>3, <1>4, <1>5, Zenon

\* The server removes the marks it has put in.
LEMMA InsertServer ==
  ASSUME NEW t \in Seq(Alphabet), Room(t, "ssml")
  PROVE  Audible(insert_index_marks(t, "ssml"), "server") = Audible(t, "server")
<1>1. PICK n \in Nat : n = Len(t)
  BY SeqFacts
<1>2. PICK ss : ss = Marked(t, "ssml")
  OBVIOUS
<1>3. ss \in Seq(Seq(Alphabet)) /\ Len(ss) = n
  BY <1>1, <1>2, MarkedFacts
<1>4. PICK hh : hh = Ears(t, "server")
  OBVIOUS
<1>5. /\ hh \in Seq(Seq(Alphabet)) /\ Len(hh) = n
      /\ \A i \in 1..n : hh[i] = Ear(t[i], "server")
  BY <1>1, <1>4, EarsType
<1>6. ASSUME NEW i \in 1..n PROVE hh[i] = Audible(ss[i], "server")
  <2>1. i \in DOMAIN t /\ t[i] \in Alphabet
    BY <1>1
  <2>2. PICK w : w = <<t[i]>>
    OBVIOUS
  <2>3. w \in Seq(Alphabet) /\ Audible(w, "server") = Ear(t[i], "server")
    BY <2>1, <2>2, OneElement, AudibleOne
  <2>4. Markup(t, i, "ssml") = w
    BY <2>2 DEF Markup
  <2>5. CASE EndsSentence(t, i, "ssml")
    <3>1. PICK k \in Marks : ss[i] = Append(w, k)
      BY <1>2, <2>1, <2>4, <2>5, MarkedFacts
    <3>2. Audible(Append(w, k), "server") = Audible(w, "server")
      BY <2>3, MarkSkipped
    <3> QED
      BY <1>5, <2>3, <3>1, <3>2
  <2>6. CASE ~EndsSentence(t, i, "ssml")
    <3>1. ss[i] = w
      BY <1>2, <2>1, <2>4, <2>6, MarkedFacts
    <3> QED
      BY <1>5, <2>3, <3>1
  <2> QED
    BY <2>5, <2>6
<1>7. Audible(FlattenSeq(ss), "server") = FlattenSeq(hh)
  <2>1. Len(hh) = Len(ss) /\ \A i \in 1..Len(ss) : hh[i] = Audible(ss[i], "server")
    BY <1>3, <1>5, <1>6
  <2> QED
    BY <1>3, <1>5, <2>1, AudibleFlatten
<1>8. insert_index_marks(t, "ssml") = FlattenSeq(ss)
  BY <1>2, InsertIsMarked
<1> QED
  BY <1>4, <1>7, <1>8 DEF Audible

LEMMA InsertFollowed ==
  ASSUME NEW t \in Seq(Alphabet), Room(t, "ssml"), MarkFollowed(t)
  PROVE  MarkFollowed(insert_index_marks(t, "ssml"))
<1>1. PICK n \in Nat : n = Len(t)
  BY SeqFacts
<1>2. PICK ss : ss = Marked(t, "ssml")
  OBVIOUS
<1>3. ss \in Seq(Seq(Alphabet)) /\ Len(ss) = n /\ DOMAIN t = 1..n
  BY <1>1, <1>2, MarkedFacts, SeqFacts
<1>4. ASSUME NEW i \in 1..n
      PROVE  IF EndsSentence(t, i, "ssml") THEN \E k \in Marks : ss[i] = <<t[i], k>>
             ELSE ss[i] = <<t[i]>>
  <2>1. t[i] \in Alphabet
    BY <1>1
  <2>2. Markup(t, i, "ssml") = <<t[i]>>
    BY DEF Markup
  <2>3. CASE EndsSentence(t, i, "ssml")
    <3>1. PICK k \in Marks : ss[i] = Append(<<t[i]>>, k)
      BY <1>2, <1>3, <2>2, <2>3, MarkedFacts
    <3>2. k \in Alphabet
      BY AlphabetFacts
    <3>3. Append(<<t[i]>>, k) = <<t[i], k>>
      BY <2>1, <3>2, AppendPair
    <3> QED
      BY <2>3, <3>1, <3>3
  <2>4. CASE ~EndsSentence(t, i, "ssml")
    BY <1>2, <1>3, <2>2, <2>4, MarkedFacts
  <2> QED
    BY <2>3, <2>4
<1>5. ASSUME NEW i \in 1..n
      PROVE  /\ Len(ss[i]) # 0 /\ NoPair(ss[i], Marks, {"."})
             /\ ss[i][1] \in {"."} => t[i] \in {"."}
             /\ ss[i][Len(ss[i])] \in Marks => i = n \/ t[i + 1] \notin {"."}
  <2>1. t[i] \in Alphabet
    BY <1>1
  <2>2. CASE EndsSentence(t, i, "ssml")
    <3>1. PICK k \in Marks : ss[i] = <<t[i], k>>
      BY <1>4, <2>2
    <3>2. PICK w : w = <<t[i], k>>
      OBVIOUS
    <3>3. Len(w) = 2 /\ w[1] = t[i] /\ w[2] = k
      BY <3>2
    <3>4. k # "."
      BY AlphabetFacts
    <3>5. NoPair(w, Marks, {"."})
      <4>1. \A j \in 1..(Len(w) - 1) : j = 1 /\ j + 1 = 2
        BY <3>3
      <4> QED
        BY <3>3, <3>4, <4>1 DEF NoPair
    <3>6. t[i + 1] # "."
      <4>1. t[i + 1] \in Newlines \cup {"<", "&"} \cup Tags \cup Entities
        BY <2>2 DEF EndsSentence
      <4> QED
        BY <4>1, AlphabetFacts DEF Newlines, Tags, Entities
    <3> QED
      BY <3>1, <3>2, <3>3, <3>5, <3>6
  <2>3. CASE ~EndsSentence(t, i, "ssml")
    <3>1. PICK w : w = <<t[i]>>
      OBVIOUS
    <3>2. ss[i] = w /\ Len(w) = 1 /\ w[1] = t[i]
      BY <1>4, <2>3, <3>1
    <3>3. NoPair(w, Marks, {"."})
      <4>1. 1..(Len(w) - 1) = {}
        BY <3>2
      <4> QED
        BY <4>1 DEF NoPair
    <3>4. ASSUME t[i] \in Marks, i # n PROVE t[i + 1] # "."
      <4>1. i \in 1..(n - 1)
        BY <3>4
      <4> QED
        BY <1>1, <3>4, <4>1 DEF MarkFollowed, NoPair
    <3> QED
      BY <3>2, <3>3, <3>4
  <2> QED
    BY <2>2, <2>3
<1>6. PICK z : z = FlattenSeq(ss)
  OBVIOUS
<1>7. NoPair(z, Marks, {"."})
  <2>1. Len(ss) = Len(t)
    BY <1>1, <1>3
  <2>2. \A i \in DOMAIN t :
           /\ Len(ss[i]) # 0 /\ NoPair(ss[i], Marks, {"."})
           /\ ss[i][1] \in {"."} => t[i] \in {"."}
           /\ ss[i][Len(ss[i])] \in Marks => i = Len(t) \/ t[i + 1] \notin {"."}
    BY <1>1, <1>3, <1>5, Zenon
  <2> QED
    BY <1>3, <1>6, <2>1, <2>2, NoPairFlatten
<1>8. ASSUME z # <<>> PROVE z[Len(z)] \notin Marks
  <2>1. CASE n = 0
    <3>1. ss = <<>>
      BY <1>3, <2>1, NoElement
    <3>2. PICK R : IsJoin(R, Alphabet, ss)
      BY <1>3, JoinExists
    <3>3. z = <<>>
      BY <1>3, <1>6, <2>1, <3>2 DEF IsJoin
    <3> QED
      BY <1>8, <3>3
  <2>2. CASE n # 0
    <3>1. n \in 1..n /\ ~EndsSentence(t, n, "ssml")
      <4>1. n \in 1..n
        BY <2>2
      <4>2. ~(n < Len(t))
        BY <1>1
      <4> QED
        BY <4>1, <4>2 DEF EndsSentence
    <3>2. PICK w : w = <<t[n]>>
      OBVIOUS
    <3>3. w = ss[n] /\ t[n] \in Alphabet
      BY <1>1, <1>4, <3>1, <3>2
    <3>4. w \in Seq(Alphabet) /\ w # <<>> /\ w[Len(w)] = t[n]
      BY <3>2, <3>3, OneElement
    <3>5. z[Len(z)] = t[n]
      BY <1>3, <1>6, <2>2, <3>3, <3>4, FlattenLast
    <3>6. t # <<>>
      BY <1>1, <2>2, NoElement
    <3> QED
      BY <1>1, <3>5, <3>6 DEF MarkFollowed
  <2> QED
    BY <2>1, <2>2
<1>9. insert_index_marks(t, "ssml") = z
  BY <1>2, <1>6, InsertIsMarked
<1> QED
  BY <1>7, <1>8, <1>9 DEF MarkFollowed

-----------------------------------------------------------------------------
(***************************************************************************)
(* A plain text in its frame.                                              *)
(***************************************************************************)

Plain == {"a", ".", "crlf", "lf"}
Body  == Plain \cup Entities \cup Marks

\* The text between the tags of the server, and what a mark leaves of it.
InFrame(t)   == \E y \in Seq(Body) : t = Append(<<"<speak>">> \o y, "</speak>")
RestFrame(t) == \E y \in Seq(Plain \cup Marks) : t = Append(y, "</speak>")

LEMMA BodyFacts ==
  /\ Plain \subseteq Characters /\ Characters \subseteq Alphabet /\ Body \subseteq Alphabet
  /\ Body \cap ({"<", ">", "&", "<speak>", "</speak>"}) = {}
  /\ Plain \cap Marks = {} /\ Characters \cap Marks = {} /\ Entities \cap Marks = {}
  /\ "<speak>" \in Alphabet \ Marks /\ "</speak>" \in Alphabet \ Marks
BY AlphabetFacts DEF Plain, Body, Characters, Entities, Alphabet

LEMMA QuotedHeard ==
  ASSUME NEW c \in Characters
  PROVE  \E q \in Plain \cup Entities : Quoted(c) = <<q>> /\ Ear(q, "text") = <<c>>
<1>0. c \notin Tags /\ c \notin Entities
  BY AlphabetFacts DEF Characters, Tags, Entities
<1>1. CASE c = "<"
  <2>1. Quoted(c) = <<"&lt">>
    BY <1>0, <1>1 DEF Quoted
  <2>2. Ear("&lt", "text") = <<c>> /\ "&lt" \in Plain \cup Entities
    BY <1>1 DEF Ear, Entities
  <2> QED
    BY <2>1, <2>2, Zenon
<1>2. CASE c = ">"
  <2>1. Quoted(c) = <<"&gt">>
    BY <1>0, <1>2 DEF Quoted
  <2>2. Ear("&gt", "text") = <<c>> /\ "&gt" \in Plain \cup Entities
    BY <1>2 DEF Ear, Entities
  <2> QED
    BY <2>1, <2>2, Zenon
<1>3. CASE c = "&"
  <2>1. Quoted(c) = <<"&amp">>
    BY <1>0, <1>3 DEF Quoted
  <2>2. Ear("&amp", "text") = <<c>> /\ "&amp" \in Plain \cup Entities
    BY <1>3 DEF Ear, Entities
  <2> QED
    BY <2>1, <2>2, Zenon
<1>4. CASE c \notin {"<", ">", "&"}
  <2>1. Quoted(c) = <<c>>
    BY <1>0, <1>4 DEF Quoted
  <2>2. Ear(c, "text") = <<c>>
    BY <1>0, <1>4 DEF Ear, Entities
  <2>3. c \in Plain
    BY <1>4 DEF Characters, Plain
  <2> QED
    BY <2>1, <2>2, <2>3
<1> QED
  BY <1>1, <1>2, <1>3, <1>4

\* What stands for one character is heard as it.
LEMMA MarkedHeard ==
  ASSUME NEW t \in Seq(Characters), Room(t, "text"), NEW i \in 1..Len(t)
  PROVE  /\ Marked(t, "text")[i] \in Seq(Body)
         /\ Audible(Marked(t, "text")[i], "text") = <<t[i]>>
<1>1. t \in Seq(Alphabet) /\ i \in DOMAIN t /\ t[i] \in Characters
  BY BodyFacts
<1>2. PICK q \in Plain \cup Entities : Quoted(t[i]) = <<q>> /\ Ear(q, "text") = <<t[i]>>
  BY <1>1, QuotedHeard
<1>3. q \in Body /\ q \in Alphabet
  BY BodyFacts DEF Body
<1>4. PICK w : w = <<q>>
  OBVIOUS
<1>5. w \in Seq(Body) /\ w \in Seq(Alphabet)
  BY <1>3, <1>4
<1>6. Markup(t, i, "text") = w
  BY <1>2, <1>4 DEF Markup
<1>7. Audible(w, "text") = <<t[i]>>
  BY <1>2, <1>3, <1>4, AudibleOne, Zenon
<1>8. CASE EndsSentence(t, i, "text")
  <2>1. PICK k \in Marks : Marked(t, "text")[i] = Append(w, k)
    BY <1>1, <1>6, <1>8, MarkedFacts
  <2>2. Append(w, k) \in Seq(Body)
    <3>1. k \in Body
      BY DEF Body
    <3> QED
      BY <1>5, <3>1, AppendFacts
  <2>3. Audible(Append(w, k), "text") = Audible(w, "text")
    BY <1>5, MarkSkipped
  <2> QED
    BY <1>7, <2>1, <2>2, <2>3, Zenon
<1>9. CASE ~EndsSentence(t, i, "text")
  <2>1. Marked(t, "text")[i] = w
    BY <1>1, <1>6, <1>9, MarkedFacts
  <2> QED
    BY <1>5, <1>7, <2>1
<1> QED
  BY <1>8, <1>9

\* A sequence put together from its own elements.
LEMMA FlattenSame ==
  ASSUME NEW A, NEW t \in Seq(A), NEW ss \in Seq(Seq(A)), Len(ss) = Len(t),
         \A i \in 1..Len(t) : ss[i] = <<t[i]>>
  PROVE  FlattenSeq(ss) = t
<1>1. PICK n \in Nat : n = Len(ss) /\ n = Len(t)
  BY SeqFacts
<1>2. PICK Q : Q = [i \in 0..n |-> SubSeq(t, 1, i)]
  OBVIOUS
<1>3. Q \in [0..n -> Seq(A)] /\ Q[0] = <<>> /\ Q[n] = t
  <2>1. \A i \in 0..n : SubSeq(t, 1, i) \in Seq(A)
    BY <1>1, Halves
  <2>2. SubSeq(t, 1, 0) = <<>> /\ SubSeq(t, 1, n) = t
    BY <1>1, SubSeqFull, SubSeqEmpty
  <2> QED
    BY <1>2, <2>1, <2>2
<1>4. \A i \in 1..n : Q[i] = Q[i - 1] \o ss[i]
  <2> SUFFICES ASSUME NEW i \in 1..n PROVE Q[i] = Q[i - 1] \o ss[i]
    OBVIOUS
  <2>1. SubSeq(t, 1, i) = SubSeq(t, 1, i - 1) \o <<t[i]>>
    BY <1>1, PrefixNext
  <2>2. Q[i] = SubSeq(t, 1, i) /\ Q[i - 1] = SubSeq(t, 1, i - 1)
    <3>1. i \in 0..n /\ i - 1 \in 0..n
      OBVIOUS
    <3>2. \A j \in 0..n : Q[j] = SubSeq(t, 1, j)
      BY <1>2, Zenon
    <3> QED
      BY <3>1, <3>2, Zenon
  <2>3. ss[i] = <<t[i]>>
    BY <1>1
  <2> QED
    BY <2>1, <2>2, <2>3, Zenon
<1> QED
  BY <1>1, <1>3, <1>4, FlattenUnique

LEMMA FrameSkipped ==
  ASSUME NEW y \in Seq(Alphabet), NEW m \in {"text", "ssml"}
  PROVE  /\ Audible(Append(y, "</speak>"), m) = Audible(y, m)
         /\ Audible(<<"<speak>">> \o y, m) = Audible(y, m)
<1>1. PICK w : w = <<"<speak>">>
  OBVIOUS
<1>2. w \in Seq(Alphabet)
  BY <1>1, BodyFacts
<1>3. PICK v \in Seq(Alphabet) : v = Audible(y, m)
  BY AudibleType
<1>4. Ear("<speak>", m) = <<>> /\ Ear("</speak>", m) = <<>>
  BY DEF Ear, Tags
<1>5. Audible(w, m) = <<>>
  BY <1>1, <1>4, BodyFacts, AudibleOne
<1>6. Audible(w \o y, m) = Audible(w, m) \o Audible(y, m)
  BY <1>2, AudibleConcat
<1>7. Audible(Append(y, "</speak>"), m) = Audible(y, m) \o Ear("</speak>", m)
  BY BodyFacts, AudibleAppend
<1>8. v \o <<>> = v /\ <<>> \o v = v
  BY ConcatEmptySeq
<1> QED
  BY <1>1, <1>3, <1>4, <1>5, <1>6, <1>7, <1>8, Zenon

LEMMA InsertInFrame ==
  ASSUME NEW t \in Seq(Characters), Room(t, "text")
  PROVE  /\ InFrame(insert_index_marks(t, "text"))
         /\ Audible(insert_index_marks(t, "text"), "text") = t
<1>1. t \in Seq(Alphabet)
  BY BodyFacts
<1>2. PICK ss : ss = Marked(t, "text")
  OBVIOUS
<1>3. Len(ss) = Len(t) /\ ss \in Seq(Seq(Alphabet))
  BY <1>1, <1>2, MarkedFacts
<1>4. \A i \in 1..Len(ss) : ss[i] \in Seq(Body) /\ Audible(ss[i], "text") = <<t[i]>>
  BY <1>2, <1>3, MarkedHeard
<1>5. ss \in Seq(Seq(Body))
  BY <1>3, <1>4
<1>6. PICK y \in Seq(Body) : y = FlattenSeq(ss)
  BY <1>5, FlattenType
<1>7. y \in Seq(Alphabet)
  BY BodyFacts
<1>8. PICK hh : hh = [i \in 1..Len(ss) |-> <<t[i]>>]
  OBVIOUS
<1>9. hh \in Seq(Seq(Alphabet)) /\ Len(hh) = Len(ss) /\ \A i \in 1..Len(ss) : hh[i] = <<t[i]>>
  BY <1>1, <1>3, <1>8
<1>10. Audible(y, "text") = t
  <2>1. \A i \in 1..Len(ss) : hh[i] = Audible(ss[i], "text")
    BY <1>4, <1>9
  <2>2. Audible(FlattenSeq(ss), "text") = FlattenSeq(hh)
    BY <1>3, <1>9, <2>1, AudibleFlatten
  <2>3. Len(hh) = Len(t) /\ \A i \in 1..Len(t) : hh[i] = <<t[i]>>
    BY <1>3, <1>9
  <2>4. FlattenSeq(hh) = t
    BY <1>1, <1>9, <2>3, FlattenSame
  <2> QED
    BY <1>6, <2>2, <2>4
<1>11. PICK x \in Seq(Alphabet) : x = <<"<speak>">> \o y
  <2>1. <<"<speak>">> \in Seq(Alphabet)
    BY BodyFacts
  <2> QED
    BY <1>7, <2>1, ConcatProperties
<1>12. insert_index_marks(t, "text") = Append(x, "</speak>")
  <2>1. insert_index_marks(t, "text") = <<"<speak>">> \o FlattenSeq(ss) \o <<"</speak>">>
    BY <1>2, InsertIsMarked
  <2>2. Append(x, "</speak>") = x \o <<"</speak>">>
    BY BodyFacts, AppendFacts
  <2> QED
    BY <1>6, <1>11, <2>1, <2>2, Zenon
<1>13. Audible(Append(x, "</speak>"), "text") = Audible(x, "text")
  BY FrameSkipped
<1>14. Audible(x, "text") = Audible(y, "text")
  BY <1>7, <1>11, FrameSkipped
<1> QED
  BY <1>6, <1>10, <1>11, <1>12, <1>13, <1>14, Zenon DEF InFrame

LEMMA LeastIsMin ==
  ASSUME NEW I, I \subseteq Nat, NEW k \in I, \A j \in I : k <= j
  PROVE  Min(I) = k
<1>1. \A i \in I : (\A j \in I : i <= j) => i = k
  OBVIOUS
<1> QED
  BY <1>1 DEF Min

\* A mark is found at its first place.
LEMMA FoundAt ==
  ASSUME NEW t \in Seq(Alphabet), NEW n, Contains(t, Mark(n))
  PROVE  \E k \in 1..Len(t) :
            /\ t[k] = Mark(n) /\ \A j \in 1..(k - 1) : t[j] # Mark(n)
            /\ SelectInSeq(t, LAMBDA c : c = Mark(n)) = k
            /\ find_index_mark(t, n) = SubSeq(t, k + 1, Len(t))
<1> DEFINE I == {i \in 1..Len(t) : t[i] = Mark(n)}
<1>1. Len(t) \in Nat
  BY SeqFacts
<1>2. I # {} /\ I \subseteq Nat
  BY <1>1 DEF Contains
<1>3. SelectInSeq(t, LAMBDA c : c = Mark(n)) = Min(I)
  BY <1>2 DEF SelectInSeq
<1>4. find_index_mark(t, n) = SubSeq(t, SelectInSeq(t, LAMBDA c : c = Mark(n)) + 1, Len(t))
  BY Zenon DEF find_index_mark
<1> HIDE DEF I
<1>5. PICK k \in I : \A j \in I : k <= j
  BY <1>2, LeastNumber
<1>6. Min(I) = k
  BY <1>2, <1>5, LeastIsMin
<1>7. k \in 1..Len(t) /\ t[k] = Mark(n)
  BY DEF I
<1>8. ASSUME NEW j \in 1..(k - 1) PROVE t[j] # Mark(n)
  <2>1. j \in 1..Len(t) /\ ~(k <= j)
    BY <1>1, <1>7
  <2> QED
    BY <1>5, <2>1 DEF I
<1>9. SelectInSeq(t, LAMBDA c : c = Mark(n)) = k
  BY <1>3, <1>6, Zenon
<1>10. find_index_mark(t, n) = SubSeq(t, k + 1, Len(t))
  BY <1>4, <1>9, Zenon
<1> QED
  BY <1>7, <1>8, <1>9, <1>10, Zenon

\* What ends in a tag of the server, and has none of the client's.
LEMMA FrameEnd ==
  ASSUME NEW x \in Seq(Alphabet \ {"<"}), NEW t, t = Append(x, "</speak>")
  PROVE  /\ t \in Seq(Alphabet \ {"<"}) /\ t # <<>> /\ t[Len(t)] = "</speak>" /\ Fixed(t) = t
<1>1. "</speak>" \in Alphabet \ {"<"}
  BY BodyFacts
<1>2. t \in Seq(Alphabet \ {"<"}) /\ Len(t) = Len(x) + 1 /\ t[Len(x) + 1] = "</speak>"
  BY <1>1, AppendFacts
<1>3. t # <<>>
  BY <1>2, NoElement
<1>4. Fixed(t) = t
  BY <1>2, NotDoubled
<1> QED
  BY <1>2, <1>3, <1>4

LEMMA FrameFacts ==
  ASSUME NEW t, InFrame(t) \/ RestFrame(t)
  PROVE  /\ t \in Seq(Alphabet \ {"<"}) /\ t # <<>> /\ t[Len(t)] = "</speak>" /\ Fixed(t) = t
<1>1. "<speak>" \in Alphabet \ {"<"}
  BY BodyFacts
<1>2. CASE InFrame(t)
  <2>1. PICK y \in Seq(Body) : t = Append(<<"<speak>">> \o y, "</speak>")
    BY <1>2 DEF InFrame
  <2>2. y \in Seq(Alphabet \ {"<"})
    BY BodyFacts
  <2>3. PICK x \in Seq(Alphabet \ {"<"}) : x = <<"<speak>">> \o y
    <3>1. <<"<speak>">> \in Seq(Alphabet \ {"<"})
      BY <1>1
    <3> QED
      BY <2>2, <3>1, ConcatProperties
  <2>4. t = Append(x, "</speak>")
    BY <2>1, <2>3, Zenon
  <2> QED
    BY <2>4, FrameEnd
<1>3. CASE RestFrame(t)
  <2>1. PICK y \in Seq(Plain \cup Marks) : t = Append(y, "</speak>")
    BY <1>3 DEF RestFrame
  <2>2. y \in Seq(Alphabet \ {"<"})
    BY BodyFacts DEF Body
  <2> QED
    BY <2>1, <2>2, FrameEnd
<1> QED
  BY <1>2, <1>3

\* A framed text that is cut after a mark ends as it did.
LEMMA FrameCut ==
  ASSUME NEW t, InFrame(t), NEW k \in 1..Len(t), t[k] \in Marks,
         NEW r, r = SubSeq(t, k + 1, Len(t)), \A i \in DOMAIN r : r[i] \notin Entities
  PROVE  RestFrame(r)
<1>1. PICK y \in Seq(Body) : t = Append(<<"<speak>">> \o y, "</speak>")
  BY DEF InFrame
<1>2. t \in Seq(Alphabet) /\ t # <<>> /\ t[Len(t)] = "</speak>"
  BY FrameFacts
<1>3. Len(t) = Len(y) + 2 /\ \A i \in 2..(Len(t) - 1) : t[i] = y[i - 1]
  <2>1. PICK o : o = "<speak>"
    OBVIOUS
  <2>2. PICK x \in Seq(Alphabet) : x = <<o>> \o y
    <3>1. <<o>> \in Seq(Alphabet) /\ y \in Seq(Alphabet)
      BY <2>1, BodyFacts
    <3> QED
      BY <3>1, ConcatProperties
  <2>3. Len(x) = Len(y) + 1 /\ \A i \in 2..Len(x) : x[i] = y[i - 1]
    BY <1>1, <2>2
  <2>4. t = Append(x, "</speak>")
    BY <1>1, <2>1, <2>2, Zenon
  <2>5. Len(t) = Len(x) + 1 /\ \A i \in 1..Len(x) : t[i] = x[i]
    BY <2>4, BodyFacts, AppendFacts
  <2>6. Len(y) \in Nat
    BY SeqFacts
  <2> QED
    BY <2>3, <2>5, <2>6
<1>4. k < Len(t)
  <2>1. t[k] # "</speak>"
    BY AlphabetFacts
  <2> QED
    BY <1>2, <2>1
<1>5. k \in 0..Len(t) /\ Len(t) \in Nat
  BY <1>2
<1>6. /\ r \in Seq(Alphabet) /\ Len(r) = Len(t) - k
      /\ \A i \in 1..(Len(t) - k) : r[i] = t[k + i]
  BY <1>2, <1>5, Halves
<1>7. r # <<>>
  <2>1. Len(r) # 0
    BY <1>4, <1>5, <1>6
  <2> QED
    BY <2>1
<1>8. PICK x \in Seq(Alphabet), c \in Alphabet :
           /\ r = Append(x, c) /\ c = r[Len(r)] /\ Len(r) = Len(x) + 1
           /\ \A i \in 1..Len(x) : x[i] = r[i]
  BY <1>6, <1>7, SplitLast
<1>9. c = "</speak>"
  <2>1. Len(r) \in 1..(Len(t) - k) /\ k + Len(r) = Len(t)
    BY <1>4, <1>5, <1>6
  <2> QED
    BY <1>2, <1>6, <1>8, <2>1
<1>10. ASSUME NEW i \in 1..Len(x) PROVE x[i] \in Plain \cup Marks
  <2>1. i \in 1..(Len(t) - k) /\ k + i \in 2..(Len(t) - 1) /\ i \in DOMAIN r
    BY <1>5, <1>6, <1>8
  <2>2. x[i] = y[k + i - 1] /\ x[i] = r[i]
    <3>1. x[i] = r[i]
      BY <1>8
    <3>2. r[i] = t[k + i]
      BY <1>6, <2>1
    <3>3. t[k + i] = y[k + i - 1]
      BY <1>3, <2>1
    <3> QED
      BY <3>1, <3>2, <3>3, Zenon
  <2>3. k + i - 1 \in 1..Len(y)
    BY <1>3, <1>5, <2>1
  <2>4. x[i] \in Body
    <3>1. PICK j \in 1..Len(y) : j = k + i - 1
      BY <2>3
    <3>2. y[j] \in Body
      OBVIOUS
    <3> QED
      BY <2>2, <3>1, <3>2
  <2> QED
    BY <2>1, <2>2, <2>4 DEF Body
<1>11. x \in Seq(Plain \cup Marks)
  BY <1>10
<1> QED
  BY <1>8, <1>9, <1>11 DEF RestFrame

LEMMA PlainServer ==
  ASSUME NEW y \in Seq(Plain \cup Marks)
  PROVE  Audible(y, "server") \in Seq(Plain) /\ Audible(y, "text") = Audible(y, "server")
<1>1. y \in Seq(Alphabet)
  BY BodyFacts DEF Body
<1>2. ASSUME NEW c \in Plain \cup Marks
      PROVE  Ear(c, "server") \in Seq(Plain) /\ Ear(c, "text") = Ear(c, "server")
  <2>1. CASE c \in Marks
    <3>1. c \in Tags /\ c # "&lt" /\ c # "&gt" /\ c # "&amp"
      BY <2>1, AlphabetFacts DEF Tags
    <3>2. Ear(c, "server") = <<>> /\ Ear(c, "text") = <<>>
      BY <2>1, <3>1, Zenon DEF Ear
    <3>3. <<>> \in Seq(Plain)
      OBVIOUS
    <3> QED
      BY <3>2, <3>3, Zenon
  <2>2. CASE c \notin Marks
    <3>1. c \in Plain
      BY <2>2
    <3>2. c \notin Tags \cup {"<", ">"} /\ c # "&lt" /\ c # "&gt" /\ c # "&amp"
      BY <2>2, <3>1 DEF Plain, Tags
    <3>3. Ear(c, "server") = <<c>> /\ Ear(c, "text") = <<c>>
      BY <2>2, <3>2 DEF Ear
    <3>4. <<c>> \in Seq(Plain)
      BY <3>1
    <3> QED
      BY <3>3, <3>4, Zenon
  <2> QED
    BY <2>1, <2>2
<1>3. PICK hh : hh = Ears(y, "server")
  OBVIOUS
<1>4. PICK n \in Nat : n = Len(y) /\ DOMAIN y = 1..n /\ \A i \in 1..n : y[i] \in Plain \cup Marks
  BY SeqFacts
<1>5. hh \in Seq(Seq(Plain))
  <2>1. hh = [i \in 1..n |-> Ear(y[i], "server")]
    BY <1>3, <1>4, Zenon DEF Ears
  <2>2. \A i \in 1..n : Ear(y[i], "server") \in Seq(Plain)
    BY <1>2, <1>4, Zenon
  <2> QED
    BY <2>1, <2>2
<1>6. Ears(y, "text") = Ears(y, "server")
  BY <1>2 DEF Ears
<1> QED
  BY <1>3, <1>5, <1>6, FlattenType DEF Audible

\* What the server keeps of a plain text is what there is left to hear.
LEMMA RestStripped ==
  ASSUME NEW r, RestFrame(r)
  PROVE  /\ strip_index_marks(r, "text") = Audible(r, "text")
         /\ strip_index_marks(r, "text") \in Seq(Characters)
<1>1. PICK y \in Seq(Plain \cup Marks) : r = Append(y, "</speak>")
  BY DEF RestFrame
<1>2. y \in Seq(Alphabet)
  BY BodyFacts DEF Body
<1>3. PICK z \in Seq(Plain) : z = Audible(y, "server") /\ z = Audible(y, "text")
  BY PlainServer
<1>4. Audible(r, "text") = z
  BY <1>1, <1>2, <1>3, FrameSkipped
<1>5. z \in Seq(Alphabet) /\ z \in Seq(Characters) /\ Len(z) \in Nat
  BY BodyFacts
<1>6. PICK plain : plain = Without(r, Marks)
  OBVIOUS
<1>7. plain = Append(z, "</speak>")
  <2>1. plain = Audible(r, "server")
    BY <1>6, WithoutMarks
  <2>2. "</speak>" \in Alphabet \ Marks
    BY BodyFacts
  <2>3. Audible(r, "server") = Append(Audible(y, "server"), "</speak>")
    BY <1>1, <1>2, <2>2, ServerAppend
  <2> QED
    BY <1>3, <2>1, <2>3, Zenon
<1> DEFINE end == SelectInSeq(plain, LAMBDA c : c = "</speak>")
           I   == {i \in 1..Len(plain) : plain[i] = "</speak>"}
<1>8. /\ Len(plain) = Len(z) + 1 /\ plain[Len(z) + 1] = "</speak>"
      /\ \A i \in 1..Len(z) : plain[i] = z[i]
  BY <1>5, <1>7, BodyFacts, AppendFacts
<1>9. \A i \in 1..Len(z) : z[i] # "</speak>"
  <2>1. "</speak>" \notin Plain
    BY BodyFacts DEF Plain
  <2> QED
    BY <2>1
<1>10. end = Len(z) + 1
  <2>1. I = {Len(z) + 1}
    BY <1>5, <1>8, <1>9
  <2>2. end = IF I # {} THEN Min(I) ELSE 0
    BY DEF SelectInSeq
  <2> HIDE DEF end, I
  <2>3. Min(I) = Len(z) + 1
    <3>1. I \subseteq Nat /\ Len(z) + 1 \in I /\ \A j \in I : Len(z) + 1 <= j
      BY <1>5, <2>1
    <3> QED
      BY <3>1, LeastIsMin
  <2> QED
    BY <2>1, <2>2, <2>3
<1>11. strip_index_marks(r, "text") = IF end = 0 THEN plain ELSE SubSeq(plain, 1, end - 1)
  BY <1>6, Zenon DEF strip_index_marks
<1> HIDE DEF end, I
<1>12. strip_index_marks(r, "text") = SubSeq(plain, 1, Len(z))
  BY <1>5, <1>10, <1>11
<1>13. SubSeq(plain, 1, Len(z)) = z
  <2>1. SubSeq(plain, 1, Len(z)) = SubSeq(z, 1, Len(z))
    BY <1>5, <1>8, SamePrefix
  <2>2. SubSeq(z, 1, Len(z)) = z
    BY <1>5, SubSeqFull
  <2> QED
    BY <2>1, <2>2, Zenon
<1> QED
  BY <1>4, <1>5, <1>12, <1>13

-----------------------------------------------------------------------------
(***************************************************************************)
(* What is cut off and sent again.                                         *)
(***************************************************************************)

LEMMA FixedConcat ==
  ASSUME NEW A, NEW x \in Seq(A), NEW r \in Seq(A), r # <<>>, r[1] # ".",
         NEW z, z = x \o r
  PROVE  Fixed(z) = x \o Fixed(r)
<1>1. PICK m \in Nat, n \in Nat : m = Len(x) /\ n = Len(r)
  BY SeqFacts
<1>2. n # 0
  BY <1>1
<1>3. z \in Seq(A) /\ Len(z) = m + n /\ \A i \in 1..n : z[m + i] = r[i]
  <2>1. z \in Seq(A) /\ Len(z) = m + n
    BY <1>1
  <2>2. ASSUME NEW i \in 1..n PROVE z[m + i] = r[i]
    BY <1>1
  <2> QED
    BY <2>1, <2>2
<1>4. CASE n < 3
  <2>1. ~EndsDoubled(r)
    BY <1>1, <1>2, <1>4 DEF EndsDoubled
  <2>2. ~EndsDoubled(z)
    <3>1. CASE n = 1
      <4>1. z[Len(z)] = r[1]
        BY <1>3, <3>1
      <4> QED
        BY <4>1 DEF EndsDoubled
    <3>2. CASE n = 2
      <4>1. Len(z) - 1 = m + 1 /\ 1 \in 1..n
        BY <1>1, <1>3, <3>2
      <4>2. z[Len(z) - 1] = r[1]
        BY <1>3, <4>1
      <4> QED
        BY <4>2 DEF EndsDoubled
    <3> QED
      BY <1>2, <1>4, <3>1, <3>2
  <2> QED
    BY <2>1, <2>2 DEF Fixed
<1>5. CASE ~(n < 3)
  <2>1. /\ z[Len(z)] = r[n] /\ z[Len(z) - 1] = r[n - 1] /\ z[Len(z) - 1 - 1] = r[n - 1 - 1]
    <3>1. n \in 1..n /\ n - 1 \in 1..n /\ n - 1 - 1 \in 1..n
      BY <1>5
    <3>2. Len(z) = m + n /\ Len(z) - 1 = m + (n - 1) /\ Len(z) - 1 - 1 = m + (n - 1 - 1)
      BY <1>3, <1>1
    <3> QED
      BY <1>3, <3>1, <3>2
  <2>2. /\ Len(z) >= 2 /\ n >= 2 /\ Len(z) - 1 # 1 /\ n - 1 # 1
    <3>1. n \in Nat /\ m \in Nat /\ n >= 3
      BY <1>1, <1>5, SMT
    <3>2. m + n >= 2 /\ n >= 2 /\ m + n - 1 # 1 /\ n - 1 # 1
      BY <3>1, SMT
    <3>3. Len(z) = m + n
      BY <1>3
    <3> QED
      BY <3>2, <3>3
  <2>3. EndsDoubled(z) <=> EndsDoubled(r)
    BY <1>1, <2>1, <2>2 DEF EndsDoubled, StartsLine
  <2>4. CASE ~EndsDoubled(r)
    BY <2>3, <2>4 DEF Fixed
  <2>5. CASE EndsDoubled(r)
    <3>1. PICK f \in Seq(A) : f = Fixed(r)
      BY FixedType
    <3>2. r = Append(f, ".") /\ "." \in A
      BY <2>5, <3>1, FixedType
    <3>3. PICK g \in Seq(A) : g = x \o f
      BY <3>1, ConcatProperties
    <3>4. PICK w \in Seq(A) : w = <<".">>
      <4>1. <<".">> \in Seq(A)
        BY <3>2
      <4> QED
        BY <4>1
    <3>5. r = f \o w /\ Append(g, ".") = g \o w
      BY <3>2, <3>4, AppendFacts
    <3>6. Associate(x, f, w)
      BY Associates, Zenon
    <3>7. z = Append(g, ".")
      BY <3>3, <3>5, <3>6, Zenon DEF Associate
    <3>8. Fixed(z) = g
      BY <2>3, <2>5, <3>2, <3>7, FixedAppended
    <3> QED
      BY <3>1, <3>3, <3>8, Zenon
  <2> QED
    BY <2>4, <2>5
<1> QED
  BY <1>4, <1>5

LEMMA AppendFollowed ==
  ASSUME NEW t \in Seq(Alphabet), MarkFollowed(t), EndsInLoneDot(t),
         NEW z, z = Append(t, ".")
  PROVE  MarkFollowed(z)
<1>1. "." \in Alphabet /\ "." \notin Marks
  BY AlphabetFacts
<1>2. z \in Seq(Alphabet) /\ Len(z) = Len(t) + 1 /\ z[Len(t) + 1] = "."
      /\ \A i \in 1..Len(t) : z[i] = t[i]
  BY <1>1, AppendFacts
<1>3. Len(t) \in Nat
  BY SeqFacts
<1>4. t[Len(t)] = "."
  BY DEF EndsInLoneDot, LoneLine
<1>5. NoPair(z, Marks, {"."})
  <2> SUFFICES ASSUME NEW i \in 1..(Len(z) - 1), z[i] \in Marks PROVE z[i + 1] # "."
    BY DEF NoPair
  <2>1. i \in 1..Len(t) /\ i # Len(t)
    BY <1>1, <1>2, <1>3, <1>4
  <2>2. i \in 1..(Len(t) - 1) /\ i + 1 \in 1..Len(t)
    BY <1>3, <2>1
  <2>3. z[i] = t[i] /\ z[i + 1] = t[i + 1]
    BY <1>2, <2>2
  <2> QED
    BY <2>2, <2>3 DEF MarkFollowed, NoPair
<1>6. z[Len(z)] \notin Marks
  BY <1>1, <1>2
<1> QED
  BY <1>5, <1>6 DEF MarkFollowed

\* A mark is followed by something that is no dot, and the rest is as it was.
LEMMA RestFollowed ==
  ASSUME NEW t \in Seq(Alphabet), MarkFollowed(t), NEW k \in 1..Len(t), t[k] \in Marks,
         NEW r, r = SubSeq(t, k + 1, Len(t))
  PROVE  r \in Seq(Alphabet) /\ MarkFollowed(r) /\ r # <<>> /\ r[1] # "."
<1>1. PICK n \in Nat : n = Len(t)
  BY SeqFacts
<1>2. k < n
  <2>1. t # <<>>
    BY <1>1
  <2>2. k # n
    BY <1>1, <2>1 DEF MarkFollowed
  <2> QED
    BY <1>1, <2>2
<1>3. k \in 0..Len(t)
  BY <1>1
<1>4. r \in Seq(Alphabet) /\ Len(r) = n - k /\ \A i \in 1..(n - k) : r[i] = t[k + i]
  BY <1>1, <1>3, Halves
<1>5. r # <<>>
  <2>1. Len(r) # 0
    BY <1>2, <1>4
  <2> QED
    BY <2>1
<1>6. r[1] # "."
  <2>1. r[1] = t[k + 1]
    BY <1>2, <1>4
  <2>2. k \in 1..(Len(t) - 1)
    BY <1>1, <1>2
  <2> QED
    BY <2>1, <2>2 DEF MarkFollowed, NoPair
<1>7. NoPair(r, Marks, {"."})
  <2> SUFFICES ASSUME NEW i \in 1..(Len(r) - 1) PROVE ~(r[i] \in Marks /\ r[i + 1] = ".")
    BY DEF NoPair
  <2>1. i \in 1..(n - k) /\ i + 1 \in 1..(n - k)
    BY <1>2, <1>4
  <2>2. r[i] = t[k + i] /\ r[i + 1] = t[k + i + 1]
    <3>1. r[i + 1] = t[k + (i + 1)]
      BY <1>4, <2>1
    <3>2. k + (i + 1) = k + i + 1
      OBVIOUS
    <3> QED
      BY <1>4, <2>1, <3>1, <3>2
  <2>3. k + i \in 1..(Len(t) - 1)
    BY <1>1, <1>2, <2>1
  <2> QED
    BY <2>2, <2>3 DEF MarkFollowed, NoPair
<1>8. r[Len(r)] \notin Marks
  <2>1. n - k \in 1..(n - k) /\ k + (n - k) = n
    BY <1>2
  <2>2. r[Len(r)] = t[n]
    BY <1>4, <2>1
  <2>3. t # <<>>
    BY <1>1, <1>2
  <2> QED
    BY <1>1, <2>2, <2>3 DEF MarkFollowed
<1> QED
  BY <1>4, <1>5, <1>6, <1>7, <1>8 DEF MarkFollowed

LEMMA NoMarkFollowed ==
  ASSUME NEW t \in Seq(Alphabet \ Marks)
  PROVE  MarkFollowed(t)
<1>1. Len(t) \in Nat /\ \A i \in 1..Len(t) : t[i] \notin Marks
  BY SeqFacts
<1>2. NoPair(t, Marks, {"."})
  BY <1>1 DEF NoPair
<1>3. t # <<>> => t[Len(t)] \notin Marks
  <2>1. t # <<>> => Len(t) \in 1..Len(t)
    BY <1>1
  <2> QED
    BY <1>1, <2>1
<1> QED
  BY <1>2, <1>3 DEF MarkFollowed

\* The rest of a text of SSML is heard as it would have been.
LEMMA StripHeard ==
  ASSUME NEW r \in Seq(Alphabet), MarkFollowed(r), r # <<>>, r[1] # ".",
         NEW s, s = strip_index_marks(r, "ssml")
  PROVE  MarkFollowed(s) /\ Audible(Fixed(s), "ssml") = Audible(Fixed(r), "ssml")
<1>1. PICK o \in Alphabet \ Marks : o = "<speak>"
  BY BodyFacts
<1>2. PICK w \in Seq(Alphabet) : w = <<o>>
  <2>1. <<o>> \in Seq(Alphabet)
    OBVIOUS
  <2> QED
    BY <2>1
<1>3. PICK t \in Seq(Alphabet) : t = w \o r
  BY ConcatProperties
<1>4. MarkFollowed(t)
  <2>1. NoPair(w, Marks, {"."})
    <3>1. Len(w) = 1
      BY <1>2
    <3> QED
      BY <3>1 DEF NoPair
  <2>2. Len(w) # 0 /\ Len(r) # 0 => ~(w[Len(w)] \in Marks /\ r[1] \in {"."})
    OBVIOUS
  <2>3. NoPair(t, Marks, {"."})
    BY <1>3, <2>1, <2>2, NoPairConcat DEF MarkFollowed
  <2>4. t[Len(t)] = r[Len(r)]
    BY <1>2, <1>3
  <2> QED
    BY <2>3, <2>4 DEF MarkFollowed
<1>5. Audible(t, "server") = s
  <2>1. Audible(t, "server") = Audible(w, "server") \o Audible(r, "server")
    BY <1>3, AudibleConcat
  <2>2. Audible(w, "server") = w
    <3>1. Audible(w, "server") = Ear(o, "server")
      BY <1>2, AudibleOne
    <3>2. Ear(o, "server") = <<o>>
      BY DEF Ear
    <3> QED
      BY <1>2, <3>1, <3>2, Zenon
  <2>3. s = w \o Without(r, Marks)
    BY <1>1, <1>2, Zenon DEF strip_index_marks
  <2>4. Without(r, Marks) = Audible(r, "server")
    BY WithoutMarks
  <2> QED
    BY <2>1, <2>2, <2>3, <2>4, Zenon
<1>6. Audible(Fixed(t), "ssml") = Audible(Fixed(s), "ssml")
  BY <1>4, <1>5, HeardWithoutMarks
<1>7. Fixed(t) = w \o Fixed(r)
  BY <1>3, FixedConcat
<1>8. Audible(w \o Fixed(r), "ssml") = Audible(Fixed(r), "ssml")
  <2>1. PICK f \in Seq(Alphabet) : f = Fixed(r)
    BY FixedType
  <2>2. Audible(<<"<speak>">> \o f, "ssml") = Audible(f, "ssml")
    BY FrameSkipped
  <2> QED
    BY <1>1, <1>2, <2>1, <2>2, Zenon
<1>9. MarkFollowed(s)
  BY StripFacts, NoMarkFollowed
<1> QED
  BY <1>6, <1>7, <1>8, <1>9, Zenon

-----------------------------------------------------------------------------
(***************************************************************************)
(* What was heard and what is still to be heard make the text.             *)
(***************************************************************************)

Said == IF text = <<>> THEN <<"crlf">> ELSE text

\* what the module will speak of t, should it not be paused
ToHear(t, m)    == Audible(Fixed(t), m)
Whole(t, m)     == IF m = "text" THEN InFrame(t) ELSE MarkFollowed(t)
RestWhole(t, m) == IF m = "text" THEN RestFrame(t)
                   ELSE t \in Seq(Alphabet) /\ MarkFollowed(t) /\ t # <<>> /\ t[1] # "."

\* In every stage: what was heard and what is still to be heard make the text.
Accounted ==
  /\ heard \in Seq(Alphabet)
  /\ stage \in {"client", "lines"} => heard = <<>>
  /\ stage = "queued" => IF mode = "text" THEN buf \in Seq(Characters) /\ heard \o buf = Said
                         ELSE MarkFollowed(buf) /\ heard \o ToHear(buf, mode) = Said
  /\ stage \in {"marked", "received"} => Whole(buf, mode) /\ heard \o ToHear(buf, mode) = Said
  /\ stage = "received" => received = Fixed(buf)
  /\ stage = "paused" =>
       IF index_mark = -1
       THEN mode = "ssml" /\ MarkFollowed(buf) /\ heard \o ToHear(buf, mode) = Said
       ELSE \E r : /\ r = find_index_mark(buf, index_mark) /\ r # <<"?">>
                   /\ RestWhole(r, mode) /\ heard \o ToHear(r, mode) = Said
  /\ stage = "spoken" => heard = Said

Faithful == ~spoiled /\ ~RawDots => Accounted

LEMMA SaidFacts ==
  ASSUME TextsTypes
  PROVE  /\ Said \in Seq(Characters)
         /\ mode = "ssml" /\ ~RawDots => MarkFollowed(Said) /\ ToHear(Said, "ssml") = Said
<1>1. Said \in Seq(Characters)
  <2>1. text \in Seq(Characters)
    BY TextsAssumption DEF TextsTypes
  <2>2. "crlf" \in Characters
    BY DEF Characters
  <2>3. <<"crlf">> \in Seq(Characters)
    BY <2>2
  <2> QED
    BY <2>1, <2>3 DEF Said
<1>2. PICK t \in Seq(Characters) : t = Said
  BY <1>1
<1>3. ASSUME mode = "ssml", ~RawDots PROVE Fixed(t) = t
  <2>1. CASE text = <<>>
    <3>1. t = <<"crlf">>
      BY <1>2, <2>1 DEF Said
    <3>2. Len(t) = 1
      BY <3>1
    <3> QED
      BY <3>2 DEF Fixed, EndsDoubled
  <2>2. CASE text # <<>>
    <3>1. t = text
      BY <1>2, <2>2 DEF Said
    <3>2. Len(t) \in Nat /\ DOMAIN t = 1..Len(t)
      BY SeqFacts
    <3>3. ASSUME EndsDoubled(t) PROVE FALSE
      <4>1. /\ Len(t) >= 2 /\ t[Len(t)] = "." /\ t[Len(t) - 1] = "."
            /\ StartsLine(t, Len(t) - 1, Newlines)
        BY <3>3 DEF EndsDoubled
      <4>2. Len(t) \in DOMAIN t /\ Len(t) > 1
        BY <3>2, <4>1
      <4> QED
        BY <1>3, <3>1, <4>1, <4>2 DEF RawDots
    <3> QED
      BY <3>3 DEF Fixed
  <2> QED
    BY <2>1, <2>2
<1>4. Audible(t, "ssml") = t
  <2>1. PICK ss : ss = Ears(t, "ssml")
    OBVIOUS
  <2>2. t \in Seq(Alphabet)
    BY BodyFacts
  <2>3. ss \in Seq(Seq(Alphabet)) /\ Len(ss) = Len(t) /\ \A i \in 1..Len(t) : ss[i] = Ear(t[i], "ssml")
    BY <2>1, <2>2, EarsType
  <2>4. ASSUME NEW i \in 1..Len(t) PROVE ss[i] = <<t[i]>>
    <3>1. t[i] \in Characters
      BY SeqFacts
    <3>2. t[i] \notin Tags
      BY <3>1, BodyFacts DEF Tags, Characters
    <3>3. Ear(t[i], "ssml") = <<t[i]>>
      BY <3>2 DEF Ear
    <3> QED
      BY <2>3, <3>3
  <2>5. FlattenSeq(ss) = t
    BY <2>2, <2>3, <2>4, FlattenSame
  <2> QED
    BY <2>1, <2>5 DEF Audible
<1>5. MarkFollowed(t)
  <2>1. t \in Seq(Alphabet \ Marks)
    BY BodyFacts
  <2> QED
    BY <2>1, NoMarkFollowed
<1> QED
  BY <1>2, <1>3, <1>4, <1>5, Zenon DEF ToHear

LEMMA FaithfulInitial == TextsInit => Faithful
<1> SUFFICES ASSUME TextsInit PROVE Accounted
  BY DEF Faithful
<1>1. stage = "client" /\ heard = <<>> /\ heard \in Seq(Alphabet)
  BY DEF TextsInit
<1> QED
  BY <1>1 DEF Accounted

LEMMA FaithfulSpdSay == TextsInv /\ Faithful /\ spd_say => Faithful'
<1> SUFFICES ASSUME TextsInv, Faithful, spd_say, ~spoiled', ~RawDots' PROVE Accounted'
  BY DEF Faithful
<1>1. /\ stage = "client" /\ stage' = "lines" /\ UNCHANGED <<mode, text, heard>> /\ ~spoiled
  BY DEF spd_say, Step
<1>2. ~RawDots
  BY <1>1, SameText
<1>3. heard = <<>> /\ heard \in Seq(Alphabet)
  BY <1>1, <1>2 DEF Faithful, Accounted
<1> QED
  BY <1>1, <1>3 DEF Accounted

LEMMA FaithfulParse == TextsInv /\ Faithful /\ parse => Faithful'
<1> SUFFICES ASSUME TextsInv, Faithful, parse, ~spoiled', ~RawDots' PROVE Accounted'
  BY DEF Faithful
<1>1. /\ stage = "lines" /\ stage' = "queued" /\ UNCHANGED <<mode, text, heard>> /\ ~spoiled
      /\ buf' = deescape_dot(DataOf(buf))
  BY DEF parse, Step
<1>2. ~RawDots /\ Said' = Said
  BY <1>1, SameText DEF Said
<1>3. heard = <<>> /\ heard \in Seq(Alphabet)
  BY <1>1, <1>2 DEF Faithful, Accounted
<1>4. buf = EscapeDots(text) \o <<"crlf", ".", "crlf">>
  BY <1>1 DEF TextsInv, Sent
<1>5. buf' = Said
  <2>1. text \in Seq(Characters)
    BY TextsAssumption DEF TextsInv, TextsTypes
  <2>2. {".", "crlf"} \subseteq Characters
    BY DEF Characters
  <2> QED
    BY <1>1, <1>4, <2>1, <2>2, ReadAsWritten DEF Said
<1>6. TextsTypes /\ mode \in {"text", "ssml"}
  BY DEF TextsInv, TextsTypes
<1>7. PICK t \in Seq(Characters) : t = Said
  BY <1>6, SaidFacts
<1>8. <<>> \o t = t
  BY ConcatEmptySeq
<1>9. mode = "ssml" => MarkFollowed(t) /\ ToHear(t, "ssml") = t
  BY <1>2, <1>6, <1>7, SaidFacts
<1>10. IF mode' = "text" THEN buf' \in Seq(Characters) /\ heard' \o buf' = Said'
       ELSE MarkFollowed(buf') /\ heard' \o ToHear(buf', mode') = Said'
  <2>1. buf' = t /\ heard' = <<>> /\ mode' = mode /\ Said' = t
    BY <1>1, <1>2, <1>3, <1>5, <1>7
  <2> QED
    BY <1>6, <1>8, <1>9, <2>1, Zenon
<1>11. heard' \in Seq(Alphabet)
  BY <1>1, <1>3
<1> QED
  BY <1>1, <1>10, <1>11 DEF Accounted

LEMMA FaithfulSpeak == TextsInv /\ Faithful /\ speak => Faithful'
<1> SUFFICES ASSUME TextsInv, Faithful, speak, ~spoiled', ~RawDots' PROVE Accounted'
  BY DEF Faithful
<1>1. /\ stage = "queued" /\ stage' = "marked" /\ UNCHANGED <<mode, text, heard>> /\ ~spoiled
      /\ Room(buf, mode) /\ buf' = insert_index_marks(buf, mode)
  BY DEF speak, Step, Room
<1>2. ~RawDots /\ Said' = Said
  BY <1>1, SameText DEF Said
<1>3. Accounted
  BY <1>1, <1>2 DEF Faithful
<1>4. buf \in Seq(Alphabet) /\ mode \in {"text", "ssml"}
  BY DEF TextsInv, TextsTypes
<1>5. PICK t : t = insert_index_marks(buf, mode)
  OBVIOUS
<1>6. Whole(t, mode) /\ heard \o ToHear(t, mode) = Said
  <2>1. CASE mode = "text"
    <3>1. buf \in Seq(Characters) /\ heard \o buf = Said
      BY <1>1, <1>3, <2>1 DEF Accounted
    <3>2. InFrame(t) /\ Audible(t, "text") = buf
      BY <1>1, <1>5, <2>1, <3>1, InsertInFrame
    <3>3. Fixed(t) = t
      BY <3>2, FrameFacts
    <3> QED
      BY <2>1, <3>1, <3>2, <3>3, Zenon DEF Whole, ToHear
  <2>2. CASE mode = "ssml"
    <3>1. MarkFollowed(buf) /\ heard \o ToHear(buf, "ssml") = Said
      BY <1>1, <1>3, <2>2 DEF Accounted
    <3>2. MarkFollowed(t)
      BY <1>1, <1>4, <1>5, <2>2, <3>1, InsertFollowed
    <3>3. Audible(t, "server") = Audible(buf, "server")
      BY <1>1, <1>4, <1>5, <2>2, InsertServer
    <3>4. t \in Seq(Alphabet)
      BY <1>1, <1>4, <1>5, InsertType
    <3>5. Audible(Fixed(t), "ssml") = Audible(Fixed(Audible(t, "server")), "ssml")
      BY <3>2, <3>4, HeardWithoutMarks
    <3>6. Audible(Fixed(buf), "ssml") = Audible(Fixed(Audible(buf, "server")), "ssml")
      BY <1>4, <3>1, HeardWithoutMarks
    <3>7. ToHear(t, "ssml") = ToHear(buf, "ssml")
      BY <3>3, <3>5, <3>6, Zenon DEF ToHear
    <3>8. Whole(t, mode)
      BY <2>2, <3>2 DEF Whole
    <3> QED
      BY <2>2, <3>1, <3>7, <3>8, Zenon
  <2> QED
    BY <1>4, <2>1, <2>2
<1>7. /\ Whole(buf', mode') /\ heard' \o ToHear(buf', mode') = Said'
      /\ heard' \in Seq(Alphabet)
  <2>1. buf' = t /\ heard' = heard /\ mode' = mode /\ Said' = Said /\ heard \in Seq(Alphabet)
    BY <1>1, <1>2, <1>3, <1>5 DEF Accounted
  <2> QED
    BY <1>6, <2>1, Zenon
<1> QED
  BY <1>1, <1>7 DEF Accounted

LEMMA FaithfulOutputSpeak == TextsInv /\ Faithful /\ output_speak => Faithful'
<1> SUFFICES ASSUME TextsInv, Faithful, output_speak, ~spoiled', ~RawDots' PROVE Accounted'
  BY DEF Faithful
<1>1. /\ stage = "marked" /\ stage' = "received" /\ UNCHANGED <<mode, text, heard>> /\ ~spoiled
      /\ buf' = escape_dot(buf)
      /\ received' = do_message(escape_dot(buf) \o <<"lf", ".", "lf">>).msg
  BY DEF output_speak, Step
<1>2. ~RawDots /\ Said' = Said
  BY <1>1, SameText DEF Said
<1>3. Accounted
  BY <1>1, <1>2 DEF Faithful
<1>4. buf \in Seq(Alphabet) /\ NoDotLine(buf)
  BY <1>1, <1>2 DEF TextsInv, TextsTypes, Undotted
<1>5. PICK t : t = escape_dot(buf)
  OBVIOUS
<1>6. /\ Fixed(t) = Fixed(buf)
      /\ t = buf \/ (EndsInLoneDot(buf) /\ t = Append(buf, "."))
  BY <1>4, <1>5, EscapeFixed
<1>7. received' = Fixed(t)
  BY <1>1, <1>4, <1>5, ReadIsFixed, Zenon
<1>8. Whole(buf, mode) /\ heard \o ToHear(buf, mode) = Said
  BY <1>1, <1>3 DEF Accounted
<1>9. Whole(t, mode)
  <2>1. CASE t = buf
    BY <1>8, <2>1
  <2>2. CASE EndsInLoneDot(buf) /\ t = Append(buf, ".")
    <3>1. buf[Len(buf)] = "."
      BY <2>2 DEF EndsInLoneDot, LoneLine
    <3>2. ~InFrame(buf)
      BY <3>1, FrameFacts
    <3>3. mode # "text" /\ MarkFollowed(buf)
      BY <1>8, <3>2 DEF Whole
    <3>4. MarkFollowed(t)
      BY <1>4, <2>2, <3>3, AppendFollowed
    <3> QED
      BY <3>3, <3>4 DEF Whole
  <2> QED
    BY <1>6, <2>1, <2>2
<1>10. ToHear(t, mode) = ToHear(buf, mode)
  BY <1>6, Zenon DEF ToHear
<1>11. /\ Whole(buf', mode') /\ heard' \o ToHear(buf', mode') = Said'
       /\ heard' \in Seq(Alphabet) /\ received' = Fixed(buf')
  <2>1. buf' = t /\ heard' = heard /\ mode' = mode /\ Said' = Said /\ heard \in Seq(Alphabet)
    BY <1>1, <1>2, <1>3, <1>5 DEF Accounted
  <2> QED
    BY <1>7, <1>8, <1>9, <1>10, <2>1, Zenon
<1> QED
  BY <1>1, <1>11 DEF Accounted

LEMMA FaithfulSpeaksAll == TextsInv /\ Faithful /\ SpeaksAll => Faithful'
<1> SUFFICES ASSUME TextsInv, Faithful, SpeaksAll, ~spoiled', ~RawDots' PROVE Accounted'
  BY DEF Faithful
<1>1. /\ stage = "received" /\ stage' = "spoken" /\ UNCHANGED <<mode, text>> /\ ~spoiled
      /\ heard' = heard \o Spoken(received, mode)
  BY DEF SpeaksAll, Step
<1>2. ~RawDots /\ Said' = Said
  BY <1>1, SameText DEF Said
<1>3. Accounted
  BY <1>1, <1>2 DEF Faithful
<1>4. buf \in Seq(Alphabet) /\ mode \in {"text", "ssml"}
  BY DEF TextsInv, TextsTypes
<1>5. Whole(buf, mode) /\ heard \o ToHear(buf, mode) = Said /\ received = Fixed(buf)
  BY <1>1, <1>3 DEF Accounted
<1>6. PICK t \in Seq(Alphabet) : t = Fixed(buf)
  BY <1>4, FixedType
<1>7. mode = "text" => t \in Seq(Alphabet \ {"<"})
  BY <1>5, <1>6, FrameFacts DEF Whole
<1>8. Spoken(t, mode) = Audible(t, mode)
  BY <1>4, <1>6, <1>7, SpokenIsAudible
<1>9. heard' = Said
  BY <1>1, <1>5, <1>6, <1>8, Zenon DEF ToHear
<1>10. heard' \in Seq(Alphabet)
  <2>1. Said \in Seq(Characters)
    BY SaidFacts DEF TextsInv
  <2> QED
    BY <1>9, <2>1, BodyFacts
<1> QED
  BY <1>1, <1>2, <1>9, <1>10 DEF Accounted

LEMMA FaithfulPauses == TextsInv /\ Faithful /\ Pauses => Faithful'
<1> SUFFICES ASSUME TextsInv, Faithful, Pauses, ~spoiled', ~RawDots' PROVE Accounted'
  BY DEF Faithful
<1>1. /\ stage = "received" /\ stage' = "paused"
      /\ UNCHANGED <<mode, text, heard, buf, index_mark>>
      /\ ~spoiled /\ ~Spoils(FALSE, <<>>)
  BY DEF Pauses, Step
<1>2. ~RawDots /\ Said' = Said
  BY <1>1, SameText DEF Said
<1>3. Accounted
  BY <1>1, <1>2 DEF Faithful
<1>4. mode = "ssml" /\ index_mark = -1
  BY <1>1 DEF Spoils, TextsInv, TextsTypes
<1>5. Whole(buf, mode) /\ heard \o ToHear(buf, mode) = Said /\ heard \in Seq(Alphabet)
  BY <1>1, <1>3 DEF Accounted
<1>6. MarkFollowed(buf)
  BY <1>4, <1>5 DEF Whole
<1>7. /\ heard' \in Seq(Alphabet) /\ index_mark' = -1 /\ mode' = "ssml"
      /\ MarkFollowed(buf') /\ heard' \o ToHear(buf', mode') = Said'
  BY <1>1, <1>2, <1>4, <1>5, <1>6, Zenon
<1> QED
  BY <1>1, <1>7 DEF Accounted

FirstMark(t, n) == SelectInSeq(t, LAMBDA c : c = Mark(n))
NoEntity(t)     == \A i \in DOMAIN t : t[i] \notin Entities

\* t, of which f has been read, cut into what is spoken and what is sent again
IsCut(t, f, m, n) ==
  \E h \in Seq(Alphabet), r \in Seq(Alphabet) :
     /\ r = find_index_mark(t, n) /\ r # <<"?">> /\ RestWhole(r, m)
     /\ h = SubSeq(f, 1, FirstMark(f, n)) /\ Spoken(h, m) = Audible(h, m)
     /\ Audible(f, m) = Audible(h, m) \o ToHear(r, m)

LEMMA CutHeard ==
  ASSUME NEW h \in Seq(Alphabet), NEW r \in Seq(Alphabet), NEW m
  PROVE  Audible(h \o Fixed(r), m) = Audible(h, m) \o ToHear(r, m)
<1>1. PICK g \in Seq(Alphabet) : g = Fixed(r)
  BY FixedType
<1>2. Audible(h \o g, m) = Audible(h, m) \o Audible(g, m)
  BY AudibleConcat
<1> QED
  BY <1>1, <1>2, Zenon DEF ToHear

\* What the module has read of a text has its first mark of a number where
\* the server has it; what is before is spoken, what is after is sent again.
LEMMA CutFacts ==
  ASSUME NEW t \in Seq(Alphabet), NEW m \in {"text", "ssml"}, Whole(t, m), NEW n,
         n \in 0..(Len(MarkNames) - 1), NEW f, f = Fixed(t), Contains(f, Mark(n)),
         m = "text" => NoEntity(find_index_mark(t, n))
  PROVE  IsCut(t, f, m, n)
<1>1. f \in Seq(Alphabet) /\ \A i \in 1..Len(f) : i \in 1..Len(t) /\ f[i] = t[i]
  BY FixedType
<1>2. PICK k \in 1..Len(f) :
            /\ f[k] = Mark(n) /\ \A j \in 1..(k - 1) : f[j] # Mark(n)
            /\ FirstMark(f, n) = k
  BY <1>1, FoundAt, Zenon DEF FirstMark
<1>3. Contains(t, Mark(n))
  BY <1>1, <1>2 DEF Contains
<1>4. PICK l \in 1..Len(t) :
            /\ t[l] = Mark(n) /\ \A j \in 1..(l - 1) : t[j] # Mark(n)
            /\ find_index_mark(t, n) = SubSeq(t, l + 1, Len(t))
  BY <1>3, FoundAt, Zenon
<1>5. Len(f) \in Nat /\ Len(t) \in Nat /\ k \in 1..Len(t) /\ t[k] = Mark(n)
  BY <1>1, <1>2
<1>6. k = l
  <2>1. ~(k < l)
    <3>1. k < l => k \in 1..(l - 1)
      BY <1>5
    <3> QED
      BY <1>4, <1>5, <3>1
  <2>2. ~(l < k)
    <3>1. l < k => l \in 1..(k - 1) /\ l \in 1..Len(f)
      BY <1>5
    <3>2. l \in 1..Len(f) => f[l] = t[l]
      BY <1>1
    <3> QED
      BY <1>2, <1>4, <3>1, <3>2
  <2> QED
    BY <2>1, <2>2
<1>7. Mark(n) \in Marks
  <2>1. n + 1 \in DOMAIN MarkNames
    BY TextsAssumption
  <2> QED
    BY <2>1 DEF Mark, Marks, ToSet
<1>8. k \in 0..Len(f) /\ k \in 0..Len(t)
  BY <1>5
<1>9. PICK h \in Seq(Alphabet) : h = SubSeq(f, 1, k)
  BY <1>1, <1>8, Halves
<1>10. PICK r \in Seq(Alphabet) : r = SubSeq(t, k + 1, Len(t))
  BY <1>8, Halves
<1>11. r = find_index_mark(t, n)
  BY <1>4, <1>6, <1>10, Zenon
<1>12. r # <<"?">>
  <2>1. "?" \notin Alphabet
    BY AlphabetFacts DEF Alphabet, Characters, Entities, Tags
  <2>2. <<"?">> \notin Seq(Alphabet)
    <3> SUFFICES ASSUME <<"?">> \in Seq(Alphabet) PROVE FALSE
      OBVIOUS
    <3>1. Len(<<"?">>) = 1 /\ <<"?">>[1] = "?"
      OBVIOUS
    <3>2. <<"?">>[1] \in Alphabet
      BY <3>1
    <3> QED
      BY <2>1, <3>1, <3>2
  <2> QED
    BY <2>2
<1>13. h = SubSeq(t, 1, k)
  <2>1. k \in Nat /\ \A i \in 1..k : i \in 1..Len(f)
    BY <1>5
  <2>2. \A i \in 1..k : f[i] = t[i] /\ t[i] \in Alphabet
    BY <1>1, <2>1
  <2>3. SubSeq(f, 1, k) = SubSeq(t, 1, k)
    BY <2>1, <2>2, SamePrefix
  <2> QED
    BY <1>9, <2>3, Zenon
<1>14. t = h \o r
  <2>1. t = SubSeq(t, 1, k) \o SubSeq(t, k + 1, Len(t))
    BY <1>8, Halves
  <2> QED
    BY <1>10, <1>13, <2>1, Zenon
<1>15. t[k] \in Marks
  BY <1>5, <1>7
<1>16. RestWhole(r, m) /\ f = h \o Fixed(r) /\ (m = "text" => h \in Seq(Alphabet \ {"<"}))
  <2>1. CASE m = "text"
    <3>1. InFrame(t)
      BY <2>1 DEF Whole
    <3>2. \A i \in DOMAIN r : r[i] \notin Entities
      BY <1>11, <2>1, Zenon DEF NoEntity
    <3>3. RestFrame(r)
      BY <1>5, <1>10, <1>15, <3>1, <3>2, FrameCut
    <3>4. Fixed(r) = r /\ Fixed(t) = t /\ t \in Seq(Alphabet \ {"<"})
      BY <3>1, <3>3, FrameFacts
    <3>5. h \in Seq(Alphabet \ {"<"})
      BY <1>8, <1>13, <3>4, Halves
    <3>6. RestWhole(r, m)
      BY <2>1, <3>3 DEF RestWhole
    <3> QED
      BY <1>14, <3>4, <3>5, <3>6, Zenon
  <2>2. CASE m = "ssml"
    <3>1. MarkFollowed(t)
      BY <2>2 DEF Whole
    <3>2. r \in Seq(Alphabet) /\ MarkFollowed(r) /\ r # <<>> /\ r[1] # "."
      BY <1>5, <1>10, <1>15, <3>1, RestFollowed
    <3>3. Fixed(t) = h \o Fixed(r)
      BY <1>14, <3>2, FixedConcat
    <3> QED
      BY <2>2, <3>2, <3>3 DEF RestWhole
  <2> QED
    BY <2>1, <2>2
<1>17. Spoken(h, m) = Audible(h, m)
  BY <1>16, SpokenIsAudible
<1>18. Audible(f, m) = Audible(h, m) \o ToHear(r, m)
  <2>1. Audible(h \o Fixed(r), m) = Audible(h, m) \o ToHear(r, m)
    BY CutHeard
  <2> QED
    BY <1>16, <2>1, Zenon
<1>19. h = SubSeq(f, 1, FirstMark(f, n))
  BY <1>2, <1>9, Zenon
<1> QED
  BY <1>11, <1>12, <1>16, <1>17, <1>18, <1>19, Zenon DEF IsCut

LEMMA FaithfulPausesAtMark ==
  ASSUME NEW n \in 0..(Len(MarkNames) - 1), TextsInv, Faithful, PausesAtMark(n)
  PROVE  Faithful'
<1> SUFFICES ASSUME ~spoiled', ~RawDots' PROVE Accounted'
  BY DEF Faithful
<1>1. /\ stage = "received" /\ stage' = "paused" /\ UNCHANGED <<mode, text, buf>>
      /\ Contains(received, Mark(n)) /\ index_mark' = n
      /\ ~spoiled /\ ~Spoils(TRUE, find_index_mark(buf, n))
  BY DEF PausesAtMark, Step
<1>2. heard' = heard \o Spoken(SubSeq(received, 1, FirstMark(received, n)), mode)
  BY DEF PausesAtMark, FirstMark
<1>3. ~RawDots /\ Said' = Said
  BY <1>1, SameText DEF Said
<1>4. Accounted
  BY <1>1, <1>3 DEF Faithful
<1>5. buf \in Seq(Alphabet) /\ mode \in {"text", "ssml"}
  BY DEF TextsInv, TextsTypes
<1>6. /\ Whole(buf, mode) /\ heard \o ToHear(buf, mode) = Said /\ received = Fixed(buf)
      /\ heard \in Seq(Alphabet)
  BY <1>1, <1>4 DEF Accounted
<1>7. mode = "text" => NoEntity(find_index_mark(buf, n))
  BY <1>1 DEF Spoils, NoEntity
<1>8. PICK h \in Seq(Alphabet), r \in Seq(Alphabet) :
            /\ r = find_index_mark(buf, n) /\ r # <<"?">> /\ RestWhole(r, mode)
            /\ h = SubSeq(received, 1, FirstMark(received, n))
            /\ Spoken(h, mode) = Audible(h, mode)
            /\ Audible(received, mode) = Audible(h, mode) \o ToHear(r, mode)
  <2>0. PICK f : f = received
    OBVIOUS
  <2>1. PICK t \in Seq(Alphabet) : t = buf
    BY <1>5
  <2>2. PICK m \in {"text", "ssml"} : m = mode
    BY <1>5
  <2>3. /\ Whole(t, m) /\ f = Fixed(t) /\ Contains(f, Mark(n))
        /\ m = "text" => NoEntity(find_index_mark(t, n))
    BY <1>1, <1>6, <1>7, <2>0, <2>1, <2>2, Zenon
  <2>4. IsCut(t, f, m, n)
    BY <2>3, CutFacts
  <2> QED
    BY <2>0, <2>1, <2>2, <2>4, Zenon DEF IsCut
<1>9. PICK v \in Seq(Alphabet), u \in Seq(Alphabet) : v = Audible(h, mode) /\ u = ToHear(r, mode)
  <2>1. ToHear(r, mode) \in Seq(Alphabet)
    BY FixedType, AudibleType DEF ToHear
  <2> QED
    BY <2>1, AudibleType
<1>10. heard' = heard \o v
  BY <1>2, <1>8, <1>9, Zenon
<1>11. heard \o (v \o u) = Said
  BY <1>6, <1>8, <1>9, Zenon DEF ToHear
<1>12. (heard \o v) \o u = heard \o (v \o u) /\ heard \o v \in Seq(Alphabet)
  <2>1. PICK w \in Seq(Alphabet) : w = heard
    BY <1>6
  <2>2. Associate(w, v, u)
    BY Associates, Zenon
  <2>3. w \o v \in Seq(Alphabet)
    BY ConcatProperties
  <2> QED
    BY <2>1, <2>2, <2>3, Zenon DEF Associate
<1>13. heard' \o ToHear(r, mode) = Said
  BY <1>9, <1>10, <1>11, <1>12, Zenon
<1>14. \E r1 : /\ r1 = find_index_mark(buf', index_mark') /\ r1 # <<"?">>
               /\ RestWhole(r1, mode') /\ heard' \o ToHear(r1, mode') = Said'
  BY <1>1, <1>3, <1>8, <1>13, Zenon
<1>15. heard' \in Seq(Alphabet) /\ index_mark' # -1
  BY <1>1, <1>10, <1>12
<1> QED
  BY <1>1, <1>14, <1>15 DEF Accounted

LEMMA FaithfulReload == TextsInv /\ Faithful /\ reload_message => Faithful'
<1> SUFFICES ASSUME TextsInv, Faithful, reload_message, ~spoiled', ~RawDots' PROVE Accounted'
  BY DEF Faithful
<1>1. /\ stage = "paused" /\ UNCHANGED <<mode, text, heard, index_mark>> /\ ~spoiled
      /\ stage' \in {"queued", "lost"}
  BY DEF reload_message
<1>2. ~RawDots /\ Said' = Said
  BY <1>1, SameText DEF Said
<1>3. Accounted
  BY <1>1, <1>2 DEF Faithful
<1>4. mode \in {"text", "ssml"} /\ heard \in Seq(Alphabet)
  BY <1>3 DEF TextsInv, TextsTypes, Accounted
<1>5. IF mode = "text" THEN buf' \in Seq(Characters) /\ heard \o buf' = Said
      ELSE MarkFollowed(buf') /\ heard \o ToHear(buf', mode) = Said
  <2>1. CASE index_mark = -1
    <3>1. buf' = buf
      BY <2>1 DEF reload_message
    <3>2. mode = "ssml" /\ MarkFollowed(buf) /\ heard \o ToHear(buf, mode) = Said
      BY <1>1, <1>3, <2>1 DEF Accounted
    <3> QED
      BY <3>1, <3>2, Zenon
  <2>2. CASE index_mark # -1
    <3>1. PICK r : /\ r = find_index_mark(buf, index_mark) /\ r # <<"?">>
                   /\ RestWhole(r, mode) /\ heard \o ToHear(r, mode) = Said
      BY <1>1, <1>3, <2>2 DEF Accounted
    <3>2. buf' = strip_index_marks(r, mode)
      BY <2>2, <3>1 DEF reload_message
    <3>3. CASE mode = "text"
      <4>1. RestFrame(r)
        BY <3>1, <3>3 DEF RestWhole
      <4>2. Fixed(r) = r
        BY <4>1, FrameFacts
      <4>3. buf' = Audible(r, "text") /\ buf' \in Seq(Characters)
        BY <3>2, <3>3, <4>1, RestStripped
      <4>4. ToHear(r, mode) = buf'
        BY <3>3, <4>2, <4>3, Zenon DEF ToHear
      <4> QED
        BY <3>1, <3>3, <4>3, <4>4, Zenon
    <3>4. CASE mode = "ssml"
      <4>1. r \in Seq(Alphabet) /\ MarkFollowed(r) /\ r # <<>> /\ r[1] # "."
        BY <3>1, <3>4 DEF RestWhole
      <4>2. MarkFollowed(buf') /\ Audible(Fixed(buf'), "ssml") = Audible(Fixed(r), "ssml")
        BY <3>2, <3>4, <4>1, StripHeard
      <4>3. ToHear(buf', mode) = ToHear(r, mode)
        BY <3>4, <4>2, Zenon DEF ToHear
      <4> QED
        BY <3>1, <3>4, <4>2, <4>3, Zenon
    <3> QED
      BY <1>4, <3>3, <3>4
  <2> QED
    BY <2>1, <2>2
<1>6. /\ heard' \in Seq(Alphabet)
      /\ IF mode' = "text" THEN buf' \in Seq(Characters) /\ heard' \o buf' = Said'
         ELSE MarkFollowed(buf') /\ heard' \o ToHear(buf', mode') = Said'
  <2>1. heard' = heard /\ mode' = mode /\ Said' = Said
    BY <1>1, <1>2
  <2> QED
    BY <1>4, <1>5, <2>1, Zenon
<1> QED
  BY <1>1, <1>6 DEF Accounted

\* What is heard in the end is what the client said, in whatever way its dots
\* were doubled and halved and however often it was paused and resumed.
THEOREM TextsHeardIsSent == TextsSpec => []HeardIsSent
<1>1. TextsInv /\ Faithful /\ [TextsNext]_texts_vars => Faithful'
  <2> SUFFICES ASSUME TextsInv, Faithful, [TextsNext]_texts_vars PROVE Faithful'
    OBVIOUS
  <2>1. CASE spd_say
    BY <2>1, FaithfulSpdSay
  <2>2. CASE parse
    BY <2>2, FaithfulParse
  <2>3. CASE speak
    BY <2>3, FaithfulSpeak
  <2>4. CASE output_speak
    BY <2>4, FaithfulOutputSpeak
  <2>5. CASE SpeaksAll
    BY <2>5, FaithfulSpeaksAll
  <2>6. CASE Pauses
    BY <2>6, FaithfulPauses
  <2>7. CASE \E n \in 0..(Len(MarkNames) - 1) : PausesAtMark(n)
    BY <2>7, FaithfulPausesAtMark
  <2>8. CASE reload_message
    BY <2>8, FaithfulReload
  <2>9. CASE UNCHANGED texts_vars
    <3>1. UNCHANGED <<mode, text, stage, buf, received, index_mark, heard, spoiled>>
      BY <2>9 DEF texts_vars
    <3>2. RawDots' <=> RawDots
      BY <3>1, SameText
    <3>3. Accounted' <=> Accounted
      BY <3>1, Zenon DEF Accounted, Said
    <3> QED
      BY <3>1, <3>2, <3>3 DEF Faithful
  <2> QED
    BY <2>1, <2>2, <2>3, <2>4, <2>5, <2>6, <2>7, <2>8, <2>9 DEF TextsNext
<1>2. Faithful => HeardIsSent
  BY Zenon DEF Faithful, Accounted, HeardIsSent, Said
<1>3. TextsInit => Faithful
  BY FaithfulInitial
<1> QED
  BY <1>1, <1>2, <1>3, TextsInvariant, PTL DEF TextsSpec
=============================================================================
