------------------------------ MODULE Festival ------------------------------
(***************************************************************************)
(* The festival module and the connection to its synthesiser: the settings *)
(* it believes festival to have, the recovery from a connection that       *)
(* broke, and the cache of the waves of characters, keys and sound icons.  *)
(* Messages come one at a time, each after its settings, as output_speak() *)
(* of the server sends them; what STOP and PAUSE do is in Drivers.         *)
(*                                                                         *)
(* Festival itself is the environment: it holds settings as long as the    *)
(* connection lasts, makes waves with them, and may be gone at any moment. *)
(***************************************************************************)
EXTENDS Integers, FiniteSets, FiniteSetsExt

CONSTANTS
    NULL,
    Languages, Types, Names,   \* of voices: languages, types, synthesis voices
    Rates,                     \* stands for rate, pitch and the other numbers
    SizeOf,                    \* [text of an event -> samples of its wave]
    FestivalCacheMaxKBytes,
    Distinguished,             \* the possible values of FestivalCacheDistinguish*
    MixedVoices,     \* TRUE: a section of the configuration file sets a type of
                     \* voice beside the synthesis voice of a client
    DefaultHost      \* TRUE: FestivalServerHost is the default one

Events == DOMAIN SizeOf

ASSUME FestivalAssumption ==
    /\ NULL \notin Languages \cup Types \cup Names \cup Rates
                    \cup {"configured", "default"}
    /\ Types \cap Names = {}
    /\ \A t \in Events : SizeOf[t] \in Nat
    /\ FestivalCacheMaxKBytes \in Nat
    /\ Distinguished \subseteq SUBSET {"voice_type", "rate"}
    /\ {MixedVoices, DefaultHost} \subseteq BOOLEAN

VARIABLES
    distinguish,    \* what the keys of the cache depend on, besides the language
    msg_settings,   \* the settings of the message
    old,            \* msg_settings_old
    festival_info,  \* NULL, or the host it names: "configured" or "default"
    crashed,        \* festival_connection_crashed
    caches, counter, size,   \* FestivalCache
    pc,             \* what is done next with the message
    message,        \* festival_message and its type
    link, reachable,  \* festival: the connection, and whether it takes a new one
    tuned,          \* festival: the settings of the connection
    heard,          \* what was played of the message, NULL before
    lost            \* ghost: messages not heard since the last break, at most 2

settings == <<msg_settings, old>>
connection == <<festival_info, crashed, link, tuned>>
cache == <<caches, counter, size>>
outside == <<reachable, distinguish>>
festival_vars == <<settings, connection, cache, pc, message, heard, lost, outside>>

\* NULL stands for SPD_NO_VOICE and for the values below the minimum as well
Unset == [language |-> NULL, voice_type |-> NULL, name |-> NULL, rate |-> NULL]

\* what the server sends: set.c keeps the two kinds of voices apart
Settings ==
    {s \in [language : Languages, voice_type : Types \cup {NULL},
            name : Names \cup {NULL}, rate : Rates] :
        MixedVoices \/ NULL \in {s.voice_type, s.name}}

Untuned == [language |-> NULL, speaker |-> NULL, rate |-> NULL]

FestivalInit ==
    /\ distinguish \in Distinguished
    /\ msg_settings = Unset /\ old = Unset
    /\ festival_info = "configured" /\ crashed = FALSE
    /\ caches = {} /\ counter = {} /\ size = 0
    /\ pc = "set" /\ message = NULL /\ heard = NULL
    /\ link = "up" /\ reachable = TRUE /\ tuned = Untuned
    /\ lost = 0

-----------------------------------------------------------------------------
(* The ways a message goes on.                                             *)

Lost == lost' = IF reachable /\ lost < 2 THEN lost + 1 ELSE lost

\* 301 ERROR CANT SPEAK, or a report that the message is over, and silence
NotHeard == pc' = "set" /\ Lost
Continues(to) == pc' = to /\ UNCHANGED lost

Broken == link = "cut" \/ festival_info = NULL

\* festival_get_ack(): a read that fails closes the connection
SeesBreak == crashed' = (crashed \/ festival_info # NULL)

-----------------------------------------------------------------------------
(* The main thread: SET, then SPEAK, CHAR, KEY or SOUND_ICON.              *)

do_set ==
    /\ pc = "set"
    /\ msg_settings' \in Settings
    /\ message' \in {[text |-> t, event |-> TRUE] : t \in Events}
                    \cup {[text |-> "text", event |-> FALSE]}
    /\ heard' = NULL
    /\ Continues("speak")
    /\ UNCHANGED <<old, connection, cache, outside>>

\* Mutant: the settings are not sent again.
KeepsOldSettings == UNCHANGED old
clean_old_settings_table == old' = Unset

\* only after a break was seen; festival_info is freed if nobody listens, and
\* the next attempt starts from festivalDefaultInfo()
festivalOpen ==
    /\ pc = "speak" /\ crashed
    /\ clean_old_settings_table
    /\ LET host == IF festival_info = NULL THEN "default" ELSE festival_info
           answers == reachable /\ (host = "configured" \/ DefaultHost)
       IN  IF answers
           THEN /\ festival_info' = host /\ crashed' = FALSE
                /\ link' = "up" /\ tuned' = Untuned
                /\ Continues("require")
           ELSE /\ festival_info' = NULL /\ crashed' = TRUE
                /\ NotHeard
                /\ UNCHANGED <<link, tuned>>
    /\ UNCHANGED <<msg_settings, cache, message, heard, outside>>

\* the commands that load the Lisp module, and FestivalSetMultiMode(); the
\* module that fails at the first forgets the connection
OpensUp ==
    /\ pc = "require"
    /\ \/ Broken /\ SeesBreak /\ NotHeard /\ festival_info' \in {NULL, festival_info}
       \/ ~Broken /\ Continues("speak") /\ UNCHANGED <<festival_info, crashed>>
    /\ UNCHANGED <<settings, link, tuned, cache, message, heard, outside>>

\* a new language or type of voice makes festival forget the other settings
ComparesVoices ==
    /\ pc = "speak" /\ ~crashed
    /\ IF \/ msg_settings.voice_type # old.voice_type
          \/ old.language # NULL /\ msg_settings.language # old.language
       THEN clean_old_settings_table ELSE UNCHANGED old
    /\ Continues("language")
    /\ UNCHANGED <<msg_settings, connection, cache, message, heard, outside>>

\* a command to festival and its answer
Sends(p) ==
    LET value == msg_settings[p]
    IN  IF Broken THEN SeesBreak /\ UNCHANGED tuned
        ELSE /\ tuned' = CASE p = "language" -> [Untuned EXCEPT !.language = value]
                           [] p = "rate"     -> [tuned EXCEPT !.rate = value]
                           [] OTHER          -> [tuned EXCEPT !.speaker = value]
             /\ UNCHANGED crashed

\* a string that is NULL is remembered, festival keeps what it has
UpdateParameter(p, next) ==
    /\ pc = p
    /\ Continues(next)
    /\ old' = [old EXCEPT ![p] = msg_settings[p]]
    /\ IF msg_settings[p] # NULL /\ msg_settings[p] # old[p]
       THEN Sends(p) ELSE UNCHANGED <<crashed, tuned>>
    /\ UNCHANGED <<msg_settings, festival_info, link, cache, message, heard, outside>>

\* festivalGetVoices() uses the answer also when there was none: festival_info
\* is followed when it is NULL, a variable read that was never set
GetsVoices ==
    /\ pc = "language" /\ msg_settings.language # old.language /\ Broken
    /\ pc' = "died" /\ Lost
    /\ UNCHANGED <<settings, connection, cache, message, heard, outside>>

SetsLanguage == (pc = "language" /\ msg_settings.language # old.language
                    => festival_info # NULL)
                /\ UpdateParameter("language", "voice_type")

\* the message is handed to the speaking thread
Posts ==
    /\ pc = "post"
    /\ IF crashed THEN NotHeard ELSE Continues("begin")
    /\ UNCHANGED <<settings, connection, cache, message, heard, outside>>

-----------------------------------------------------------------------------
(* The cache.                                                              *)

\* the table of the language and of the settings that are told apart
cache_gen_key ==
    [language |-> msg_settings.language,
     others |-> [p \in distinguish |-> msg_settings[p]]]

Places(entries) == {<<e.table, e.text>> : e \in entries}
TotalSize(entries) == MapThenSumSet(LAMBDA e : e.size, entries)

cache_lookup == {e \in caches : e.table = cache_gen_key /\ e.text = message.text}

\* Mutant: one entry is removed, whatever its size.
RemovesOne(new) == {{e} : e \in counter}
\* Least used entries go until the new one fits into two thirds of the size.
\* How often an entry was used is divided by its age in seconds: any order.
cache_clean(new) ==
    {gone \in SUBSET counter :
        LET left == size - TotalSize(gone)
            enough == (2 * size) \div 3
        IN  /\ left + new <= enough \/ gone = counter
            /\ \E last \in gone : left + last.size + new > enough}

\* an entry is in its table and, with its size, in the list of counters
cache_insert(wave) ==
    LET new == SizeOf[message.text]
        full == size + new > FestivalCacheMaxKBytes
    IN  \E gone \in IF full /\ counter # {} THEN cache_clean(new) ELSE {{}} :
            LET kept == {e \in caches : <<e.table, e.text>> \notin Places(gone)}
            IN /\ caches' = kept \cup {[table |-> cache_gen_key,
                                        text |-> message.text, wave |-> wave]}
               /\ counter' = (counter \ gone)
                             \cup {[table |-> cache_gen_key,
                                    text |-> message.text, size |-> new]}
               /\ size' = size - TotalSize(gone) + new

-----------------------------------------------------------------------------
(* The speaking thread.                                                    *)

Hears(wave, cached) == heard' = [wave |-> wave, cached |-> cached]

PlaysCached ==
    /\ pc = "begin" /\ message.event
    /\ \E e \in cache_lookup : Hears(e.wave, TRUE)
    /\ Continues("set")
    /\ UNCHANGED <<settings, connection, cache, message, outside>>

\* FestivalSetMultiMode() and the command of the message
Requests ==
    /\ pc = "begin" /\ (message.event => cache_lookup = {})
    /\ IF Broken THEN SeesBreak /\ NotHeard
                 ELSE Continues("fetch") /\ UNCHANGED crashed
    /\ UNCHANGED <<settings, festival_info, link, tuned, cache, message, heard, outside>>

\* Mutant: a break is not noticed while a wave is fetched.
GetsNothing ==
    /\ pc = "fetch"
    /\ IF Broken
       THEN NotHeard /\ UNCHANGED <<heard, cache>>
       ELSE LET wave == [text |-> message.text, made |-> tuned]
            IN  /\ Hears(wave, FALSE) /\ Continues("set")
                /\ IF message.event THEN cache_insert(wave) ELSE UNCHANGED cache
    /\ UNCHANGED <<settings, connection, message, outside>>

\* the wave comes, or the connection breaks and END is reported
GetsWave ==
    /\ pc = "fetch"
    /\ IF Broken
       THEN SeesBreak /\ NotHeard /\ UNCHANGED <<heard, cache>>
       ELSE LET wave == [text |-> message.text, made |-> tuned]
            IN  /\ Hears(wave, FALSE) /\ Continues("set")
                /\ IF message.event THEN cache_insert(wave) ELSE UNCHANGED cache
                /\ UNCHANGED crashed
    /\ UNCHANGED <<settings, festival_info, link, tuned, message, outside>>

-----------------------------------------------------------------------------
(* Festival, and the server that starts the module again.                  *)

ModuleUnchanged ==
    UNCHANGED <<settings, festival_info, crashed, tuned, cache, pc, message,
                heard, distinguish>>

Breaks ==
    /\ link = "up"
    /\ link' = "cut" /\ reachable' \in BOOLEAN
    /\ lost' = 0
    /\ ModuleUnchanged

ComesBack ==
    /\ ~reachable /\ reachable' = TRUE
    /\ UNCHANGED <<link, lost>>
    /\ ModuleUnchanged

Restarts ==
    /\ pc = "died" /\ reachable
    /\ pc' = "set"
    /\ old' = Unset /\ msg_settings' = Unset
    /\ festival_info' = "configured" /\ crashed' = FALSE
    /\ link' = "up" /\ tuned' = Untuned
    /\ caches' = {} /\ counter' = {} /\ size' = 0
    /\ message' = NULL /\ heard' = NULL
    /\ UNCHANGED <<lost, outside>>

FestivalNext ==
    \/ do_set \/ festivalOpen \/ OpensUp \/ ComparesVoices
    \/ SetsLanguage \/ GetsVoices
    \/ UpdateParameter("voice_type", "name") \/ UpdateParameter("name", "rate")
    \/ UpdateParameter("rate", "post") \/ Posts
    \/ PlaysCached \/ Requests \/ GetsWave
    \/ Breaks \/ ComesBack \/ Restarts

FestivalSpec == FestivalInit /\ [][FestivalNext]_festival_vars

-----------------------------------------------------------------------------
SpeaksAs(made, s) ==
    IF s.name # NULL THEN made.speaker = s.name
    ELSE s.voice_type # NULL => made.speaker = s.voice_type

\* What is heard was made from the text of the message, in its language, and
\* with its voice and rate unless it comes from a cache that does not tell
\* them apart, although messages of clients with other settings came between,
\* the connection was opened anew, and only what has changed is ever sent.
HeardAsAsked ==
    heard # NULL =>
        LET made == heard.wave.made
            told(p) == ~heard.cached \/ p \in distinguish
        IN  /\ heard.wave.text = message.text
            /\ made.language = msg_settings.language
            /\ told("rate") => made.rate = msg_settings.rate
            /\ told("voice_type") /\ (heard.cached => msg_settings.name = NULL)
                 => SpeaksAs(made, msg_settings)

\* The tables of the cache and the list by which it is cleaned hold the same
\* entries, each once, the size is theirs, and it stays within the limit, but
\* for one wave alone that is larger.
CacheBounded ==
    /\ Places(caches) = Places(counter)
    /\ Cardinality(caches) = Cardinality(counter)
    /\ size = TotalSize(counter)
    /\ size <= FestivalCacheMaxKBytes \/ Cardinality(counter) = 1

\* A connection that breaks costs one message, the one that finds it broken,
\* at any step; the next one opens a new connection, if festival answers.
BreakCostsOne == lost <= 1

\* "if you want to keep separate caches for different voices"
\* (festival.conf:42): the key holds the type of a voice, not the name of one.
VoicesApart ==
    heard # NULL /\ heard.cached /\ "voice_type" \in distinguish
        => SpeaksAs(heard.wave.made, msg_settings)
=============================================================================
