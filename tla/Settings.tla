------------------------------ MODULE Settings ------------------------------
(***************************************************************************)
(* The settings of the clients, set.c, and the commands that read and      *)
(* change them: SET, GET, LIST, BLOCK and HISTORY of parse.c, history.c.   *)
(* A client may set its own settings, those of a client it names, or       *)
(* everybody's.  Some settings depend on each other: a voice is either a   *)
(* type of voice or a voice of one output module, a language may bring     *)
(* another module, a client's name brings the settings the configuration   *)
(* file has for it.  Some may not change inside a block.                   *)
(***************************************************************************)
EXTENDS Integers, Sequences, FiniteSets

CONSTANTS
    Clients,        \* the clients the server has accepted, by their uids
    Params,         \* settings that are numbers or modes
    Names,          \* names of clients; "invalid" has not two colons
    Modules, Languages, Voices,
    Default,        \* GlobalFDSet.output_module
    language_default_modules,   \* for each language a module, or NULL
    client_specific_settings,   \* a sequence of [pattern, val]
    NULL,
    Wrap,           \* where a guint wraps, 2^32
    MaxCommands     \* bound: commands of all clients

Ranged     == {"rate", "pitch", "volume"}
Free       == {"pause_context", "ssml_mode"}
NotInBlock == {"punctuation_mode", "capital_letter_recognition", "spelling"}

\* what a client may ask for; "bad" is out of range or no such mode
Values     == {"one", "two", "bad"}
VoiceTypes == {"MALE1", "MALE2"}
Priorities == {"text", "message"}

SectionValues(par) ==
    CASE par \in Params        -> Values \ {"bad"}
      [] par = "voice_type"    -> VoiceTypes
      [] par = "output_module" -> Modules

ASSUME SettingsAssumption ==
    /\ Clients \subseteq Nat \ {0} /\ Params \subseteq Ranged \cup Free \cup NotInBlock
    /\ Default \in Modules /\ NULL \notin Modules \cup Voices
    /\ language_default_modules \in [Languages -> Modules \cup {NULL}]
    /\ Len(client_specific_settings) \in Nat
    /\ DOMAIN client_specific_settings = 1..Len(client_specific_settings)
    /\ \A i \in DOMAIN client_specific_settings :
         LET val == client_specific_settings[i].val
         IN  \A par \in DOMAIN val :
               par \in Params \cup {"voice_type", "output_module"} /\ val[par] \in SectionValues(par)
    /\ Wrap \in Nat \ {0} /\ MaxCommands \in Nat

\* who is meant, and the uid of a client that is named
Who        == {"self", "all"} \X {0} \cup {"uid"} \X (Clients \cup {0})

VARIABLES
    active,         \* the client is connected
    settings,
    cursor,         \* hist_cur_uid and hist_cur_pos
    inside_block,
    debug,          \* options.debug
    reply,          \* the reply to the last command
    commands,
    block,          \* ghost: what the messages of the block were queued with
    touched,        \* ghost: another client changed that inside the block
    chosen_for,     \* ghost: the module a synthesis voice was chosen for
    configured      \* ghost: the configuration file had its say after that
vars == <<active, settings, cursor, inside_block, debug, reply, commands,
          block, touched, chosen_for, configured>>

default_fd_set ==
    [number |-> [p \in Params |-> "one"], priority |-> "message",
     voice_type |-> "MALE1", voice_name |-> NULL, output_module |-> Default]

Init ==
    /\ active = [u \in Clients |-> TRUE]
    /\ settings = [u \in Clients |-> default_fd_set]
    /\ cursor = [u \in Clients |-> [uid |-> Wrap - 1, pos |-> -1]]
    /\ inside_block = [u \in Clients |-> FALSE]
    /\ debug = FALSE /\ reply = "none" /\ commands = 0
    /\ block = [u \in Clients |-> {}] /\ touched = [u \in Clients |-> FALSE]
    /\ chosen_for = [u \in Clients |-> NULL] /\ configured = [u \in Clients |-> FALSE]

-----------------------------------------------------------------------------
(* The settings of one client, s, after set_..._uid().                     *)

set_number_uid(s, p, v) == [s EXCEPT !.number[p] = v]

set_priority_uid(s, v) == [s EXCEPT !.priority = v]

\* Mutant: the synthesis voice is kept.
KeepsName(s, v) == [s EXCEPT !.voice_type = v]

set_voice_uid(s, v) == [s EXCEPT !.voice_type = v, !.voice_name = NULL]

\* "Delete ordinary voice settings so that we don't mix"
set_synthesis_voice_uid(s, v) == [s EXCEPT !.voice_name = v, !.voice_type = "NO_VOICE"]

\* "Delete synth_voice since it is module specific"
set_output_module_uid(s, m) == [s EXCEPT !.output_module = m, !.voice_name = NULL]

set_language_uid(s, l) ==
    IF language_default_modules[l] = NULL THEN s
    ELSE set_output_module_uid(s, language_default_modules[l])

\* all the sections that match are applied in the order of the file: the last
\* one that sets a parameter decides
section_value(name, par, value) ==
    LET decide == {i \in DOMAIN client_specific_settings :
                     /\ name \in client_specific_settings[i].pattern
                     /\ par \in DOMAIN client_specific_settings[i].val}
    IN  IF decide = {} THEN value
        ELSE client_specific_settings[CHOOSE i \in decide : \A j \in decide : j <= i].val[par]

\* what the file sets, and nothing else: a synthesis voice stays
update_cl_settings(s, name) ==
    [s EXCEPT !.number = [p \in Params |-> section_value(name, p, @[p])],
              !.voice_type = section_value(name, "voice_type", @),
              !.output_module = section_value(name, "output_module", @)]

-----------------------------------------------------------------------------
(* SET self, SET <uid> and SET all                                         *)

\* The settings of clients that have left are still there; SET all goes over
\* the descriptors.
Named(u, who) ==
    CASE who[1] = "self" -> {u}
      [] who[1] = "all"  -> {c \in Clients : active[c]}
      [] who[1] = "uid"  -> {who[2]} \cap Clients

Command(u) == active[u] /\ commands < MaxCommands /\ commands' = commands + 1

\* what may not change inside a block
Kept(s) == <<s.priority, [p \in Params \cap NotInBlock |-> s.number[p]]>>

\* New(s): what becomes of the settings of each client that is named, if the
\* server accepts the command
Sets(u, who, accepted, New(_)) ==
    /\ Command(u)
    /\ reply' = IF accepted /\ Named(u, who) # {} THEN "ok" ELSE "error"
    /\ settings' = [c \in Clients |-> IF accepted /\ c \in Named(u, who)
                                      THEN New(settings[c]) ELSE settings[c]]
    /\ touched' = [c \in Clients |-> \/ touched[c]
                                     \/ /\ c # u /\ inside_block[c]
                                        /\ Kept(settings'[c]) # Kept(settings[c])]
    /\ UNCHANGED <<active, cursor, inside_block, debug, block>>

SameVoice == UNCHANGED <<chosen_for, configured>>

set_ranged(u, who, p, v) ==
    Sets(u, who, v # "bad", LAMBDA s : set_number_uid(s, p, v)) /\ SameVoice

set_free(u, who, p, v) ==
    /\ Sets(u, who, p = "pause_context" \/ v # "bad", LAMBDA s : set_number_uid(s, p, v))
    /\ SameVoice

\* Mutant: the block is not looked at.
ModeInBlock(u, who, p, v) ==
    Sets(u, who, v # "bad", LAMBDA s : set_number_uid(s, p, v)) /\ SameVoice

\* not in a block of one's own; but in that of another client
set_mode(u, who, p, v) ==
    /\ Sets(u, who, ~inside_block[u] /\ v # "bad", LAMBDA s : set_number_uid(s, p, v))
    /\ SameVoice

set_priority(u, who, v) ==
    /\ Sets(u, who, ~inside_block[u] /\ who[1] = "self" /\ v # "bad",
            LAMBDA s : set_priority_uid(s, v))
    /\ SameVoice

set_voice(u, who, v) ==
    Sets(u, who, v # "bad", LAMBDA s : set_voice_uid(s, v)) /\ SameVoice

set_synthesis_voice(u, who, v) ==
    /\ Sets(u, who, TRUE, LAMBDA s : set_synthesis_voice_uid(s, v))
    /\ chosen_for' = [c \in Clients |-> IF c \in Named(u, who)
                                        THEN settings[c].output_module ELSE chosen_for[c]]
    /\ configured' = [c \in Clients |-> configured[c] /\ c \notin Named(u, who)]

set_language(u, who, l) ==
    Sets(u, who, TRUE, LAMBDA s : set_language_uid(s, l)) /\ SameVoice

set_output_module(u, who, m) ==
    /\ Sets(u, who, ~inside_block[u], LAMBDA s : set_output_module_uid(s, m))
    /\ SameVoice

set_client_name(u, who, name) ==
    /\ Sets(u, who, ~inside_block[u] /\ who[1] = "self" /\ name # "invalid",
            LAMBDA s : update_cl_settings(s, name))
    /\ configured' = [c \in Clients |-> configured[c] \/ settings'[c] # settings[c]]
    /\ UNCHANGED chosen_for

\* One switch for the whole server: the second client that SET all comes to
\* finds it where it should be, and that is an error.
set_debug(u, who, on) ==
    /\ Command(u) /\ debug' = on
    /\ reply' = IF debug # on /\ (who[1] = "all" => Cardinality(Named(u, who)) = 1)
                THEN "ok" ELSE "error"
    /\ UNCHANGED <<active, settings, cursor, inside_block, block, touched>> /\ SameVoice

-----------------------------------------------------------------------------
(* Blocks, messages, and commands that only answer                         *)

Others == UNCHANGED <<settings, debug>> /\ SameVoice

parse_block(u, begin) ==
    /\ Command(u)
    /\ reply' = IF inside_block[u] # begin THEN "ok" ELSE "error"
    /\ inside_block' = [inside_block EXCEPT ![u] = begin]
    /\ block' = [block EXCEPT ![u] = IF begin /\ ~inside_block[u] THEN {} ELSE @]
    /\ touched' = [touched EXCEPT ![u] = @ /\ ~(begin /\ ~inside_block[u])]
    /\ UNCHANGED <<active, cursor>> /\ Others

\* SPEAK, CHAR, KEY and SOUND_ICON: the message takes the settings along
queue_message(u) ==
    /\ Command(u) /\ reply' = "ok"
    /\ block' = [block EXCEPT ![u] = IF inside_block[u] THEN @ \cup {Kept(settings[u])}
                                                       ELSE @]
    /\ UNCHANGED <<active, cursor, inside_block, touched>> /\ Others

Query(u, accepted) ==
    /\ Command(u) /\ reply' = IF accepted /\ ~inside_block[u] THEN "ok" ELSE "error"
    /\ UNCHANGED <<active, cursor, inside_block, block, touched>> /\ Others

\* synthesis voices: those of the client's module, which may not say
parse_list(u, what) ==
    \/ Query(u, what # "bad")
    \/ what = "synthesis_voices" /\ Query(u, FALSE)

parse_get(u, what) == Query(u, what # "bad")

parse_help(u) == Query(u, TRUE)

parse_query(u) ==
    \/ \E what \in {"voices", "output_modules", "synthesis_voices", "bad"} : parse_list(u, what)
    \/ \E what \in {"voice", "output_module", "bad"} : parse_get(u, what)
    \/ parse_help(u)

-----------------------------------------------------------------------------
(* The history: no message is put into it, "if (0)" in queue_message().    *)

\* g_list_length(get_messages_by_client(uid)), for every uid
history_length == 0

AsGuint(n) == n % Wrap

AsInt(n) == IF n >= Wrap \div 2 THEN n - Wrap ELSE n

Cursor(u, accepted, uid, pos) ==
    /\ Command(u)
    /\ reply' = IF accepted /\ ~inside_block[u] THEN "ok" ELSE "error"
    /\ cursor' = [cursor EXCEPT ![u] = IF accepted /\ ~inside_block[u]
                                       THEN [uid |-> uid, pos |-> pos] ELSE @]
    /\ UNCHANGED <<active, inside_block, block, touched>> /\ Others

history_cursor_set_last(u, uid) ==
    Cursor(u, TRUE, uid, AsInt(AsGuint(history_length - 1)))

history_cursor_set_first(u, uid) == Cursor(u, TRUE, uid, 0)

\* an empty list has no last position: the bound wraps, and every position fits
history_cursor_set_pos(u, uid, pos) ==
    Cursor(u, pos >= 0 /\ AsGuint(pos) <= AsGuint(history_length - 1), uid, pos)

history_cursor_forward(u) ==
    Cursor(u, AsGuint(cursor[u].pos + 1) <= AsGuint(history_length - 1),
           cursor[u].uid, cursor[u].pos + 1)

history_cursor_backward(u) ==
    Cursor(u, cursor[u].pos - 1 >= 0, cursor[u].uid, cursor[u].pos - 1)

HistoryAnswers == {"client_list", "client_id"}

\* a list of no messages is a reply; what looks for one message finds none
HistoryLists == {"client_messages"}
HistoryFinds == {"message", "last", "cursor_get", "say"}

parse_history(u, what, uid) ==
    /\ Command(u)
    /\ reply' = IF /\ ~inside_block[u]
                   /\ \/ what \in HistoryAnswers
                      \/ what \in HistoryLists /\ uid \in Clients
                THEN "ok" ELSE "error"
    /\ UNCHANGED <<active, cursor, inside_block, block, touched>> /\ Others

\* BYE, or the descriptor is closed: the settings stay
connection_destroy(u) ==
    /\ Command(u) /\ reply' = "bye"
    /\ active' = [active EXCEPT ![u] = FALSE]
    /\ inside_block' = [inside_block EXCEPT ![u] = FALSE]
    /\ UNCHANGED <<cursor, block, touched>> /\ Others

parse_set(u, who) ==
    \/ \E v \in Values : \/ \E p \in Ranged \cap Params : set_ranged(u, who, p, v)
                         \/ \E p \in Free \cap Params : set_free(u, who, p, v)
                         \/ \E p \in NotInBlock \cap Params : set_mode(u, who, p, v)
    \/ \E v \in Priorities \cup {"bad"} : set_priority(u, who, v)
    \/ \E v \in VoiceTypes \cup {"bad"} : set_voice(u, who, v)
    \/ \E v \in Voices : set_synthesis_voice(u, who, v)
    \/ \E l \in Languages : set_language(u, who, l)
    \/ \E m \in Modules : set_output_module(u, who, m)
    \/ \E name \in Names : set_client_name(u, who, name)
    \/ \E on \in BOOLEAN : set_debug(u, who, on)

cursor_commands(u) ==
    \/ \E uid \in Clients \cup {0} :
          \/ history_cursor_set_last(u, uid) \/ history_cursor_set_first(u, uid)
          \/ \E pos \in -1..1 : history_cursor_set_pos(u, uid, pos)
    \/ history_cursor_forward(u) \/ history_cursor_backward(u)

Next == \E u \in Clients :
    \/ \E who \in Who : parse_set(u, who)
    \/ \E begin \in BOOLEAN : parse_block(u, begin)
    \/ queue_message(u)
    \/ parse_query(u)
    \/ cursor_commands(u)
    \/ \E what \in HistoryAnswers \cup HistoryLists \cup HistoryFinds, uid \in Clients \cup {0} :
          parse_history(u, what, uid)
    \/ connection_destroy(u)

Spec == Init /\ [][Next]_vars

-----------------------------------------------------------------------------
(* A voice of a synthesiser is a voice of the module the client speaks     *)
(* with, the one it was chosen for, and no type of voice is set beside it: *)
(* SET VOICE, SET SYNTHESIS_VOICE, SET OUTPUT_MODULE and SET LANGUAGE, of  *)
(* the client or of others, in any order, keep this, until a section of    *)
(* the configuration file is applied to the client.                        *)
VoiceFits == \A u \in Clients :
    settings[u].voice_name # NULL /\ ~configured[u] =>
        /\ settings[u].voice_type = "NO_VOICE"
        /\ settings[u].output_module = chosen_for[u]

(* The messages of a block are queued with one priority and one setting of *)
(* punctuation, spelling and capital letters, whatever the client sends    *)
(* between BLOCK BEGIN and BLOCK END, as long as no other client changes   *)
(* them meanwhile.                                                         *)
BlockIsUniform == \A u \in Clients : ~touched[u] => Cardinality(block[u]) <= 1
=============================================================================
