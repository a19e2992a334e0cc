------------------------------ MODULE Setting -------------------------------
(***************************************************************************)
(* A dashboard setting that is saved in SQLite (Setting<T> in              *)
(* core/settings.rs): the saved value, the value asked for last, and the   *)
(* save in progress.  Every operation yields the new setting and the value *)
(* to write, if any.  All five settings are such values; the API cookie's  *)
(* life is in MamSession.                                                  *)
(***************************************************************************)
EXTENDS Sequences

CONSTANT Values   \* what the setting can be

SettingState == [saved : Values, requested : Values, pending : Values,
                 persistence : {"Idle", "Pending", "Failed"}]

(* Setting::loaded.                                                        *)
LoadedSetting(value) == [saved |-> value, requested |-> value,
                         pending |-> value, persistence |-> "Idle"]

Outcome(s, writes) == [setting |-> s, writes |-> writes]

(* Setting::request.                                                       *)
RequestValue(s, value) ==
    LET asked == [s EXCEPT !.requested = value]
    IN  IF s.persistence = "Pending" THEN Outcome(asked, <<>>)
        ELSE IF value = s.saved
        THEN Outcome([asked EXCEPT !.persistence = "Idle"], <<>>)
        ELSE Outcome([asked EXCEPT !.persistence = "Pending",
                                   !.pending = value], <<value>>)

(* Setting::complete.                                                      *)
CompleteSave(s, ok) ==
    LET done == [s EXCEPT !.saved = IF ok THEN s.pending ELSE @,
                          !.persistence = IF ok THEN "Idle" ELSE "Failed"]
    IN  IF s.persistence # "Pending" THEN Outcome(s, <<>>)
        ELSE IF s.pending = s.requested THEN Outcome(done, <<>>)
        ELSE RequestValue(done, s.requested)

(* Setting::replacement_failed.                                            *)
ReplacementFailed(s) ==
    IF s.persistence = "Pending" /\ s.pending = s.requested
    THEN Outcome([s EXCEPT !.requested = s.saved, !.persistence = "Idle"],
                 <<>>)
    ELSE CompleteSave(s, FALSE)

=============================================================================
