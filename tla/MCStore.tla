------------------------------ MODULE MCStore ------------------------------
(* Model checking of Store: one chat with a problem and a message, and a   *)
(* job, in the tables.  Ids and times are small numbers; a value of 0 is   *)
(* the one the validators refuse.                                          *)
EXTENDS Store

MCTables0 ==
    [chat    |-> {[id |-> 1, client_id |-> 2, created_at |-> 1]},
     problem |-> {[id |-> 2, chat_id |-> 1, manager_id |-> Null, resolved_at |-> Null, created_at |-> 1]},
     message |-> {[id |-> 3, chat_id |-> 1, problem_id |-> 2, author_id |-> 2,
                   is_visible_for_client |-> 1, is_visible_for_manager |-> 0, body |-> 1,
                   checked_at |-> Null, is_blocked |-> 0, is_service |-> 0,
                   initial_request_id |-> 1, created_at |-> 1]},
     job     |-> {[id |-> 1, name |-> 1, payload |-> 1, attempts |-> 1, available_at |-> 1,
                   reserved_until |-> 1, created_at |-> 1]},
     failed_job |-> {}]

(* For each entity a new row and one that meets the row in its table. *)
MCInputs ==
    [chat    |-> {[client_id |-> 3], [client_id |-> 2]},
     problem |-> {[chat_id |-> 1, manager_id |-> 2], [id |-> 2, chat_id |-> 1]},
     message |-> {[chat_id |-> 1, problem_id |-> 2, body |-> 2, initial_request_id |-> 2],
                  [chat_id |-> 1, problem_id |-> 2, body |-> 2, initial_request_id |-> 1]},
     job     |-> {[name |-> 2, payload |-> 2],
                  [id |-> 1, name |-> 1, payload |-> 1, attempts |-> 2]},
     failed_job |-> {[name |-> 1, payload |-> 1, reason |-> 1]}]

On(c, how) == [target |-> c, how |-> how]
SetOn(c, u) == [target |-> c, how |-> "set", changes |-> u]

MCConflicts ==
    [chat    |-> {On("client_id", "ignore"), On("client_id", "new")},
     problem |-> {On("id", "new"), SetOn("id", Changes([manager_id |-> 1], {}, None)),
                  SetOn("id", Changes([resolved_at |-> 1], {"resolved_at"}, None))},
     message |-> {On("initial_request_id", "new"), On("initial_request_id", "nothing"),
                  SetOn("initial_request_id", Changes([is_blocked |-> 1], {"checked_at"}, None))},
     job     |-> {On("id", "new"), SetOn("id", Changes(None, {}, [attempts |-> 1]))},
     failed_job |-> {On("id", "new")}]

Where(c, cmp, v) == [on |-> c, cmp |-> cmp, value |-> v]

MCFilters ==
    [chat    |-> {Where("messages", "Has", 0)},
     problem |-> {Where("manager_id", "IsNil", 0), Where("manager_id", "NEQ", 1)},
     message |-> {Where("checked_at", "LT", 2), Where("body", "In", {1, 2})},
     job     |-> {Where("attempts", "GTE", 2), Where("reserved_until", "LTE", 2)},
     failed_job |-> {Where("name", "EQ", 1)}]
=============================================================================
