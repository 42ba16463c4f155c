\* An account of two messages behind each REST backend, alone and with other slots.
SPECIFICATION Spec
CONSTANTS
    Mbox = {inbox, drafts}
    Inbox = inbox
    Drafts = drafts
    Keyword = {k}
    FlagSets = {{}, {"Seen"}, {k}, {"Seen", "Answered", k}}
    Registrations = {{"jmap", "imap", "smtp"}, {"gmail", "imap"},
                     {"msgraph", "smtp"}, {"maildir", "jmap"}}
    MaxId = 4
    MaxCalls = 2
    MaxMeddles = 1
INVARIANTS TypeOK RoutedBack BatchOutcome FlagsAsAsked NothingLost SendAccounted
CHECK_DEADLOCK FALSE
