\* Three connections: the smallest number on which an acceptance, a PATCH and a
\* revocation can wait for each other in a circle.
SPECIFICATION DrainSpec
CONSTANTS
    s1 = s1  s2 = s2  s3 = s3
    i1 = i1  i2 = i2  i3 = i3
    mail = mail  mail2 = mail2  ownerMail = ownerMail  tel = tel  tel2 = tel2
    UserIds = {1, 2, 3, 4}
    Emails = {mail, mail2, ownerMail}
    Phones = {tel, tel2}
    Invitations = {i1, i2, i3}
    Sessions = {s1, s2, s3}
    OwnerEmails = {ownerMail}
    InviteRoles = {"SEARCHER"}
    InviteContacts = {tel2}
    PatchRoles = {}
    PatchActives = {"off"}
    PatchPhones = {tel}
    PublicRegistration = TRUE
INVARIANTS
    OnePendingPerContact
    PatchesNeverDeadlock
    ContactsApart
PROPERTIES
    EveryRequestEnds
CHECK_DEADLOCK FALSE
