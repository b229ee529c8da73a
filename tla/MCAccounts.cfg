\* Two connections over a database that starts empty: one owner, two more
\* accounts, two invitations.
SPECIFICATION Spec
CONSTANTS
    s1 = s1  s2 = s2  s3 = s3
    i1 = i1  i2 = i2  i3 = i3
    mail = mail  mail2 = mail2  ownerMail = ownerMail  tel = tel  tel2 = tel2
    UserIds = {1, 2, 3}
    Emails = {mail, ownerMail}
    Phones = {tel}
    Invitations = {i1}
    Sessions = {s1, s2}
    OwnerEmails = {ownerMail, mail}
    InviteRoles = {"SEARCHER"}
    InviteContacts = {tel}
    PatchRoles = {"ADMIN"}
    PatchActives = {"on", "off"}
    PatchPhones = {}
    PublicRegistration = TRUE
INVARIANTS
    TypeOK
    SingleOwner
    AdministratorsNeedOwner
PROPERTIES
    ClosedStaysClosed
    PatchAuthority
    InvitationAuthority
    OwnerIsPermanent
SYMMETRY Interchangeable
VIEW Unaudited
