SPECIFICATION Spec
CONSTANTS
  ContactKeys <- Senders
  SelfKey <- Own
  MaxMessages = 3
INVARIANT BadgeHasRow
