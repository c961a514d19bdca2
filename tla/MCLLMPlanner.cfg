SPECIFICATION Spec
CONSTANTS
  email = email
  file = file
  send = send
  request = request
  find = find
  recipient = recipient
  approval = approval
  filename = filename
  Other = Other
  Missing = Missing
  None = None
  Tool = {email, file}
  Action = {send, request, find}
  Key = {recipient, approval, filename}
  ToolOf <- MCToolOf
  Accepts <- MCAccepts
  Payload <- MCPayload
  Prompt <- MCPrompt
  Output = 1
  Budget = 2
  MaxRetries = 1
  MaxSteps = 3
INVARIANTS
  TypeOK
  AuditExact
